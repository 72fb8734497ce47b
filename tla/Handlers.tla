------------------------------ MODULE Handlers ------------------------------
(***************************************************************************)
(* The data handlers at work.  A stored query is configured with a handler *)
(* h; a client changes the parameters of a request, the engines' data and  *)
(* health change, and the handler answers.  h.handler names the class, the *)
(* other fields are its configuration.                                     *)
(***************************************************************************)
EXTENDS ObsHandlers, SoundingHandlers, GridHandlers, DownloadHandlers, StationHandlers

CONSTANTS
    Configured,     \* handlers of the configured stored queries
    Usual,          \* for each class: the parameters of an ordinary request
    Alternatives,   \* for each parameter: the values a client may give instead
    Engines,        \* what the engines know and return on an ordinary day
    Changes,        \* for each field of that: what it may be instead
    MaxChanges      \* bound on the changes before a request is answered

VARIABLES h, par, eng, changed, response

vars == <<h, par, eng, changed, response>>

\* The parameters the constructor of the class registers.
registered ==
    [obs |-> Obs_registered, mast |-> Mast_registered, nuclide |-> AirNuclide_registered,
     sounding |-> Sounding_registered, flash |-> Flash_registered, forecast |-> Forecast_registered,
     contour |-> Contour_registered, grid |-> Grid_registered, gridforecast |-> Forecast_registered,
     atom |-> Atom_registered, download |-> Download_registered, file |-> File_registered,
     facility |-> Facility_registered, network |-> Network_registered, aviation |-> Aviation_registered,
     probability |-> Probability_registered]

\* What a client may give for a parameter and what an engine may have.
Askable(c, name) == {Usual[c.handler][name]} \cup Alternatives[name]
Possible(field) == {Engines[field]} \cup (IF field \in DOMAIN Changes THEN Changes[field] ELSE {})

\* The lists of a configuration are vectors.
ASSUME ConfiguredAssumption ==
    \A c \in Configured :
        /\ c.handler = "contour" => IsVector(c.limits)
        /\ c.handler \in {"download", "file"} => IsVector(c.url_params) /\ IsVector(c.datasets)

\* A request gives the registered parameters, each a vector of values
\* (RequestParameterMap); an origin time is a scalar, the times and the geoids
\* of a request are numbers.
ASSUME ParametersAssumption ==
    \A c \in Configured :
        /\ DOMAIN Usual[c.handler] = registered[c.handler].single \cup registered[c.handler].other
        /\ \A name \in DOMAIN Usual[c.handler] : \A v \in Askable(c, name) :
              /\ IsVector(v)
              /\ name = "origintime" => Len(v) <= 1
              /\ name \in {"begintime", "endtime", "places"} => \A i \in DOMAIN v : v[i] \in Int

\* The columns of a database query are of one length, with numbers for the
\* stations; a query that breaks off has read some of its rows.
DatabaseQuery(d, query) ==
    /\ IsVector(d[query])
    /\ \A i \in DOMAIN d[query] : d[query][i].station \in Int
    /\ query \in DOMAIN d.breaks => d.breaks[query] \in 0 .. Len(d[query])

\* The lists of the engines are vectors, and the num of a row is its position
\* there; stations have numbers, a contour has a number of parts, the data of a
\* run begins before it ends, and a membership is of a network and a code.
ASSUME EnginesAssumption ==
    /\ DOMAIN Changes \subseteq DOMAIN Engines
    /\ {"initial", "sensors", "models", "times", "metadata", "files", "db", "parts",
        "rows", "levels", "strokes", "messages", "order", "mappings"} \subseteq DOMAIN Engines
    /\ \A field \in {"initial", "times", "metadata", "order"} : \A list \in Possible(field) : IsVector(list)
    /\ \A field \in {"rows", "levels", "strokes", "messages"} : \A list \in Possible(field) :
          IsVector(list) /\ \A i \in DOMAIN list : list[i].num = i
    /\ \A list \in Possible("rows") : \A i \in DOMAIN list : list[i].site \in Int
    /\ \A mappings \in Possible("mappings") : \A name \in DOMAIN mappings : IsVector(mappings[name])
    /\ \A sensors \in Possible("sensors") : \A name \in DOMAIN sensors : IsVector(sensors[name])
    /\ \A models \in Possible("models") : \A m \in DOMAIN models :
          IsVector(models[m].levels) /\ IsVector(models[m].times)
    /\ \A parts \in Possible("parts") : \A limits \in DOMAIN parts : parts[limits] \in Nat
    /\ \A list \in Possible("metadata") : \A i \in DOMAIN list :
          /\ list[i].first \in Int /\ list[i].last \in Int /\ list[i].first <= list[i].last
          /\ IsVector(list[i].names) /\ IsVector(list[i].levels)
    /\ \A files \in Possible("files") : \A name \in DOMAIN files : IsVector(files[name])
    /\ \A d \in Possible("db") :
          /\ \A query \in {"stations", "groups", "networks", "capabilities"} : DatabaseQuery(d, query)
          /\ IsVector(d.memberships)
          /\ \A i \in DOMAIN d.networks :
                d.networks[i].item = [network |-> d.networks[i].item.network, code |-> d.networks[i].item.code]

\* A constructor that throws leaves no handler behind.
Constructed(c) ==
    /\ c.handler = "flash" => Flash_configurable(c)
    /\ c.handler = "contour" => Contour_configurable(c)

NoResponse == [ok |-> FALSE, kind |-> "none", code |-> "none"]

TypeOK ==
    /\ h \in Configured
    /\ DOMAIN par = registered[h.handler].single \cup registered[h.handler].other
    /\ \A name \in registered[h.handler].single : Len(par[name]) = 1
    /\ DOMAIN eng = DOMAIN Engines
    /\ changed \in 0 .. MaxChanges
    /\ response.ok => {"begin", "end", "box", "groups"} \subseteq DOMAIN response.val

Init ==
    /\ h \in {c \in Configured : Constructed(c)}
    /\ par = Usual[h.handler] /\ eng = Engines
    /\ changed = 0 /\ response = NoResponse

\* The client gives a parameter another value, or leaves an optional one out.
Ask(name, value) ==
    /\ response = NoResponse /\ changed < MaxChanges
    /\ name \in registered[h.handler].single => Len(value) = 1
    /\ par' = [par EXCEPT ![name] = value]
    /\ changed' = changed + 1
    /\ UNCHANGED <<h, eng, response>>

\* Data arrives or is lost, an engine or the template starts to fail.
Happen(field, value) ==
    /\ response = NoResponse /\ changed < MaxChanges
    /\ eng' = [eng EXCEPT ![field] = value]
    /\ changed' = changed + 1
    /\ UNCHANGED <<h, par, response>>

Answer(handlers, r) ==
    /\ h.handler \in handlers /\ response = NoResponse
    /\ response' = r
    /\ UNCHANGED <<h, par, eng, changed>>

StoredObsQueryHandler == Answer({"obs"}, Obs_query(h, par, eng))
StoredMastQueryHandler == Answer({"mast"}, Mast_query(h, par, eng))
StoredAirNuclideQueryHandler == Answer({"nuclide"}, AirNuclide_query(h, par, eng))
StoredSoundingQueryHandler == Answer({"sounding"}, Sounding_query(h, par, eng))
StoredFlashQueryHandler == Answer({"flash"}, Flash_query(h, par, eng))
StoredForecastQueryHandler == Answer({"forecast"}, Forecast_query(h, par, eng))
StoredContourQueryHandler == Answer({"contour"}, Contour_query(h, par, eng))
StoredGridQueryHandler == Answer({"grid"}, Grid_query(h, par, eng))
StoredGridForecastQueryHandler == Answer({"gridforecast"}, GridForecast_query(h, par, eng))
StoredAtomQueryHandler == Answer({"atom"}, Atom_query(h, eng, Atom_update_parameters(par)))
StoredQEDownloadQueryHandler == Answer({"download"}, Download_query(h, par, eng))
StoredFileQueryHandler == Answer({"file"}, File_query(h, par, eng))
StoredEnvMonitoringFacilityQueryHandler == Answer({"facility"}, Facility_query(par, eng))
StoredEnvMonitoringNetworkQueryHandler == Answer({"network"}, Network_query(par, eng))
StoredAviationObservationQueryHandler == Answer({"aviation"}, Aviation_query(h, par, eng))
StoredWWProbabilityQueryHandler == Answer({"probability"}, Probability_query(h, par, eng))

\* The next request.
Again ==
    /\ response # NoResponse
    /\ par' = Usual[h.handler] /\ eng' = Engines
    /\ changed' = 0 /\ response' = NoResponse
    /\ UNCHANGED h

Next ==
    \/ \E name \in DOMAIN par : \E value \in Alternatives[name] : Ask(name, value)
    \/ \E field \in DOMAIN eng \cap DOMAIN Changes : \E value \in Changes[field] : Happen(field, value)
    \/ StoredObsQueryHandler \/ StoredMastQueryHandler \/ StoredAirNuclideQueryHandler
    \/ StoredSoundingQueryHandler \/ StoredFlashQueryHandler
    \/ StoredForecastQueryHandler \/ StoredContourQueryHandler
    \/ StoredGridQueryHandler \/ StoredGridForecastQueryHandler
    \/ StoredAtomQueryHandler \/ StoredQEDownloadQueryHandler \/ StoredFileQueryHandler
    \/ StoredEnvMonitoringFacilityQueryHandler \/ StoredEnvMonitoringNetworkQueryHandler
    \/ StoredAviationObservationQueryHandler \/ StoredWWProbabilityQueryHandler
    \/ Again

Spec == Init /\ [][Next]_vars
-----------------------------------------------------------------------------
(* Properties.                                                             *)

Groups == IF response.ok THEN response.val.groups ELSE <<>>
GroupRows == {<<k, i>> : k \in DOMAIN Groups, i \in UNION {DOMAIN Groups[j].rows : j \in DOMAIN Groups}}
RowsAt == {p \in GroupRows : p[2] \in DOMAIN Groups[p[1]].rows}
RowOf(p) == Groups[p[1]].rows[p[2]]

\* However the rows are cut into groups, no row of the engine's result is
\* written twice, and the handlers of observations and masts write every one:
\* the maps from sites and runs of rows to groups lose and repeat nothing
\* (assign_groups, fill_mast_data, set_group_data, fill_sounding_data).
RowsOnce ==
    /\ \A p, q \in RowsAt : RowOf(p).row = RowOf(q).row => p = q
    /\ response.ok /\ (h.handler = "obs" \/ (h.handler = "mast" /\ eng.found # <<>> /\ eng.profile)) =>
          {RowOf(p).row : p \in RowsAt} = DOMAIN eng.rows

\* Each value of an observation is read from a column of its own: no two
\* parameters, sensors or quality codes share one, except that a parameter
\* every query asks for is read from that column (add_meteo_parameter,
\* add_special_parameter and the columns the rows are read by).
ColumnsOwn ==
    response.ok /\ h.handler = "obs" =>
        LET index == response.val.index
            Columns(k) == {index[k].ind, index[k].qc} \ (0 .. Len(eng.initial))
        IN  \A j, k \in DOMAIN index :
                /\ j # k => Columns(j) \cap Columns(k) = {}
                /\ index[k].qc # index[k].ind \/ index[k].qc = 0

\* What a contour or a grid is labelled with is what it was computed from:
\* the limits of the contour engine's result, unless a geometry could not be
\* decoded, and the name of the parameter, unless a name was asked for twice
\* (label_contours, wkb_geometries, Grid_levels).
LabelledAsComputed ==
    \A p \in RowsAt :
        /\ h.handler = "contour" /\ eng.undecodable = {} => RowOf(p).data.label = RowOf(p).data.limits
        /\ h.handler = "grid" /\ add_param_info(par["meteo"]) = par["meteo"] =>
              RowOf(p).data.label = RowOf(p).data.name

\* A grid of at least two columns, no wider apart than its rows, is delivered from the north-west corner, row
\* after row, with every datastep-th point of every datastep-th row and no
\* other (getDataIndexExtents, makeSparseGrid, rearrangeGrid).
GridAsAsked ==
    h.handler = "grid" /\ response.ok =>
        LET points == eng.models[par["producer"][1]].points
            step == par["datastep"][1]
            Every(a) == {points[i][a] : i \in DOMAIN points} \cap {points[1][a] + n * step : n \in 0 .. Len(points)}
            xs == Every(1)
            ys == Every(2)
            north == Reverse(Ordered(ys))
            asked == FlattenSeq([j \in DOMAIN north |-> [i \in DOMAIN Ordered(xs) |-> <<Ordered(xs)[i], north[j]>>]])
        IN  Cardinality(xs) >= 2 => \A p \in RowsAt : RowOf(p).data.grid = asked

\* All rows of a forecast are of the model run the answer reports, and of the
\* one the client asks for, unless the model of the first place is spread over
\* several files (extract_forecast: origin_time is fixed by the first place).
OneModelRun ==
    h.handler = "forecast" /\ response.ok =>
        \A p \in RowsAt :
            \/ <<RowOf(p).data.origin>> = Groups[p[1]].origin
            \/ par["origintime"] = <<>> /\ eng.models[select_producer(par, eng, par["places"][1]).val].multifile

\* The template of a URL has ${name} for the value of that name in a set.
Refers(c, name) ==
    /\ [kind |-> "ref", name |-> name] \in Range(c.url_params)
    /\ name \in DOMAIN c.named /\ c.named[name] = name

\* The links of a download lead to what was asked for: a run the cache key
\* tells of, named by the URL itself where its template refers to it, with an
\* interval that is not empty and lies within the one asked for; a file of
\* that interval, with levels and parameters among those asked for
\* (update_parameters, get_cache_key_qualifier, model_time_selected,
\* add_time_info, query_files).
LinksAsAsked ==
    \A p \in RowsAt :
        LET link == RowOf(p).data
            begin == par["begintime"]
            end == par["endtime"]
        IN  /\ h.handler = "download" =>
                  /\ <<link.producer, link.origin>> \in get_cache_key_qualifier(h, par, eng)
                  /\ Refers(h, "producer") => <<"producer", <<link.producer>> >> \in Range(RowOf(p).url.params)
                  /\ Refers(h, "origintime") => <<"origintime", <<link.origin>> >> \in Range(RowOf(p).url.params)
                  /\ begin # <<>> /\ end # <<>> /\ begin[1] <= end[1] =>
                        begin[1] <= link.interval[1] /\ link.interval[1] <= link.interval[2] /\ link.interval[2] <= end[1]
            /\ h.handler = "file" =>
                  /\ begin[1] <= link.origin /\ link.origin <= end[1]
                  /\ par["level"] # <<>> => link.levels # {} /\ link.levels \subseteq Range(par["level"])
                  /\ par["meteo"] # <<>> => link.params # {} /\ link.params \subseteq Range(par["meteo"])

\* A facility is listed with what the database has for it and for no other:
\* the columns are read in step although rows without a station are passed
\* over, and as long as no query for details breaks off, every station that
\* is in a group is listed with all of its groups and measurands
\* (getStationGroupData and the two other tasks, by_station).
StationsOwnDetails ==
    LET Items(query, s) == {r.item : r \in {r \in ToSet(eng.db[query]) : r.station = s}}
        grouped == {r.station : r \in ToSet(eng.db.groups)} \cap {r.station : r \in ToSet(eng.db.stations)}
    IN  h.handler = "facility" /\ response.ok =>
            /\ \A p \in RowsAt :
                  LET s == RowOf(p).row
                      shown == RowOf(p).data
                      codes == [n \in DOMAIN shown.networks |-> [network |-> n, code |-> shown.networks[n]]]
                  IN  /\ ToSet(shown.groups) \subseteq Items("groups", s)
                      /\ ToSet(shown.capabilities.measurands) \subseteq Items("capabilities", s)
                      /\ Range(codes) \subseteq Items("networks", s)
                      /\ eng.db.breaks = <<>> =>
                            /\ ToSet(shown.groups) = Items("groups", s)
                            /\ par["showcapability"] = <<TRUE>> =>
                                  ToSet(shown.capabilities.measurands) = Items("capabilities", s)
            /\ eng.db.breaks = <<>> /\ par["stationid"] = <<>> =>
                  {RowOf(p).row : p \in RowsAt} = grouped \ {0}

\* An answer about facilities rests on queries that all succeeded.  It does
\* not hold: the tasks are waited for, their exceptions are never looked at
\* (StoredEnvMonitoringFacilityQueryHandler.cpp:307).
FailedTasksReported ==
    h.handler = "facility" /\ response.ok => eng.db.breaks = <<>>

\* A forecast is taken from the model run the client asks for.  It does not
\* hold: StoredGridForecastQueryHandler does not pass originTime on.
OriginHonoured ==
    h.handler \in {"forecast", "gridforecast"} /\ response.ok /\ par["origintime"] # <<>> =>
        \A p \in RowsAt : RowOf(p).data.origin = par["origintime"][1]
=============================================================================
