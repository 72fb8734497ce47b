--------------------------- MODULE ModelHandlers ---------------------------
(***************************************************************************)
(* The handlers of model data: forecasts at places and contours.  eng      *)
(* has, for each model, the places and times it covers, its levels, its    *)
(* runs (origin times, the latest last) and whether it is hybrid or spread *)
(* over several files.                                                     *)
(***************************************************************************)
EXTENDS HandlerBase

-----------------------------------------------------------------------------
(* StoredForecastQueryHandler.  Whatever code a failure has, the handler   *)
(* wraps it in one with the code of a parsing failure.                     *)

Forecast_registered ==
    [single |-> {"missingtext", "locale", "maxdistance", "findnearestvalid", "leveltype", "crs",
                 "begintime", "endtime"},
     other |-> {"model", "origintime", "levelheights", "level", "meteo", "places", "timezone"}]

parse_models(par, eng) == IF par["model"] = <<>> THEN eng.order ELSE par["model"]

\* A geometric height may be given once.
parse_level_heights(par) ==
    IF Cardinality(ToSet(par["levelheights"])) < Len(par["levelheights"]) THEN ParsingFailed
    ELSE Ok(ToSet(par["levelheights"]))

parse_levels(par) ==
    Then(Single(par, "leveltype"), LAMBDA type :
    IF Cardinality(ToSet(par["level"])) < Len(par["level"]) THEN ParsingFailed ELSE Ok(ToSet(par["level"])))

\* The columns behind those every query asks for; a name that cannot be
\* parsed is refused.
parse_params(par, eng) ==
    IF \E i \in DOMAIN par["meteo"] : par["meteo"][i][1] \notin eng.names THEN NoCode ELSE Ok(Len(par["meteo"]))

\* A sequence of at most one origin time.
parse_times(par) == par["origintime"]

\* The first model that has the place and the type of level.
select_producer(par, eng, place) ==
    LET asked == parse_models(par, eng)
        fits == Picked(asked, {i \in DOMAIN asked :
                    /\ asked[i] \in DOMAIN eng.models /\ place \in eng.models[asked[i]].places
                    /\ par["leveltype"][1] \in {"any", eng.models[asked[i]].leveltype}})
    IN  IF fits = <<>> THEN ProcessingFailed ELSE Ok(fits[1])

\* q_engine->get: the latest run, or the one asked for.
get_model(eng, producer, origin) ==
    IF producer \notin DOMAIN eng.models THEN NoCode
    ELSE LET runs == eng.models[producer].runs
         IN  CASE runs = <<>> -> NoCode
               [] runs # <<>> /\ origin = <<>> -> Ok(Last(runs))
               [] OTHER -> IF origin[1] \in ToSet(runs) THEN Ok(origin[1]) ELSE NoCode

check_level_options(eng, producer, levels, heights) ==
    Checked(<< <<heights # {} /\ eng.models[producer].leveltype # "hybrid", "OperationProcessingFailed">>,
               <<levels # {} /\ heights # {}, "OperationProcessingFailed">> >>, Ok(producer))

\* TimeSeriesGenerator::generate over the times of the data.
time_list(par, model) ==
    Picked(model.times, {i \in DOMAIN model.times : par["begintime"][1] <= model.times[i] /\ model.times[i] <= par["endtime"][1]})

\* A row for each height, or level of the data that is asked for, and time.
set_location_rows(par, eng, place, producer, run, levels, heights) ==
    LET model == eng.models[producer]
        used == IF heights # {} THEN Ordered(heights)
                ELSE Picked(model.levels, {i \in DOMAIN model.levels : levels = {} \/ model.levels[i] \in levels})
        times == time_list(par, model)
    IN  FlattenSeq([i \in DOMAIN used |->
            [j \in DOMAIN times |-> [site |-> place, level |-> used[i], time |-> times[j],
                                     producer |-> producer, origin |-> run]]])

\* Mutant: the run of the first place is reported only.
extract_forecast_latest(par, eng, levels, heights) ==
    LET Location(place, r) ==
            Then(r, LAMBDA st :
            Then(select_producer(par, eng, place), LAMBDA producer :
            Then(get_model(eng, producer, st.origin), LAMBDA run :
            Then(check_level_options(eng, producer, levels, heights), LAMBDA p :
            Ok([st EXCEPT !.reported = IF @ = <<>> THEN <<run>> ELSE @,
                          !.rows = @ \o set_location_rows(par, eng, place, producer, run, levels, heights)])))))
        after[i \in 0 .. Len(par["places"])] ==
            IF i = 0 THEN Ok([origin |-> parse_times(par), reported |-> parse_times(par), rows |-> <<>>])
            ELSE Location(par["places"][i], after[i - 1])
    IN  after[Len(par["places"])]

\* The run of the first place is reported, and asked of the models of the
\* later ones unless the first model is spread over several files.
extract_forecast(par, eng, levels, heights) ==
    LET Location(place, r) ==
            Then(r, LAMBDA st :
            Then(select_producer(par, eng, place), LAMBDA producer :
            Then(get_model(eng, producer, st.origin), LAMBDA run :
            LET first == st.reported = <<>>
            IN  Then(check_level_options(eng, producer, levels, heights), LAMBDA p :
                Ok([origin |-> IF first /\ ~eng.models[producer].multifile THEN <<run>> ELSE st.origin,
                    reported |-> IF first THEN <<run>> ELSE st.reported,
                    rows |-> st.rows \o set_location_rows(par, eng, place, producer, run, levels, heights)])))))
        after[i \in 0 .. Len(par["places"])] ==
            IF i = 0 THEN Ok([origin |-> parse_times(par), reported |-> parse_times(par), rows |-> <<>>])
            ELSE Location(par["places"][i], after[i - 1])
    IN  after[Len(par["places"])]

\* The interval of a group starts over at the first row of all.
set_group_data(rows, sites) ==
    LET mine == FlattenSeq([k \in DOMAIN sites |->
                    Ordered({i \in DOMAIN rows : rows[i].site = sites[k]})])
        from == IF \E p \in DOMAIN mine : mine[p] = 1 THEN CHOOSE p \in DOMAIN mine : mine[p] = 1 ELSE 1
        times == {rows[mine[p]].time : p \in from .. Len(mine)}
    IN  [begin |-> CHOOSE t \in times : \A u \in times : t <= u,
         end |-> CHOOSE t \in times : \A u \in times : u <= t,
         rows |-> [p \in DOMAIN mine |-> [row |-> mine[p], data |-> rows[mine[p]]]]]

\* One group, or one for each place, in the order of the geoids.
Forecast_groups(h, par, st) ==
    LET sites == Ordered(Values(st.rows, LAMBDA r : r.site))
        Group(ids) == LET data == set_group_data(st.rows, ids)
                      IN  [ids |-> [feature_id |-> <<ids, par["meteo"]>>,
                                    param_ids |-> [i \in DOMAIN par["meteo"] |-> <<ids, <<par["meteo"][i]>> >>]],
                           origin |-> st.reported, begin |-> data.begin, end |-> data.end, rows |-> data.rows]
    IN  IF sites = <<>> THEN <<>>
        ELSE IF h.separate_groups THEN [k \in DOMAIN sites |-> Group(<<sites[k]>>)]
        ELSE <<Group(sites)>>

Forecast_query(h, par, eng) ==
    LET r == Then(Singles(par, {"missingtext", "locale", "maxdistance", "findnearestvalid"}), LAMBDA p1 :
             IF par["locale"][1] \notin eng.locales THEN ProcessingFailed
             ELSE Then(get_location_options(par, eng), LAMBDA places :
             Then(parse_level_heights(par), LAMBDA heights :
             Then(parse_levels(par), LAMBDA levels :
             Then(parse_params(par, eng), LAMBDA n :
             Then(Singles(par, {"begintime", "endtime", "crs"}), LAMBDA p2 :
             Then(create_transformation(par["crs"][1], eng), LAMBDA crs :
             Then(extract_forecast(par, eng, levels, heights), LAMBDA st :
             IF st.rows # <<>> /\ ~tz_known(par, eng) THEN NoCode
             ELSE format_output(eng, [begin |-> par["begintime"][1], end |-> par["endtime"][1], box |-> <<>>,
                                      groups |-> Forecast_groups(h, par, st)])))))))))
    IN  IF r.ok THEN r ELSE ParsingFailed
-----------------------------------------------------------------------------
(* StoredContourQueryHandler and the handlers of coverages, isolines and   *)
(* winter weather derived from it.  h.kind is one of these, h.limits the   *)
(* configured limits or isovalues, h.names the names of winter weather.    *)
(* A contour the engine returns is a record of the limits it was computed  *)
(* for, its parts and whether it can be decoded.                           *)

Contour_registered ==
    [single |-> {"producer", "crs", "begintime", "endtime"},
     other |-> {"origintime", "imagedir", "limits", "smoothing", "bbox", "timezone"}]

Contour_configurable(h) == h.kind = "isoline" \/ Len(h.limits) % 2 = 0

read_coverage_limits(h, par) ==
    IF h.kind # "isoline" /\ Len(par["limits"]) % 2 = 1 THEN ParsingFailed ELSE Ok(par["limits"])

\* The limits or isovalues that are drawn: those of the request, if any.
drawn_limits(h, par) ==
    LET limits == IF par["limits"] # <<>> THEN par["limits"] ELSE h.limits
    IN  IF h.kind = "isoline" THEN [i \in DOMAIN h.limits |-> <<h.limits[i], h.limits[i]>>]
        ELSE [i \in 1 .. Len(limits) \div 2 |-> <<limits[2 * i - 1], limits[2 * i]>>]

\* Mutant: contours that are empty are left out.
contour_drawn(eng, limits) ==
    LET Parts(pair) == IF pair \in DOMAIN eng.parts THEN eng.parts[pair] ELSE 1
        drawn == Picked(limits, {i \in DOMAIN limits : Parts(limits[i]) > 0})
    IN  [i \in DOMAIN drawn |-> [limits |-> drawn[i], parts |-> Parts(drawn[i])]]

\* One contour for each pair of limits; clipping may leave it empty.
contour(eng, limits) ==
    [i \in DOMAIN limits |->
        [limits |-> limits[i], parts |-> IF limits[i] \in DOMAIN eng.parts THEN eng.parts[limits[i]] ELSE 1]]

\* A time step whose data or contours fail is left out.
getContours_qEngine(par, eng, limits) ==
    LET all == time_list(par, eng)
        times == Picked(all, {i \in DOMAIN all : all[i] \notin eng.lost})
    IN  IF limits = <<>> THEN <<>>
        ELSE [k \in DOMAIN times |-> [time |-> times[k], geoms |-> contour(eng, limits)]]

\* What cannot be decoded from the engine's bytes is left out.
wkb_geometries(eng, geoms) == Picked(geoms, {i \in DOMAIN geoms : geoms[i].limits \notin eng.undecodable})

throw_query_server_error == NoCode

getContours_gridEngine(par, eng, limits) ==
    LET times == time_list(par, eng)
        steps == [k \in DOMAIN times |-> [time |-> times[k], geoms |-> wkb_geometries(eng, contour(eng, limits))]]
    IN  IF eng.fails THEN throw_query_server_error
        ELSE Ok(Picked(steps, {k \in DOMAIN steps : steps[k].geoms # <<>>}))

\* The data source is read again: query data is used for a grid query when
\* another request has changed the source since, and there is none.
getContours(par, eng, grid, limits) ==
    CASE grid /\ eng.source2 = "grid" -> getContours_gridEngine(par, eng, limits)
      [] grid /\ eng.source2 # "grid" -> IF limits = <<>> \/ eng.times = <<>> THEN Ok(<<>>) ELSE Throw("crash", "none")
      [] OTHER -> Ok(getContours_qEngine(par, eng, limits))

\* The i-th contour of every time step is labelled with the i-th limits.
label_contours(limits, steps) ==
    FlattenSeq([i \in DOMAIN limits |->
        LET with == Picked(steps, {k \in DOMAIN steps : i \in DOMAIN steps[k].geoms})
        IN  [k \in DOMAIN with |-> [label |-> limits[i], time |-> with[k].time, geom |-> with[k].geoms[i]]]])

processQuery(h, par, eng, grid) ==
    LET limits == drawn_limits(h, par)
    IN  IF h.kind = "winter" /\ Len(h.names) # Len(limits) THEN InvalidValue
        ELSE Then(getContours(par, eng, grid, limits), LAMBDA steps : Ok(label_contours(limits, steps)))

\* A contour is a member, a collection one for each part that is not empty.
parseQueryResults(results) ==
    FlattenSeq([k \in DOMAIN results |->
        [i \in 1 .. results[k].geom.parts |->
            [row |-> <<k, i>>,
             data |-> [label |-> results[k].label, limits |-> results[k].geom.limits, time |-> results[k].time]]]])

Contour_members(par, eng, results) ==
    IF ~tz_known(par, eng) THEN NoCode
    ELSE LET members == parseQueryResults(results)
         IN  format_output(eng, [begin |-> par["begintime"][1], end |-> par["endtime"][1], box |-> par["bbox"],
                                 groups |-> [k \in DOMAIN members |->
                                                [ids |-> [feature_id |-> members[k].row], rows |-> <<members[k]>>]]])

\* A system the spatial library does not know is refused.
target_crs(par, eng) ==
    IF Optional(par, "crs", "data") \in eng.crs THEN Ok(Optional(par, "crs", "data")) ELSE ParsingFailed

query_qEngine(h, par, eng) ==
    Then(target_crs(par, eng), LAMBDA crs :
    Then(get_model(eng, par["producer"][1], parse_times(par)), LAMBDA run :
    Then(read_coverage_limits(h, par), LAMBDA limits :
    Then(Singles(par, {"begintime", "endtime"}), LAMBDA p :
    Then(transformed_box(par, eng), LAMBDA box :
    Then(processQuery(h, par, eng, FALSE), LAMBDA results :
    Contour_members(par, eng, results)))))))

query_gridEngine(h, par, eng) ==
    Then(target_crs(par, eng), LAMBDA crs :
    Then(Singles(par, {"begintime", "endtime"}), LAMBDA p :
    Then(read_coverage_limits(h, par), LAMBDA limits :
    Then(transformed_box(par, eng), LAMBDA box :
    Then(processQuery(h, par, eng, TRUE), LAMBDA results :
    Contour_members(par, eng, results))))))

\* A grid producer is asked of the grid engine if that is the data source.
Contour_query(h, par, eng) ==
    Then(Single(par, "producer"), LAMBDA producer :
    IF eng.source = "grid" /\ eng.grid_enabled /\ producer \in eng.grid_producers
    THEN query_gridEngine(h, par, eng) ELSE query_qEngine(h, par, eng))
=============================================================================
