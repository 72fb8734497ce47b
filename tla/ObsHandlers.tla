---------------------------- MODULE ObsHandlers ----------------------------
(***************************************************************************)
(* The handlers of observations.  eng has the parameters each station type *)
(* measures, the special (place and time) parameters, the columns every    *)
(* query asks for, the sensors configured for a parameter and the rows the *)
(* observation engine returns: the station, its place and the time.        *)
(***************************************************************************)
EXTENDS HandlerBase

-----------------------------------------------------------------------------
(* StoredObsQueryHandler *)

\* The parameters the constructor registers, with those of the time and
\* location parameters: the ones a request has to give, once, and the others.
Obs_registered ==
    [single |-> {"maxdistance", "stationtype", "numofstations", "locale", "missingtext", "maxepochs",
                 "crs", "begintime", "endtime", "timestep", "latest"},
     other |-> {"meteo", "weekdays", "language", "places", "bbox", "timezone", "qualityinfo", "hours"}]

\* "data_source" asks for the source of every other parameter.  The names of
\* the map are in lower case unless the plugin is case sensitive, and only
\* the spelling meteoParameters is looked for.
add_data_source_params(h, par) ==
    LET names == par["meteo"]
        mparams == Picked(names, {i \in DOMAIN names : names[i] # <<"data_source", "lower">>})
    IN  IF h.case_sensitive /\ Len(mparams) < Len(names) /\ mparams # <<>>
        THEN [par EXCEPT !["meteo"] =
                 FlattenSeq([i \in DOMAIN mparams |-> <<mparams[i], <<mparams[i][1], "source">> >>])]
        ELSE par

\* Mutant: the quality columns are not counted.
add_meteo_parameter_narrow(eng, st, name, add_qc) ==
    LET sensors == IF name \in eng.special \/ name \notin DOMAIN eng.sensors THEN <<1>> ELSE eng.sensors[name]
        ind(k) == st.columns + k - 1
    IN  [columns |-> st.columns + Len(sensors),
         index |-> st.index \o [k \in DOMAIN sensors |->
                                   [name |-> name, ind |-> ind(k), qc |-> IF add_qc THEN ind(k) + 1 ELSE 0]],
         meteo |-> st.meteo \/ name \notin eng.special]

\* One column, or one for each sensor, and its quality column behind it.
add_meteo_parameter(eng, st, name, add_qc) ==
    LET sensors == IF name \in eng.special \/ name \notin DOMAIN eng.sensors THEN <<1>> ELSE eng.sensors[name]
        width == IF add_qc THEN 2 ELSE 1
        Entry(k) == LET ind == st.columns + (k - 1) * width
                    IN  [name |-> name, ind |-> ind, qc |-> IF add_qc THEN ind + 1 ELSE 0]
    IN  [columns |-> st.columns + Len(sensors) * width,
         index |-> st.index \o [k \in DOMAIN sensors |-> Entry(k)],
         meteo |-> st.meteo \/ name \notin eng.special]

\* A column asked for already, a value computed from place and time (0), or a
\* column of its own.
add_special_parameter(eng, st, name) ==
    LET initial == {k \in DOMAIN eng.initial : eng.initial[k] = Fold(name)}
        ind == CASE initial # {} -> CHOOSE k \in initial : \A j \in initial : k <= j
                 [] initial = {} /\ name \in eng.computed -> 0
                 [] OTHER -> st.columns
    IN  [columns |-> IF ind = st.columns THEN st.columns + 1 ELSE st.columns,
         index |-> Append(st.index, [name |-> name, ind |-> ind, qc |-> 0]),
         meteo |-> st.meteo]

\* columns is the number of the next column.
add_parameters(h, par, eng) ==
    LET names == par["meteo"]
        quality == Optional(par, "qualityinfo", FALSE)
        explicit == \E i \in DOMAIN names : isQCParameter(names[i])
        Add(i, r) ==
            Then(r, LAMBDA st :
                CASE Duplicate(names, i) -> InvalidValue
                  [] ~Duplicate(names, i) /\ names[i] \in eng.measured ->
                        Ok(add_meteo_parameter(eng, st, names[i], ~explicit /\ quality))
                  [] ~Duplicate(names, i) /\ names[i] \in eng.special \ eng.measured ->
                        Ok(add_special_parameter(eng, st, names[i]))
                  [] OTHER -> NoCode)
        after[i \in 0 .. Len(names)] ==
            IF i = 0 THEN Ok([columns |-> Len(eng.initial) + 1, index |-> <<>>, meteo |-> FALSE])
            ELSE Add(i, after[i - 1])
    IN  IF (~h.qc_parameters \/ ~quality) /\ explicit THEN InvalidValue
        ELSE after[Len(names)]

\* Buoys and Copernicus data have no places.
set_location_settings(par, eng) ==
    IF Single(par, "stationtype").val \in {"icebuoy", "copernicus"} THEN Ok(<<>>)
    ELSE get_location_options(par, eng)

\* maxEpochs and its product with the step are unsigned.
check_query_limits(h, par, eng, box) ==
    LET begin == par["begintime"][1]
        end == par["endtime"][1]
        step == IF par["timestep"][1] = 0 THEN 60 ELSE par["timestep"][1]
        span == (par["maxepochs"][1] * step) % 2 ^ h.uint_bits
    IN  Checked(<< <<begin > end, "OperationParsingFailed">>,
                   <<par["maxepochs"] = <<>>, "none">>,
                   <<h.restrictions /\ begin + span < end, "OperationProcessingFailed">>,
                   <<h.restrictions /\ h.max_stations > 0 /\ box # <<>> /\ eng.stations > h.max_stations,
                     "OperationProcessingFailed">> >>, Ok(box))

\* Mutant: the rows of a station go on to the end.
index_sites_open(rows) ==
    LET sites == Ordered(Values(rows, LAMBDA r : r.site))
    IN  [k \in DOMAIN sites |->
            [site |-> sites[k], rows |-> Ordered({i \in DOMAIN rows : rows[i].site >= sites[k]})]]

\* The rows of each station, in the order of the stations.
index_sites(rows) ==
    LET sites == Ordered(Values(rows, LAMBDA r : r.site))
    IN  [k \in DOMAIN sites |->
            [site |-> sites[k], rows |-> Ordered({i \in DOMAIN rows : rows[i].site = sites[k]})]]

\* The id of a feature is what it asks for: here the places and parameters.
\* feature_id keeps the parameter of its last use for the next group.
assign_groups(h, par, sites) ==
    LET names == par["meteo"]
        Ids(place, kept) == [feature_id |-> <<place, kept>>,
                             param_ids |-> [i \in DOMAIN names |-> <<place, <<names[i]>> >>]]
        Kept(k) == IF k = 1 \/ names = <<>> THEN names ELSE <<Last(names)>>
    IN  IF h.separate_groups
        THEN [k \in DOMAIN sites |-> [ids |-> Ids(sites[k].site, Kept(k)), sites |-> <<sites[k]>>]]
        ELSE IF sites = <<>> THEN <<>>
        ELSE << [ids |-> Ids(0, names), sites |-> sites] >>

\* The place of a station is looked up by its geoid; failures are ignored and
\* leave the null pointer.  A position is needed.
set_station_list(eng, rows, sites) ==
    LET First(k) == rows[sites[k].rows[1]]
    IN  IF \E k \in DOMAIN sites : ~First(k).position THEN NoCode
        ELSE Ok({First(k).geoid : k \in {k \in DOMAIN sites : First(k).geoid # 0}})

\* Values computed from the place: sites.at throws for a station without geoid,
\* an unknown place gives the text for missing values.
set_observation_value(eng, known, row, entry) ==
    CASE entry.ind # 0 -> Ok("value")
      [] entry.ind = 0 /\ row.geoid \notin known -> NoCode
      [] entry.ind = 0 /\ row.geoid \in known /\ row.geoid \notin eng.geoids -> Ok("missing")
      [] OTHER -> Ok("computed")

set_site_observations(par, eng, known, rows, site, index) ==
    LET first == rows[site.rows[1]]
    IN  IF ~tz_known(par, eng) THEN NoCode
        ELSE All([i \in DOMAIN site.rows |->
                 Then(All([k \in DOMAIN index |-> set_observation_value(eng, known, first, index[k])]),
                      LAMBDA vs : Ok([row |-> site.rows[i], data |-> vs]))])

Obs_answer(h, par, eng, index, box) ==
    LET rows == eng.rows
        sites == index_sites(rows)
        groups == assign_groups(h, par, sites)
        Written(known, g) ==
            Then(All([k \in DOMAIN g.sites |-> set_site_observations(par, eng, known, rows, g.sites[k], index)]),
                 LAMBDA obs : Ok([ids |-> g.ids, rows |-> FlattenSeq(obs)]))
    IN  Then(set_station_list(eng, rows, sites), LAMBDA known :
        Then(All([k \in DOMAIN groups |-> Written(known, groups[k])]), LAMBDA gs :
        format_output(eng, [begin |-> par["begintime"][1], end |-> par["endtime"][1], box |-> box, groups |-> gs,
                            index |-> index])))

Obs_query(h, given, eng) ==
    LET par == add_data_source_params(h, given)
    IN  Guarded(
        Then(Singles(par, {"begintime", "endtime"}), LAMBDA p1 :
        Then(IF h.restrictions THEN check_time_interval(par["begintime"][1], par["endtime"][1], h.max_hours)
             ELSE Ok(0), LAMBDA p2 :
        Then(IF par["meteo"] = <<>> THEN NoCode ELSE Singles(par, {"stationtype"}), LAMBDA p3 :
        Then(add_parameters(h, par, eng), LAMBDA st :
        Checked(<< <<~st.meteo, "OperationProcessingFailed">> >>,
        Then(Singles(par, {"crs"}), LAMBDA p4 :
        Then(create_transformation(par["crs"][1], eng), LAMBDA p5 :
        Then(Singles(par, {"timestep", "maxdistance", "numofstations", "missingtext", "locale"}), LAMBDA p6 :
        Then(set_location_settings(par, eng), LAMBDA places :
        Then(transformed_box(par, eng), LAMBDA box :
        Then(check_query_limits(h, par, eng, box), LAMBDA p7 :
        IF eng.fails THEN NoCode
        ELSE Obs_answer(h, par, eng, st.index, box)))))))))))))
-----------------------------------------------------------------------------
(* StoredMastQueryHandler *)

Mast_registered ==
    [single |-> {"maxdistance", "begintime", "endtime", "stationtype", "timestep", "numofstations",
                 "maxepochs", "missingtext", "crs"},
     other |-> {"meteo", "producers", "places", "bbox", "qualityinfo"}]

\* An empty name stands for the system of the data.
output_crs(par) == IF par["crs"][1] = "-" THEN "data" ELSE par["crs"][1]

check_time_step(step) == Checked(<< <<step > 1440, "InvalidParameterValue">> >>, Ok(step))

\* The product is a 64 bit number.
check_max_epochs(par) ==
    LET step == IF par["timestep"][1] > 0 THEN par["timestep"][1] ELSE 1
    IN  Checked(<< <<par["begintime"][1] + par["maxepochs"][1] * step < par["endtime"][1],
                     "OperationProcessingFailed">> >>, Ok(step))

\* The stations near the places and in the box.
find_stations(par, eng) ==
    Then(transformed_box(par, eng), LAMBDA box : IF eng.fails THEN NoCode ELSE Ok(eng.found))

\* A measurand may be asked for once by name and once by its quality code.
get_meteo_parameters(h, par, eng) ==
    LET names == par["meteo"]
        Id(i) == eng.ids[names[i][1]]
        Repeated(i) == \E j \in 1 .. i - 1 : Id(j) = Id(i) /\ isQCParameter(names[j]) = isQCParameter(names[i])
    IN  Checked(<< <<names = <<>>, "OperationProcessingFailed">>,
                   <<~h.qc_parameters /\ \E i \in DOMAIN names : isQCParameter(names[i]), "InvalidParameterValue">>,
                   <<\E i \in DOMAIN names : Id(i) = 0 \/ Repeated(i), "InvalidParameterValue">> >>,
            Ok([id \in {Id(i) : i \in DOMAIN names} |->
                   {isQCParameter(names[i]) : i \in {i \in DOMAIN names : Id(i) = id}}]))

\* DBRegistry and its configurations
dbRegistryConfig(eng, r) == IF eng.registry THEN r ELSE ProcessingFailed

\* One group for each station, time and measurand.  What is shown of a
\* measurand nobody asked for is what the group before showed.  A station
\* that is not known has no position, and set_2D_coord throws.
fill_mast_data(eng, stations, params) ==
    LET rows == eng.rows
        runs == Runs(rows, LAMBDA r : <<r.site, r.measurand, r.time>>)
        First(k) == rows[runs[k][1]]
        asked(k) == {j \in 1 .. k : First(j).measurand \in DOMAIN params}
        shown(k) == IF asked(k) = {} THEN {}
                    ELSE params[First(CHOOSE j \in asked(k) : \A i \in asked(k) : i <= j).measurand]
    IN  IF \E k \in DOMAIN runs : First(k).site \notin ToSet(stations) THEN NoCode
        ELSE Ok([k \in DOMAIN runs |->
                    [ids |-> [feature_id |-> <<First(k).site, First(k).time, First(k).measurand>>],
                     rows |-> [i \in DOMAIN runs[k] |-> [row |-> runs[k][i], data |-> shown(k)]]]])

\* Without stations or observation ids the answer is empty.
Mast_answer(par, eng, stations, params) ==
    Then(IF stations = <<>> \/ ~eng.profile THEN Ok(<<>>)
         ELSE IF eng.fails THEN NoCode
         ELSE fill_mast_data(eng, stations, params), LAMBDA groups :
    format_output(eng, [begin |-> par["begintime"][1], end |-> par["endtime"][1], box |-> par["bbox"],
                        groups |-> groups]))

Mast_query(h, par, eng) ==
    Guarded(
    Then(Singles(par, {"stationtype", "maxdistance", "numofstations", "missingtext", "crs"}), LAMBDA p1 :
    Then(create_transformation(output_crs(par), eng), LAMBDA p2 :
    Then(get_location_options(par, eng), LAMBDA places :
    Then(find_stations(par, eng), LAMBDA stations :
    Checked(<< <<par["producers"] = <<>>, "OperationProcessingFailed">> >>,
    Then(get_meteo_parameters(h, par, eng), LAMBDA params :
    Then(Singles(par, {"begintime", "endtime", "timestep", "maxepochs"}), LAMBDA p3 :
    Then(IF h.restrictions THEN check_time_interval(par["begintime"][1], par["endtime"][1], h.max_hours)
         ELSE Ok(0), LAMBDA p4 :
    Then(check_time_step(par["timestep"][1]), LAMBDA p5 :
    Then(IF h.restrictions THEN check_max_epochs(par) ELSE Ok(0), LAMBDA p6 :
    dbRegistryConfig(eng, Mast_answer(par, eng, stations, params)))))))))))))
-----------------------------------------------------------------------------
(* StoredAirNuclideQueryHandler *)

AirNuclide_registered ==
    [single |-> {"maxdistance", "begintime", "endtime", "stationtype", "timestep", "numofstations", "crs", "latest"},
     other |-> {"nuclides", "places", "bbox", "qualityinfo"}]

\* A code has three to eight characters, <letters>-<number> and a letter; the
\* exception for a short one carries the name of the constant as its code.
prepare_nuclide(code) ==
    CASE code = "short" -> Fail("WFS_INVALID_PARAMETER_VALUE")
      [] code \in {"long", "unrecognized"} -> InvalidValue
      [] OTHER -> Ok(code)

\* Names of the nuclides in the language; analyses of the latest day only
\* keep the first one of each station (they come latest first).
get_nuclide_names(eng) == IF eng.fails THEN NoCode ELSE Ok(eng.nuclides)

add_analysis_ids(par, profile) ==
    LET Older(i) == \E j \in 1 .. i - 1 : profile[j].site = profile[i].site
    IN  {profile[i].analysis : i \in {i \in DOMAIN profile : ~(par["latest"][1] /\ Older(i))}}

\* One group for each analysis; the first row of an unknown station ends it.
fill_analyses(eng, stations, ids) ==
    LET rows == Picked(eng.rows, {i \in DOMAIN eng.rows : eng.rows[i].analysis \in ids})
        runs == Runs(rows, LAMBDA r : r.analysis)
        unknown == {k \in DOMAIN runs : rows[runs[k][1]].site \notin ToSet(stations)}
        kept == IF unknown = {} THEN runs ELSE SubSeq(runs, 1, (CHOOSE k \in unknown : \A j \in unknown : k <= j) - 1)
    IN  [k \in DOMAIN kept |->
            [ids |-> [feature_id |-> <<rows[kept[k][1]].site, rows[kept[k][1]].time, rows[kept[k][1]].analysis>>],
             rows |-> [i \in DOMAIN kept[k] |-> [row |-> rows[kept[k][i]].num, data |-> {}]]]]

AirNuclide_answer(par, eng, stations) ==
    Then(IF stations = <<>> \/ ~eng.profile THEN Ok(<<>>)
         ELSE Then(get_nuclide_names(eng), LAMBDA names :
              Ok(fill_analyses(eng, stations, add_analysis_ids(par, eng.rows)))), LAMBDA groups :
    format_output(eng, [begin |-> par["begintime"][1], end |-> par["endtime"][1], box |-> par["bbox"],
                        groups |-> groups]))

AirNuclide_query(h, par, eng) ==
    Guarded(
    Then(Singles(par, {"stationtype", "maxdistance", "numofstations", "crs", "latest"}), LAMBDA p1 :
    Then(All([i \in DOMAIN par["nuclides"] |-> prepare_nuclide(par["nuclides"][i])]), LAMBDA codes :
    Then(create_transformation(output_crs(par), eng), LAMBDA p2 :
    Then(get_location_options(par, eng), LAMBDA places :
    Then(Singles(par, {"begintime", "endtime", "timestep"}), LAMBDA p3 :
    Then(IF h.restrictions THEN check_time_interval(par["begintime"][1], par["endtime"][1], h.max_hours)
         ELSE Ok(0), LAMBDA p4 :
    Then(check_time_step(par["timestep"][1]), LAMBDA p5 :
    Then(find_stations(par, eng), LAMBDA stations :
    dbRegistryConfig(eng,
    Checked(<< <<eng.ids["AC_P7D_avg"] = 0, "InvalidParameterValue">> >>,
            AirNuclide_answer(par, eng, stations))))))))))))
=============================================================================
