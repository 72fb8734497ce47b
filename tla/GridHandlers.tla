---------------------------- MODULE GridHandlers ----------------------------
(***************************************************************************)
(* The handlers of gridded data: StoredGridQueryHandler, which downloads a *)
(* grid of query data, and StoredGridForecastQueryHandler, which answers   *)
(* forecasts at places from the grid engine.                               *)
(***************************************************************************)
EXTENDS ModelHandlers

-----------------------------------------------------------------------------
(* StoredGridQueryHandler.  A grid is the sequence of the points in the    *)
(* box, row after row from the south, each a pair of its coordinates.      *)

Grid_registered ==
    [single |-> {"producer", "missingtext", "datacrs", "begintime", "endtime"},
     other |-> {"meteo", "origintime", "leveltype", "scalefactor", "precision", "datastep", "levelvalue", "bbox"}]

\* The square of the distance of two points.
comparisonDistance(p, q) == (p[1] - q[1]) * (p[1] - q[1]) + (p[2] - q[2]) * (p[2] - q[2])

\* The width is the number of points before the first jump that is longer
\* than 1.1 of the first one: a single column looks like a single row.
getDataIndexExtents(points) ==
    LET first == comparisonDistance(points[1], points[2])
        jumps == {k \in 3 .. Len(points) : 10 * comparisonDistance(points[k - 1], points[k]) > 11 * first}
        width == IF jumps = {} THEN Len(points) ELSE (CHOOSE k \in jumps : \A j \in jumps : k <= j) - 1
    IN  IF Len(points) < 2 THEN ProcessingFailed ELSE Ok(<<width, Len(points) \div width>>)

\* Mutant: every step-th point of all rows.
makeSparseGrid_columns(points, step, width) ==
    Picked(points, {i \in DOMAIN points : ((i - 1) % width) % step = 0})

\* Every step-th point of every step-th row.
makeSparseGrid(points, step, width) ==
    Picked(points, {i \in DOMAIN points : ((i - 1) \div width) % step = 0 /\ ((i - 1) % width) % step = 0})

\* The rows in the opposite order, from the north.
rearrangeGrid(points, width) ==
    IF Len(points) % width # 0 THEN NoCode
    ELSE Ok([i \in DOMAIN points |->
                points[Len(points) - width * (((i - 1) \div width) + 1) + ((i - 1) % width) + 1]])

\* Query data without a grid or an area is refused.
check_grid_model(eng, producer) == IF eng.models[producer].points = <<>> THEN ProcessingFailed ELSE Ok(producer)

set_grid_corners(points) == IF Len(points) > 1 THEN Ok(<<points[1], Last(points)>>) ELSE ProcessingFailed

\* The values of a parameter at a time are those of the points.
grid_time_series(points, times, width) == All([t \in DOMAIN times |-> rearrangeGrid(points, width)])

\* The levels asked for are read under a name that is not registered: all are
\* taken.  The type of level may be left out, and then it is missed here.
Grid_parse_levels(par) == Then(Single(par, "leveltype"), LAMBDA type : Ok({}))

\* Parameters are told apart by their names: the second one of a name has no
\* entry of its own, and the entries of the later ones move up.
add_param_info(names) ==
    Picked(names, {i \in DOMAIN names : \A j \in 1 .. i - 1 : names[j] # names[i]})

\* The grids of each level and parameter.  The entry of a parameter past the
\* last one is read beyond the end of the vector.
Grid_levels(par, model, points, times, width) ==
    LET names == par["meteo"]
        infos == add_param_info(names)
        Group(l, p) ==
            IF p \notin DOMAIN infos THEN Throw("undefined", "none")
            ELSE Then(grid_time_series(points, times, width), LAMBDA grids :
                 Ok([ids |-> [feature_id |-> <<l, infos[p]>>],
                     rows |-> [t \in DOMAIN grids |->
                         [row |-> <<l, p, t>>,
                          data |-> [label |-> infos[p], name |-> names[p], grid |-> grids[t]]]]]))
    IN  Then(All([l \in DOMAIN model.levels |-> All([p \in DOMAIN names |-> Group(l, p)])]), LAMBDA ls :
        Ok(FlattenSeq(ls)))

Grid_extract_forecast(par, eng) ==
    LET model == eng.models[par["producer"][1]]
        times == time_list(par, model)
        step == par["datastep"][1]
    IN  Then(get_model(eng, par["producer"][1], parse_times(par)), LAMBDA run :
        Then(check_grid_model(eng, par["producer"][1]), LAMBDA p1 :
        Then(Singles(par, {"datastep"}), LAMBDA p2 :
        Checked(<< <<step < 1 \/ times = <<>>, "OperationProcessingFailed">> >>,
        Then(getDataIndexExtents(model.points), LAMBDA extents :
        LET points == makeSparseGrid(model.points, step, extents[1])
        IN  Then(getDataIndexExtents(points), LAMBDA dims :
            Then(set_grid_corners(points), LAMBDA corners :
            Then(Grid_levels(par, model, points, times, dims[1]), LAMBDA groups :
            Ok([dims |-> dims, groups |-> groups])))))))))

\* The box has to be given, in the system of the data.
Grid_query(h, par, eng) ==
    Guarded(
    Then(Singles(par, {"missingtext"}), LAMBDA p1 :
    Then(Grid_parse_levels(par), LAMBDA levels :
    Then(parse_params(par, eng), LAMBDA n :
    Then(Singles(par, {"begintime", "endtime", "datacrs"}), LAMBDA p2 :
    Checked(<< <<par["bbox"] = <<>>, "OperationProcessingFailed">>,
               <<par["bbox"] # <<>> /\ eng.box_crs # par["datacrs"][1], "OperationProcessingFailed">> >>,
    Then(transformed_box(par, eng), LAMBDA box :
    Then(Singles(par, {"producer"}), LAMBDA p3 :
    IF par["producer"][1] \notin DOMAIN eng.models THEN NoCode
    ELSE Then(Grid_extract_forecast(par, eng), LAMBDA result :
    format_output(eng, [begin |-> par["begintime"][1], end |-> par["endtime"][1], box |-> box,
                        groups |-> result.groups]))))))))))
-----------------------------------------------------------------------------
(* StoredGridForecastQueryHandler.  Its parameters are those of the        *)
(* forecasts from query data.                                              *)

\* getProducerName and getProducerNameList of each model asked for.
producer_list(par, eng) == FlattenSeq([i \in DOMAIN par["model"] |->
    IF par["model"][i] \in DOMAIN eng.mappings THEN eng.mappings[par["model"][i]] ELSE <<par["model"][i]>>])

\* What executeQuery is asked: the origin time is no part of it.
grid_query(par, eng, place, levels, heights) ==
    [place |-> place, producers |-> producer_list(par, eng), levels |-> levels, heights |-> heights,
     type |-> par["leveltype"][1], begin |-> par["begintime"][1], end |-> par["endtime"][1]]

\* The engine's answer: the producer it took and its latest run.
executeQuery(eng, q) ==
    LET asked == IF q.producers = <<>> THEN eng.order ELSE q.producers
        fits == Picked(asked, {i \in DOMAIN asked :
                    /\ asked[i] \in DOMAIN eng.models /\ q.place \in eng.models[asked[i]].places
                    /\ eng.models[asked[i]].runs # <<>>})
    IN  IF eng.fails \/ fits = <<>> THEN throw_query_server_error ELSE Ok(fits[1])

\* A value, or the text for a missing one; several values for one time step
\* are not written.
set_grid_value(eng, name) ==
    CASE eng.values[name] = 1 -> "value"
      [] eng.values[name] > 1 -> "nothing"
      [] OTHER -> "missing"

\* What the place, time, level, producer and run give, or the text for a
\* missing value.
set_special_values(eng, name) == IF name \in eng.special THEN "computed" ELSE "missing"

\* The columns of a row.
set_data_values(par, eng) ==
    [i \in DOMAIN par["meteo"] |->
        LET name == par["meteo"][i]
        IN  IF name[1] \in DOMAIN eng.values THEN set_grid_value(eng, name[1]) ELSE set_special_values(eng, name)]

\* The run of the values of the last place a data parameter has any for is
\* reported.
set_origin_time_and_area(par, eng, producer, st, rows) ==
    IF rows # <<>> /\ \E i \in DOMAIN par["meteo"] : par["meteo"][i][1] \in DOMAIN eng.values
    THEN <<Last(eng.models[producer].runs)>> ELSE st.reported

\* Rows for the times of one place, behind those before.  A place without a
\* time step uses up an index too: the rows of later places are shifted.
processGridQuery(par, eng, place, levels, heights, st) ==
    Then(executeQuery(eng, grid_query(par, eng, place, levels, heights)), LAMBDA producer :
    LET model == eng.models[producer]
        times == time_list(par, model)
        rows == [t \in DOMAIN times |-> [site |-> place, level |-> 0, time |-> times[t], producer |-> producer,
                                         origin |-> Last(model.runs), values |-> set_data_values(par, eng)]]
    IN  Ok([reported |-> set_origin_time_and_area(par, eng, producer, st, rows), rows |-> st.rows \o rows,
            rowCount |-> st.rowCount + (IF rows = <<>> THEN 1 ELSE Len(rows)),
            shifted |-> st.shifted \/ (rows # <<>> /\ st.rowCount # Len(st.rows))]))

GridForecast_extract_forecast(par, eng, levels, heights) ==
    LET Location(place, r) == Then(r, LAMBDA st : processGridQuery(par, eng, place, levels, heights, st))
        after[i \in 0 .. Len(par["places"])] ==
            IF i = 0 THEN Ok([reported |-> parse_times(par), rows |-> <<>>, rowCount |-> 0, shifted |-> FALSE])
            ELSE Location(par["places"][i], after[i - 1])
    IN  IF ~eng.grid_enabled THEN NoCode ELSE after[Len(par["places"])]

\* The rows are read by their numbers from the first: when they are shifted,
\* so is an index without a row, whose coordinates are no numbers.
GridForecast_query(h, par, eng) ==
    LET r == Then(Singles(par, {"missingtext", "locale", "maxdistance", "findnearestvalid"}), LAMBDA p1 :
             IF par["locale"][1] \notin eng.locales THEN ProcessingFailed
             ELSE Then(get_location_options(par, eng), LAMBDA places :
             Then(parse_level_heights(par), LAMBDA heights :
             Then(parse_levels(par), LAMBDA levels :
             Then(Singles(par, {"begintime", "endtime", "crs"}), LAMBDA p2 :
             Then(create_transformation(par["crs"][1], eng), LAMBDA crs :
             Then(GridForecast_extract_forecast(par, eng, levels, heights), LAMBDA st :
             IF st.shifted \/ ~tz_known(par, eng) THEN NoCode
             ELSE format_output(eng, [begin |-> par["begintime"][1], end |-> par["endtime"][1], box |-> <<>>,
                                      groups |-> Forecast_groups(h, par, st)]))))))))
    IN  IF r.ok THEN r ELSE ParsingFailed
=============================================================================
