-------------------------- MODULE SoundingHandlers --------------------------
(***************************************************************************)
(* StoredSoundingQueryHandler and StoredFlashQueryHandler.  Their catch    *)
(* only adds the language, so an exception without a code leaves without   *)
(* one.                                                                    *)
(***************************************************************************)
EXTENDS HandlerBase

Sounding_registered ==
    [single |-> {"begintime", "endtime", "stationtype", "numofstations", "missingtext", "crs", "latest", "maxdistance"},
     other |-> {"meteo", "soundingtype", "publicity", "altituderanges", "pressureranges", "places", "bbox",
                "qualityinfo"}]

solveCrs(par) == IF par["crs"][1] = "-" THEN "data" ELSE par["crs"][1]

getStationSearchSettings(par, eng) ==
    Then(get_location_options(par, eng), LAMBDA places :
    Then(Singles(par, {"numofstations", "stationtype", "maxdistance"}), LAMBDA p :
    transformed_box(par, eng)))

\* Pressure is a column of every level and no measurand: its name is kept
\* apart, and the last one given counts.
validateAndPopulateMeteoParametersToMap(h, par, eng) ==
    LET names == par["meteo"]
        Id(i) == eng.ids[names[i][1]]
        Pressure(i) == Id(i) = 0 /\ names[i][1] \in eng.pressure
        Repeated(i) == \E j \in 1 .. i - 1 : Id(j) = Id(i) /\ isQCParameter(names[j]) = isQCParameter(names[i])
        kept == {i \in DOMAIN names : ~Pressure(i)}
    IN  Checked(<< <<names = <<>>, "OperationProcessingFailed">>,
                   <<~h.qc_parameters /\ \E i \in DOMAIN names : isQCParameter(names[i]), "InvalidParameterValue">>,
                   <<\E i \in kept : Id(i) = 0 \/ Repeated(i), "InvalidParameterValue">> >>,
        Ok([shown |-> [id \in {Id(i) : i \in kept} |-> {isQCParameter(names[i]) : i \in {i \in kept : Id(i) = id}}],
            pressure |-> kept # DOMAIN names]))

\* The soundings of the stations, by default those of type 2.
makeSoundingQuery(par, eng) ==
    LET types == IF par["soundingtype"] = <<>> THEN {2} ELSE ToSet(par["soundingtype"])
    IN  IF ~eng.registry THEN ProcessingFailed
        ELSE IF eng.fails THEN NoCode
        ELSE Ok(Picked(eng.soundings, {i \in DOMAIN eng.soundings :
                    LET s == eng.soundings[i]
                    IN  /\ s.type \in types /\ s.site \in ToSet(eng.found)
                        /\ par["begintime"][1] <= s.time /\ s.time <= par["endtime"][1]}))

\* The latest sounding is the first of its station.  One of type 1 is hidden
\* by one of type 2 of the same station and message time, if that one is here.
parseSoundingQuery(par, soundings) ==
    LET Older(i) == \E j \in 1 .. i - 1 : soundings[j].site = soundings[i].site
        here == {soundings[i] : i \in {i \in DOMAIN soundings : ~(par["latest"][1] /\ Older(i))}}
        Hidden(s) == s.type = 1 /\ \E t \in here : t.type = 2 /\ t.site = s.site /\ t.time = s.time
    IN  {s \in here : ~Hidden(s)}

checkMaxSoundings(h, soundings) ==
    Checked(<< <<Cardinality(soundings) > h.max_soundings, "OperationProcessingFailed">> >>, Ok(soundings))

\* Nothing is asked without soundings or measurands, so that pressure alone
\* finds nothing.
makeSoundingDataQuery(par, eng, soundings, shown) ==
    IF soundings = {} \/ DOMAIN shown = {} THEN Ok(<<>>)
    ELSE IF ~eng.registry THEN ProcessingFailed
    ELSE Checked(<< <<Len(par["altituderanges"]) % 2 = 1, "OperationParsingFailed">>,
                    <<Len(par["pressureranges"]) % 2 = 1, "OperationParsingFailed">> >>,
         IF eng.fails THEN NoCode
         ELSE Ok(Picked(eng.levels, {i \in DOMAIN eng.levels :
                     eng.levels[i].sounding \in {s.id : s \in soundings} /\ eng.levels[i].measurand \in DOMAIN shown})))

\* A group starts where the sounding changes and takes the position of its
\* station, or keeps that of the group before when the station is not known:
\* the test for that compares an iterator with the end inside the loop.
set_sounding_station(eng, soundings, rows, runs, k) ==
    LET Site(j) == (CHOOSE s \in soundings : s.id = rows[runs[j][1]].sounding).site
        known == {j \in 1 .. k : Site(j) \in ToSet(eng.found)}
    IN  IF known = {} THEN 0 ELSE Site(CHOOSE j \in known : \A i \in known : i <= j)

\* A measurand is a column.  The values of each column are written from the
\* first row on, and only the first measurand writes the levels of the rows.
fill_sounding_data(eng, soundings, rows, params) ==
    LET runs == Runs(rows, LAMBDA r : r.sounding)
        Column(run, i) == Cardinality({rows[run[j]].measurand : j \in 1 .. i}) - (IF params.pressure THEN 0 ELSE 1)
        Row(run, i) == Cardinality({j \in 1 .. i : rows[run[j]].measurand = rows[run[i]].measurand})
        Level(run, i) == IF Row(run, i) \in DOMAIN run /\ rows[run[Row(run, i)]].measurand = rows[run[1]].measurand
                         THEN rows[run[Row(run, i)]].level ELSE 0
    IN  [k \in DOMAIN runs |->
            [ids |-> [feature_id |-> rows[runs[k][1]].sounding],
             rows |-> [i \in DOMAIN runs[k] |->
                 [row |-> rows[runs[k][i]].num,
                  data |-> [at |-> set_sounding_station(eng, soundings, rows, runs, k),
                            column |-> Column(runs[k], i), level |-> Level(runs[k], i),
                            shown |-> params.shown[rows[runs[k][i]].measurand]]]]]]

Sounding_answer(h, par, eng, params) ==
    Then(IF eng.found = <<>> THEN Ok(<<>>) ELSE makeSoundingQuery(par, eng), LAMBDA result :
    LET soundings == parseSoundingQuery(par, result)
    IN  Then(IF h.restrictions THEN checkMaxSoundings(h, soundings) ELSE Ok(soundings), LAMBDA p :
        Then(makeSoundingDataQuery(par, eng, soundings, params.shown), LAMBDA rows :
        format_output(eng, [begin |-> par["begintime"][1], end |-> par["endtime"][1], box |-> par["bbox"],
                            groups |-> fill_sounding_data(eng, soundings, rows, params)]))))

Sounding_query(h, par, eng) ==
    Then(Singles(par, {"missingtext", "crs"}), LAMBDA p1 :
    Then(create_transformation(solveCrs(par), eng), LAMBDA crs :
    Checked(<< <<crs \notin eng.heights, "InvalidParameterValue">> >>,
    Then(getStationSearchSettings(par, eng), LAMBDA box :
    IF eng.fails THEN NoCode
    ELSE Then(validateAndPopulateMeteoParametersToMap(h, par, eng), LAMBDA params :
    Then(Singles(par, {"begintime", "endtime", "latest"}), LAMBDA p2 :
    Then(IF h.restrictions THEN check_time_interval(par["begintime"][1], par["endtime"][1], h.max_hours)
         ELSE Ok(0), LAMBDA p3 :
    Sounding_answer(h, par, eng, params))))))))
-----------------------------------------------------------------------------
(* StoredFlashQueryHandler: times are rounded to blocks of h.block, which  *)
(* divides the day and is 1 without restrictions.                          *)

Flash_registered ==
    [single |-> {"begintime", "endtime", "crs"}, other |-> {"meteo", "bbox", "timezone"}]

Day == 1440
Flash_configurable(h) == h.block >= 1 /\ Day % h.block = 0 /\ (h.restrictions \/ h.block = 1)

round_time(t, block) == block * (t \div block)

\* The answer ends with the last whole block, and never before it begins.
FlashPeriod(h, par, eng) ==
    LET begin == round_time(par["begintime"][1], h.block)
        last == eng.now - h.block
        asked == IF par["endtime"][1] < last THEN par["endtime"][1] ELSE last
        end == round_time(asked + h.block - 1, h.block)
    IN  [begin |-> begin, end |-> IF end < begin THEN begin ELSE end]

\* A name that is not special is taken for a measured one.
add_flash_parameters(par, eng) == \E i \in DOMAIN par["meteo"] : par["meteo"][i] \notin eng.special

\* A position that cannot be transformed counts as inside.
outside_bbox(par, row) == par["bbox"] # <<>> /\ row.box \notin {par["bbox"][1], "untransformable"}

generate_rows(par, eng, period) ==
    Picked(eng.strokes, {i \in DOMAIN eng.strokes :
        LET r == eng.strokes[i] IN period.begin <= r.time /\ r.time <= period.end /\ ~outside_bbox(par, r)})

Flash_answer(par, eng, period) ==
    LET rows == generate_rows(par, eng, period)
    IN  IF eng.fails THEN NoCode
        ELSE format_output(eng,
                [begin |-> period.begin, end |-> period.end, box |-> par["bbox"],
                 groups |-> IF rows = <<>> THEN <<>>
                            ELSE << [ids |-> [feature_id |-> par["meteo"]],
                                     rows |-> [i \in DOMAIN rows |-> [row |-> rows[i].num, data |-> par["meteo"]]]] >>])

Flash_query(h, par, eng) ==
    IF h.template \notin {"simple", "multipointcoverage"} THEN NoCode
    ELSE Then(Singles(par, {"crs"}), LAMBDA p1 :
    Then(create_transformation(par["crs"][1], eng), LAMBDA crs :
    Checked(<< <<crs \in eng.heights, "OperationProcessingFailed">> >>,
    Then(Singles(par, {"begintime", "endtime"}), LAMBDA p2 :
    LET period == FlashPeriod(h, par, eng)
    IN  Then(IF h.restrictions THEN check_time_interval(period.begin, period.end, h.max_hours) ELSE Ok(0), LAMBDA p3 :
        IF ~tz_known(par, eng) THEN NoCode
        ELSE Then(transformed_box(par, eng), LAMBDA box :
        Checked(<< <<~add_flash_parameters(par, eng), "OperationProcessingFailed">> >>,
                Flash_answer(par, eng, period))))))))
=============================================================================
