----------------------------- MODULE MCHandlers -----------------------------
(***************************************************************************)
(* A small world for the data handlers: three places, two models of        *)
(* different runs, a few stations, soundings and strokes.                  *)
(***************************************************************************)
EXTENDS Handlers

t == <<"t", "lower">>
T == <<"t", "Upper">>
qc_t == <<"t", "qc">>
ws == <<"ws", "lower">>
lat == <<"lat", "lower">>
stationname == <<"stationname", "lower">>

Plain ==
    [handler |-> "obs", case_sensitive |-> FALSE, qc_parameters |-> TRUE, restrictions |-> TRUE, max_hours |-> 3,
     max_stations |-> 2, uint_bits |-> 8, separate_groups |-> FALSE, max_soundings |-> 1, block |-> 60,
     template |-> "simple", kind |-> "coverage", limits |-> <<0, 5, 5, 10>>, names |-> <<"dry", "wet">>, debug |-> FALSE,
     ww_types |-> <<"rain", "snow">>, producers |-> {}, formats |-> {<<"netcdf", "Upper">>}, url |-> <<"server">>, commas |-> {},
     named |-> [server |-> "server", producer |-> "producer", origintime |-> "origintime", param |-> "param",
                level |-> "level"],
     url_params |-> <<[kind |-> "ref", name |-> "producer"], [kind |-> "ref", name |-> "origintime"],
                      [kind |-> "text", name |-> "what", refs |-> <<"param", "level">>], [kind |-> "omit", name |-> "level"],
                      [kind |-> "separate", name |-> "param"]>>,
     datasets |-> <<[name |-> "d1", params |-> <<t, ws>>, levels |-> <<1, 2>>, meets |-> {"inside"}],
                    [name |-> "d2", params |-> <<t>>, levels |-> <<2>>, meets |-> {"outside"}],
                    [name |-> "d2", params |-> <<t, t>>, levels |-> <<2>>, meets |-> {"outside"}],
                    [name |-> "d3", params |-> <<t>>, levels |-> <<2>>, meets |-> {"outside"}]>>]
Class(c) == [Plain EXCEPT !.handler = c]

MCConfigured ==
    {Class("obs"), [Class("obs") EXCEPT !.separate_groups = TRUE, !.case_sensitive = TRUE],
     Class("mast"), [Class("mast") EXCEPT !.qc_parameters = FALSE],
     Class("nuclide"),
     Class("sounding"), [Class("sounding") EXCEPT !.restrictions = FALSE],
     Class("flash"), [Class("flash") EXCEPT !.restrictions = FALSE, !.block = 1], [Class("flash") EXCEPT !.block = 50],
     Class("forecast"), [Class("forecast") EXCEPT !.separate_groups = TRUE],
     Class("contour"), [Class("contour") EXCEPT !.kind = "isoline", !.limits = <<5>>],
     [Class("contour") EXCEPT !.kind = "winter"], [Class("contour") EXCEPT !.limits = <<0, 5, 10>>],
     Class("grid"), Class("gridforecast"),
     Class("atom"), [Class("atom") EXCEPT !.url_params = <<[kind |-> "ref", name |-> "unknown"]>>],
     Class("download"), [Class("download") EXCEPT !.debug = TRUE, !.producers = {"ec"}],
     [Class("download") EXCEPT !.url = <<"param">>, !.commas = {<<"origintime", 20>>}],
     Class("file"), [Class("file") EXCEPT !.debug = TRUE],
     Class("facility"), Class("network"), Class("aviation"), Class("probability")}

UsualValue ==
    [maxdistance |-> <<50>>, stationtype |-> <<"opendata">>, numofstations |-> <<1>>, locale |-> <<"fi">>,
     missingtext |-> <<"NaN">>, maxepochs |-> <<10>>, crs |-> <<"4326">>, begintime |-> <<60>>, endtime |-> <<120>>,
     timestep |-> <<60>>, latest |-> <<FALSE>>, meteo |-> <<t, ws>>, weekdays |-> <<>>, language |-> <<>>,
     places |-> <<1, 3>>, bbox |-> <<>>, timezone |-> <<>>, qualityinfo |-> <<>>, hours |-> <<>>,
     producers |-> <<10>>, nuclides |-> <<"Cs-137">>, soundingtype |-> <<>>, publicity |-> <<>>,
     altituderanges |-> <<>>, pressureranges |-> <<>>, findnearestvalid |-> <<FALSE>>, leveltype |-> <<"any">>,
     model |-> <<>>, origintime |-> <<>>, levelheights |-> <<>>, level |-> <<>>, producer |-> <<"hirlam">>,
     imagedir |-> <<>>, limits |-> <<>>, smoothing |-> <<>>, datacrs |-> <<"4326">>, scalefactor |-> <<>>,
     precision |-> <<>>, datastep |-> <<1>>, levelvalue |-> <<>>, fullinterval |-> <<0>>, format |-> <<>>,
     projection |-> <<"4326">>, dataset |-> <<>>,
     namespace |-> <<"fmi">>, authority |-> <<"fmi">>, classid |-> <<>>, groupid |-> <<>>, stationid |-> <<>>,
     stationname |-> <<>>, measurand |-> <<>>, showcapability |-> <<>>, networkid |-> <<>>, icao |-> <<>>]

\* A grid is asked for in a box, models on levels of any type.
MCUsual ==
    [c \in DOMAIN registered |->
        [name \in registered[c].single \cup registered[c].other |->
            CASE c \in {"grid", "probability"} /\ name = "bbox" -> <<"inside">>
              [] c = "download" /\ name \in {"leveltype", "producer"} -> <<>>
              [] OTHER -> UsualValue[name]]]

Other ==
    [maxepochs |-> {<<1>>, <<5>>}, crs |-> {<<"unknown">>, <<"3067">>, <<"-">>}, begintime |-> {<<0>>, <<100>>, <<180>>, <<>>},
     endtime |-> {<<100>>, <<300>>, <<>>}, timestep |-> {<<0>>, <<1500>>}, latest |-> {<<TRUE>>},
     meteo |-> {<<>>, <<t, T>>, <<t, qc_t>>, <<lat, t, ws>>, <<lat>>, <<t, t>>, <<stationname, t>>,
                <<t, <<"data_source", "lower">> >>, << <<"p", "lower">>, t>>, << <<"none", "lower">> >>},
     places |-> {<<>>, <<9>>, <<1, 2>>, <<3, 1>>}, bbox |-> {<<"inside">>, <<"bad">>, <<>>},
     timezone |-> {<<"local">>, <<"nowhere">>}, qualityinfo |-> {<<TRUE>>}, producers |-> {<<>>},
     nuclides |-> {<<"short">>, <<"Cs-137", "long">>}, soundingtype |-> {<<1, 2>>},
     altituderanges |-> {<<1>>, <<1, 2>>}, pressureranges |-> {<<1>>}, leveltype |-> {<<"hybrid">>},
     model |-> {<<"ec", "hirlam">>, <<"none">>}, origintime |-> {<<10>>, <<30>>},
     levelheights |-> {<<5>>, <<5, 5>>}, level |-> {<<1>>, <<1, 1>>}, producer |-> {<<"ec">>, <<"none">>},
     limits |-> {<<5, 10>>, <<5>>}, datacrs |-> {<<"3067">>}, datastep |-> {<<2>>, <<0>>, <<>>},
     stationtype |-> {<<"icebuoy">>, <<"-">>}, locale |-> {<<"xx">>}, levelvalue |-> {<<2>>}, fullinterval |-> {<<1>>},
     format |-> {<< <<"grib2", "Upper">> >>, << <<"netcdf", "Upper">> >>}, projection |-> {<<>>, <<"unknown">>},
     dataset |-> {<<"d1">>, <<"d4">>}, stationid |-> {<<3>>}, showcapability |-> {<<TRUE>>},
     icao |-> {<<"EFHK">>, <<"LONGER", "ESSA">>, <<"XXXX">>}]
MCAlternatives == [name \in DOMAIN UsualValue |-> IF name \in DOMAIN Other THEN Other[name] ELSE {}]

\* The points of a grid of the given numbers of columns and rows.
Points(cols, rows) == [i \in 1 .. cols * rows |-> <<1 + ((i - 1) % cols), 1 + ((i - 1) \div cols)>>]

Row(num, site, time, measurand, analysis) ==
    [num |-> num, site |-> site, geoid |-> site, position |-> TRUE, time |-> time, measurand |-> measurand,
     analysis |-> analysis]
Stroke(num, time, box) == [num |-> num, time |-> time, box |-> box]
Level(num, sounding, measurand, level) == [num |-> num, sounding |-> sounding, measurand |-> measurand, level |-> level]

Detail(station, item) == [station |-> station, item |-> item]
Airport(icao, geoid, keyword, box, x) == [icao |-> icao, geoid |-> geoid, keyword |-> keyword, box |-> box, x |-> x]
Message(num, icao, content, last) == [num |-> num, icao |-> icao, content |-> content, last |-> last]
Member(network, code) == [network |-> network, code |-> code]
Measurand(id, layer) == [id |-> id, layer |-> layer]

Run(producer, origin, first, last, meets) ==
    [producer |-> producer, origin |-> origin, first |-> first, last |-> last, meets |-> meets, names |-> <<t, ws>>,
     levels |-> <<1, 2>>, leveltype |-> "hybrid"]
File(name, origin) == [name |-> name, origin |-> origin, matches |-> TRUE]

hirlam ==
    [places |-> {1, 2}, leveltype |-> "surface", levels |-> <<0>>, times |-> <<60, 120, 180>>, runs |-> <<10, 20>>,
     multifile |-> FALSE, points |-> Points(3, 3)]
ec ==
    [places |-> {1, 2, 3}, leveltype |-> "hybrid", levels |-> <<1, 2>>, times |-> <<60, 90>>, runs |-> <<10, 20, 30>>,
     multifile |-> FALSE, points |-> Points(4, 2)]

\* Four stations, one of them in no group, and rows without a station.
db ==
    [stations |-> <<Detail(1, 0), Detail(1, 0), Detail(2, 0), Detail(3, 0), Detail(4, 0)>>,
     groups |-> <<Detail(1, 11), Detail(0, 12), Detail(1, 13), Detail(2, 12), Detail(3, 11)>>,
     networks |-> <<Detail(1, Member(20, 5)), Detail(1, Member(20, 6)), Detail(0, Member(40, 7)), Detail(3, Member(10, 8)),
                    Detail(3, Member(70, 9))>>,
     capabilities |-> <<Detail(1, Measurand(1, "air")), Detail(0, Measurand(2, "air")), Detail(3, Measurand(1, "soil"))>>,
     memberships |-> <<[group |-> 11], [group |-> 11], [group |-> 12], [group |-> 0]>>,
     aligned |-> TRUE, breaks |-> <<>>]

MCEngines ==
    [places |-> {1, 2, 3}, boxes |-> {"inside"}, crs |-> {"4326", "3067", "data"}, zones |-> {"UTC", "local"},
     template |-> TRUE, fails |-> FALSE, measured |-> {t, T, qc_t, ws}, special |-> {lat, stationname},
     initial |-> <<stationname, <<"fmisid", "lower">> >>, computed |-> {lat}, sensors |-> t :> <<1, 2>>,
     rows |-> <<Row(1, 1, 60, 7, 1), Row(2, 1, 60, 7, 1), Row(3, 3, 60, 7, 2), Row(4, 3, 120, 8, 3)>>,
     stations |-> 2, geoids |-> {1, 3}, registry |-> TRUE, profile |-> TRUE, found |-> <<1, 3>>,
     ids |-> [word \in {"t", "ws", "AC_P7D_avg"} |-> IF word = "t" THEN 7 ELSE 8] @@
             [word \in {"lat", "stationname", "data_source", "p", "none"} |-> 0],
     pressure |-> {"p"},
     soundings |-> <<[id |-> 1, site |-> 1, type |-> 2, time |-> 60], [id |-> 2, site |-> 3, type |-> 1, time |-> 60],
                     [id |-> 3, site |-> 3, type |-> 2, time |-> 60]>>,
     levels |-> <<Level(1, 1, 7, 1), Level(2, 1, 8, 1), Level(3, 1, 7, 2), Level(4, 3, 7, 1)>>,
     heights |-> {"4326", "data"}, now |-> 200,
     strokes |-> <<Stroke(1, 70, "inside"), Stroke(2, 119, "outside"), Stroke(3, 130, "untransformable")>>,
     nuclides |-> {"Cs-137"}, order |-> <<"hirlam", "ec">>, models |-> [hirlam |-> hirlam, ec |-> ec],
     names |-> {"t", "ws", "lat", "stationname"}, locales |-> {"fi"}, times |-> <<60, 120>>, lost |-> {}, light_only |-> {},
     parts |-> <<5, 10>> :> 2, undecodable |-> {}, source |-> "grid", source2 |-> "grid", grid_enabled |-> TRUE,
     grid_producers |-> {"ec"}, box_crs |-> "4326", mappings |-> "hirlam" :> <<"ec", "hirlam">>,
     values |-> [t |-> 1, ws |-> 2, p |-> 0], host |-> TRUE, epsg |-> {"4326"}, removed |-> {},
     metadata |-> <<Run("hirlam", 10, 30, 90, {"inside"}), Run("hirlam", 20, 40, 100, {"inside"}),
                    Run("ec", 30, 110, 300, {"inside", "outside"}), Run("ec", 40, 130, 400, {})>>,
     files |-> [d1 |-> <<File("f1", <<30>>), File("f2", <<70>>), File("f3", <<>>), File("f4", <<130>>)>>,
                d2 |-> <<[File("g1", <<80>>) EXCEPT !.matches = FALSE], File("g2", <<90>>)>>],
     db |-> db, uneven |-> {},
     airports |-> <<Airport("EFHK", 1, "finavia", "inside", 25), Airport("EFTU", 2, "opendata", "outside", 22),
                    Airport("ESSA", 3, "opendata", "inside", 18)>>,
     messages |-> <<Message(1, "EFHK", TRUE, FALSE), Message(2, "EFHK", TRUE, TRUE), Message(3, "ESSA", FALSE, TRUE),
                    Message(4, "EFTU", TRUE, TRUE)>>]

MCChanges ==
    [template |-> {FALSE}, fails |-> {TRUE}, registry |-> {FALSE}, profile |-> {FALSE}, found |-> {<<>>, <<1>>},
     rows |-> {<<>>, <<[Row(1, 3, 60, 7, 1) EXCEPT !.geoid = 0]>>, <<[Row(1, 3, 60, 7, 1) EXCEPT !.position = FALSE]>>,
               <<Row(1, 3, 60, 7, 1), Row(2, 1, 60, 7, 2), Row(3, 3, 90, 8, 2)>>},
     stations |-> {3}, geoids |-> {{1}}, now |-> {100},
     soundings |-> {<<[id |-> 1, site |-> 1, type |-> 1, time |-> 60], [id |-> 3, site |-> 3, type |-> 2, time |-> 120]>>},
     levels |-> {<<>>},
     models |-> {[hirlam |-> [hirlam EXCEPT !.multifile = TRUE, !.points = Points(2, 3)], ec |-> ec],
                 [hirlam |-> [hirlam EXCEPT !.runs = <<>>, !.points = <<>>], ec |-> [ec EXCEPT !.points = Points(1, 4)]]},
     times |-> {<<>>}, lost |-> {{60}}, light_only |-> {{120}}, parts |-> {<<0, 5>> :> 0}, undecodable |-> {{<<0, 5>>}},
     source |-> {"querydata"}, source2 |-> {"querydata"}, grid_enabled |-> {FALSE}, box_crs |-> {"3067"},
     sensors |-> {t :> <<3>>}, host |-> {FALSE}, removed |-> {{<<"ec", 30>>}}, metadata |-> {<<>>},
     files |-> {[d1 |-> <<>>]}, uneven |-> {{"snow"}}, messages |-> {<<>>},
     db |-> {[db EXCEPT !.breaks = "groups" :> 2], [db EXCEPT !.breaks = "capabilities" :> 0],
             [db EXCEPT !.breaks = "stations" :> 3, !.memberships = <<[group |-> 0], [group |-> 11]>>],
             [db EXCEPT !.aligned = FALSE, !.breaks = "networks" :> 1]}]
=============================================================================
