-------------------------- MODULE MCParameterFlow --------------------------
(* A query with times, hours, places and station ids, configured in several  *)
(* ways, right and wrong, and requests with missing, repeated, conflicting,  *)
(* unreadable and differently spelled parameters.                            *)
EXTENDS ParameterFlow

L(n) == <<n, "lower">>
U(n) == <<n, "Upper">>
Text(n) ==
    [types |-> {"string", "int", "double"} \cup (IF n >= 0 THEN {"uint", "distance"} ELSE {}), n |-> n]
Time(n) == [types |-> {"string", "time"}, n |-> n]
Distance(n) == [types |-> {"string", "distance"}, n |-> n]
Word(n) == [types |-> {"string"}, n |-> n]
Box(n) == [types |-> {"string", "bbox"}, n |-> n]
Bool(n) == [types |-> {"string", "bool"}, n |-> n]

Desc(name, type, dims, xml, min, max, conflicts) ==
    [name |-> L(name), type |-> [type |-> type, dims |-> dims], xml_type |-> xml,
     min_occurs |-> min, max_occurs |-> max, lower |-> <<>>, upper |-> <<>>,
     conflicts |-> conflicts, complete |-> TRUE]

\* In the order of names.
Descs ==
    << Desc("bbox", "bbox", <<>>, "Envelope", 0, 1, {}),
       Desc("endtime", "time", <<>>, "dateTime", 0, 1, {U("steps")}),
       Desc("fmisid", "int", <<>>, "int", 0, 2, {L("place")}),
       [Desc("hour", "uint", <<1, 2>>, "integerList", 0, 1, {}) EXCEPT !.lower = <<Text(0)>>],
       [Desc("maxdistance", "double", <<>>, "double", 0, 1, {}) EXCEPT !.upper = <<Text(100)>>],
       Desc("place", "string", <<>>, "string", 0, 2, {}),
       Desc("starttime", "time", <<>>, "dateTime", 0, 1, {}),
       Desc("steps", "uint", <<>>, "unsignedByte", 0, 1, {}) >>

Ref(name) == [Item("ref") EXCEPT !.name = L(name)]
Template(items, min, max) == [items |-> items, min |-> min, max |-> max]
Scalar(name, type, required, items) ==
    [name |-> L(name), type |-> type, array |-> FALSE, required |-> required,
     template |-> Template(items, 0, 1), min |-> 0, max |-> 1, step |-> 1]
Array(name, type, items, min, max) ==
    [name |-> L(name), type |-> type, array |-> TRUE, required |-> FALSE,
     template |-> Template(items, min, max), min |-> min, max |-> max, step |-> 1]

\* In the order of names.
Recs ==
    << Scalar("begintime", "time", FALSE, <<Ref("starttime")>>),
       Scalar("boundingbox", "bbox", FALSE, <<Ref("bbox")>>),
       Scalar("endtime", "time", FALSE, <<Ref("endtime")>>),
       Array("fmisids", "int", <<Ref("fmisid")>>, 0, 9),
       Array("hours", "uint", <<Ref("hour")>>, 0, 9),
       Scalar("keyword", "string", FALSE, << [Item("text") EXCEPT !.text = Word(7)] >>),
       Scalar("keyword_overwritable", "bool", FALSE, << [Item("text") EXCEPT !.text = Bool(1)] >>),
       Scalar("maxdistance", "double", TRUE, << [Ref("maxdistance") EXCEPT !.default = <<Text(50)>>] >>),
       Array("places", "string", << [Ref("place") EXCEPT !.redirect = <<L("defaultplaces")>>] >>, 0, 9),
       Scalar("qualityinfo", "bool", FALSE, <<>>),
       Scalar("startstep", "uint", FALSE, <<>>),
       Scalar("timestep", "uint", FALSE, << [Item("text") EXCEPT !.text = Text(30)] >>),
       Scalar("timesteps", "uint", FALSE, <<Ref("steps")>>),
       Scalar("timezone", "string", FALSE, << [Item("text") EXCEPT !.text = Word(3)] >>) >>

Named == << [name |-> U("defaultplaces"), form |-> "array", complete |-> TRUE,
             items |-> <<>>, min |-> 0, max |-> 9] >>

Base ==
    [complete |-> TRUE, formats |-> {}, expires |-> 60, template |-> "t", case_sensitive |-> FALSE,
     parameters |-> Descs, named |-> Named, handler_params |-> Recs]

NoStep == [Base EXCEPT !.handler_params[12].template.items = <<>>]

\* Configurations that are accepted, then ones that are refused.
MCConfigs ==
    {Base, NoStep,
     [NoStep EXCEPT !.parameters[6].min_occurs = 1, !.parameters[6].conflicts = {}],
     [NoStep EXCEPT !.handler_params[7].template.items[1].text = Bool(0)],
     [NoStep EXCEPT !.named[1].items = << [Item("text") EXCEPT !.text = Word(1)] >>],
     [NoStep EXCEPT !.parameters[5].type.type = "string", !.parameters[5].xml_type = "string",
                    !.parameters[5].upper = <<>>],
     [NoStep EXCEPT !.handler_params[12].template.items = << [Item("text") EXCEPT !.text = Text(32)] >>],
     [NoStep EXCEPT !.handler_params[9].template.items[1].redirect = <<L("nowhere")>>],
     [NoStep EXCEPT !.handler_params[8].template.items =
                        << [Ref("nothing") EXCEPT !.weak = TRUE, !.redirect = <<L("defaultplaces")>>] >>],
     [NoStep EXCEPT !.handler_params[9].min = 1, !.handler_params[9].template.min = 0],
     [NoStep EXCEPT !.handler_params[13].template.items = << [Ref("hour") EXCEPT !.ind = <<1>>] >>],
     [NoStep EXCEPT !.handler_params[13].template.items = <<Ref("hour")>>],
     [NoStep EXCEPT !.handler_params[13].template.items = <<Ref("nothing")>>],
     [NoStep EXCEPT !.handler_params[13].template.items = << [Ref("nothing") EXCEPT !.weak = TRUE] >>],
     [NoStep EXCEPT !.handler_params[5].template.min = 3, !.handler_params[5].min = 3],
     [NoStep EXCEPT !.parameters[6].name = U("place"), !.parameters[6].conflicts = {L("bbox")},
                    !.parameters[3].conflicts = {}, !.handler_params[9].template.items[1].name = U("place")],
     [NoStep EXCEPT !.parameters[2].name = U("endtime"), !.handler_params[3].template.items[1].name = U("endtime")],
     [NoStep EXCEPT !.parameters[2].conflicts = {L("nothing")}],
     [NoStep EXCEPT !.parameters[2].conflicts = {L("endtime")}],
     [NoStep EXCEPT !.parameters[8].name = U("hour")],
     [NoStep EXCEPT !.parameters[4].type.dims = <<2, 1>>],
     [NoStep EXCEPT !.parameters[6].upper = <<Text(3)>>],
     [NoStep EXCEPT !.complete = FALSE]}

Give(name, S) == {<<>>} \cup {<< <<L(name), ts>> >> : ts \in S}

Times == Give("starttime", {<<Time(100)>>})
Ends == Give("endtime", {<<Time(50)>>, <<Word(0)>>}) \cup {<< <<U("endtime"), <<Time(2000)>> >> >>}
Steps == Give("steps", {<<Text(0)>>, <<Text(3)>>, <<Text(64)>>})
Hours == Give("hour", {<<Text(5)>>, <<Text(5), Text(2053)>>, <<Text(25)>>, <<Text(1), Text(2), Text(3)>>})
Fmisids == Give("fmisid", {<<Text(1)>>, <<Text(2)>>})
Boxes == Give("bbox", {<<Box(1)>>, <<Word(1)>>})
Distances == Give("maxdistance", {<<Distance(40)>>, <<Distance(5000)>>, <<Text(40)>>, <<Word(5)>>,
                                  <<[types |-> {"string", "double"}, n |-> -5]>>})
Places ==
    Give("place", {<<Word(1)>>, <<Word(9)>>})
    \cup {<< <<L("place"), <<Word(1)>> >>, <<L("place"), <<Word(2)>> >> >>,
          << <<U("place"), <<Word(1)>> >>, <<L("place"), <<Word(1)>> >>, <<L("place"), <<Word(1)>> >> >>}

\* The parameter map of a GET request is ordered by name (upper case first).
MCKvpRequests ==
    LET Upper(ps) == SelectSeq(ps, LAMBDA p : p[1][2] = "Upper")
        Other(ps) == SelectSeq(ps, LAMBDA p : p[1][2] = "lower")
    IN  {Upper(ps) \o Other(ps) :
            ps \in {e \o f \o h \o p \o s \o t : e \in Ends, f \in Fmisids, h \in Hours,
                                                 p \in Places, s \in Steps, t \in Times}
                  \cup {d \o p : d \in Distances, p \in Places}}

MCXmlRequests ==
    {s \o e \o h : e \in Ends, s \in Steps, h \in Hours}
    \cup {p \o d : d \in Distances, p \in Places}
    \cup {f \o p \o f \o b \o t : f \in Fmisids, p \in Places, b \in Boxes, t \in Times}

MCGeo == [stations |-> {1}, ids |-> {1}, names |-> {1, 2},
          keywords |-> [k \in {7} |-> <<11, 12>>]]
MCLocationOptions == {"keywords", "fmisids"}
=============================================================================
