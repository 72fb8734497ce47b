---------------------------- MODULE MCResponses ----------------------------
(* One handler that takes a box and a period, filters of And and Or to a     *)
(* depth of three, and pages around the ends of two or three responses.      *)
EXTENDS AdHocResponses

L(n) == <<n, "lower">>
Box(n) == [types |-> {"bbox", "string"}, n |-> n]
Time(n) == [types |-> {"time", "string"}, n |-> n]
Desc(name, type, xml, max) ==
    [name |-> L(name), def |-> [type |-> type, array |-> FALSE, min |-> 1, max |-> 1], xml_type |-> xml,
     min_occurs |-> 0, max_occurs |-> max, lower |-> <<>>, upper |-> <<>>, conflicts |-> {}]

Config == [params |-> {Desc("bbox", "bbox", "string", 1), Desc("starttime", "time", "dateTime", 1),
                       Desc("endtime", "time", "dateTime", 1)},
           case_sensitive |-> FALSE, expires |-> 60, template |-> "t"]
NoBox == [Config EXCEPT !.params = {d \in @ : d.name # L("bbox")}]

MCServer ==
    [configs |-> [id \in {1, 2} |-> IF id = 1 THEN Config ELSE NoBox],
     typenames |-> [t \in {"obs", "both"} |-> IF t = "obs" THEN <<1>> ELSE <<1, 2>>],
     process |-> [id \in {1, 2} |-> [given \in BOOLEAN |-> IF id = 1 \/ given THEN Ok(0) ELSE ParsingFailed]]]

El(kind, kids) == [kind |-> kind, kids |-> kids]
Param(name, v) == [kind |-> "param", kids |-> <<>>, name |-> L(name), texts |-> <<v>>]
Cmp(type) == [kind |-> "cmp", kids |-> <<>>,
              cmp |-> [op |-> "=", action |-> "Any", refs |-> << [type |-> type, attribute |-> FALSE] >>,
                       literal |-> "text", matchCase |-> TRUE]]

B1 == Param("bbox", Box(1))
B2 == Param("bbox", Box(2))
S1 == Param("starttime", Time(3))
E1 == El("other", <<Param("endtime", Time(4))>>)
C1 == Cmp("a")
C2 == Cmp("b")

Ors == {El("or", ks) : ks \in {<<B1, B2>>, <<S1, C1>>, <<C1, C2, E1>>, <<E1, El("or", <<S1, C2>>)>>,
                               <<El("or", <<C1, S1>>), E1>>}}
Ands == {El("and", ks) : ks \in {<<B1, S1>>, <<B1, E1, C1>>, <<C1, C2>>}
                                \cup {<<o>> : o \in Ors} \cup {<<C2, o>> : o \in Ors}
                                \cup {<<o, p>> : o, p \in Ors} \cup {<<o, B1, p>> : o, p \in Ors}}
        \cup {El("and", <<El("or", <<B1, B2>>), El("or", <<S1, E1>>), El("or", <<C1, C2>>)>>)}
Nested == {El("and", <<El("or", <<El("and", <<B1, S1>>), C1>>), El("or", <<C2, E1>>)>>),
           El("and", <<>>), El("and", <<B1, El("and", <<>>)>>),
           El("or", <<El("and", <<El("or", <<B1, B2>>), El("or", <<S1, C2>>)>>), C1>>)}
Filters == {<<e>> : e \in Ors \cup Ands \cup Nested \cup {B1, E1, C1, El("not", <<C1>>)}}
           \cup {<<El("or", <<C1, a>>)>> : a \in Ands}

Plain ==
    [request |-> "GetFeature", element |-> "Query", type_names |-> <<"obs">>, resource_id |-> FALSE, has_bbox |-> FALSE,
     bbox |-> Box(7), has_filter |-> FALSE, filter |-> <<>>, filter_language |-> "-", filter_root |-> "fes:Filter",
     properties |-> <<>>, aliases |-> <<>>, language |-> "en", debug |-> FALSE]

MCXmlRequests ==
    {[Plain EXCEPT !.has_filter = TRUE, !.filter = f] : f \in Filters}
    \cup {[Plain EXCEPT !.type_names = <<"both">>], [Plain EXCEPT !.type_names = <<"none">>],
          [Plain EXCEPT !.element = "StoredQuery"],
          [Plain EXCEPT !.has_filter = TRUE, !.filter = <<C1>>, !.aliases = <<"a">>],
          [Plain EXCEPT !.aliases = <<"a", "b">>]}
MCKvpRequests ==
    {Plain, [Plain EXCEPT !.request = "DescribeFeatureType"], [Plain EXCEPT !.type_names = <<>>],
     [Plain EXCEPT !.has_bbox = TRUE], [Plain EXCEPT !.has_bbox = TRUE, !.type_names = <<"both">>],
     [Plain EXCEPT !.resource_id = TRUE], [Plain EXCEPT !.has_filter = TRUE, !.filter = <<B1, C1>>],
     [Plain EXCEPT !.has_filter = TRUE, !.filter_language = "XPath"],
     [Plain EXCEPT !.has_filter = TRUE, !.filter_root = "unparsable"],
     [Plain EXCEPT !.has_filter = TRUE, !.filter_root = "fes:And"]}

Spp(f, s, c, h, have) == [output_format |-> f, start_index |-> s, count |-> c, hits |-> h, have_counts |-> have]
MCPresentations ==
    {Spp("default", s, c, FALSE, TRUE) : s \in {0, 1, 2, 3, 15}, c \in {0, 1, 2, 3, 7}}
    \cup {Spp("default", 0, 6, h, FALSE) : h \in BOOLEAN}
    \cup {Spp(f, 0, 6, h, c) : f \in {"debug", "other"}, h \in BOOLEAN, c \in BOOLEAN}
MCBodies ==
    {[failed |-> FALSE, members |-> m, matched |-> Len(m)] : m \in {<<>>, <<1>>, <<2, 1>>, <<0, 1, 1>>}}
    \cup {[failed |-> FALSE, members |-> <<2, 1>>, matched |-> 5], [failed |-> TRUE, members |-> <<>>, matched |-> 0]}
=============================================================================
