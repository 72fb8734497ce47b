--------------------------- MODULE RequestFactory ---------------------------
(***************************************************************************)
(* From an HTTP request to a request object: RequestFactory, the checks of *)
(* RequestBase, the presentation parameters and the create_from_kvp and    *)
(* create_from_xml of the six requests.                                    *)
(*                                                                         *)
(* A request is a record.  "-" stands for a parameter, attribute, header   *)
(* or namespace that is absent.  Names, formats and result types stand for *)
(* their lower case form: the code compares them in lower case.            *)
(***************************************************************************)
EXTENDS Outcome, FiniteSets

CONSTANTS
    SupportedFormats    \* outputFormats of the capabilities configuration

\* The registrations of the constructor of PluginImpl, in its order: the name
\* and the operation announced in the capabilities ("-" for none).
RequestTypes ==
    << <<"GetCapabilities", "-">>,
       <<"DescribeFeatureType", "supportsDescribeFeatureType">>,
       <<"GetFeature", "supportsGetFeature">>,
       <<"GetPropertyValue", "supportsGetPropertyValue">>,
       <<"ListStoredQueries", "supportsListStoredQueries">>,
       <<"DescribeStoredQueries", "supportsDescribeStoredQueries">> >>

Unimplemented ==
    <<"LockFeature", "GetFeatureWithLock", "CreateStoredQuery",
      "DropStoredQuery", "Transaction">>

NoRequests == [types |-> {}, unimplemented |-> {}, operations |-> {}]

register_request_type(factory, rec) ==
    Checked(<< <<rec[1] \in factory.unimplemented, "none">>,
               <<rec[1] \in factory.types, "none">> >>,
            Ok([factory EXCEPT !.types = @ \cup {rec[1]},
                               !.operations = @ \cup ({rec[2]} \ {"-"})]))

register_unimplemented_request_type(factory, name) ==
    Checked(<< <<name \in factory.types, "none">> >>,
            Ok([factory EXCEPT !.unimplemented = @ \cup {name}]))

\* The chain of registrations in the constructor of PluginImpl.
RegisterRequests ==
    LET reg[n \in 0 .. Len(RequestTypes)] ==
            IF n = 0 THEN Ok(NoRequests)
            ELSE Then(reg[n - 1], LAMBDA f : register_request_type(f, RequestTypes[n]))
        un[n \in 0 .. Len(Unimplemented)] ==
            IF n = 0 THEN reg[Len(RequestTypes)]
            ELSE Then(un[n - 1],
                      LAMBDA f : register_unimplemented_request_type(f, Unimplemented[n]))
    IN  un[Len(Unimplemented)]

Factory == RegisterRequests.val
-----------------------------------------------------------------------------
(* RequestBase *)

\* A document posted as text/xml; anything else is key-value pairs.
IsXml(req) == req.method = "POST" /\ req.ctype = "text/xml"

\* The request of an XML document is the name of its root element, which must
\* be in the WFS name space; SOAP is refused like any other name space.
extract_request_name(req) ==
    IF IsXml(req)
    THEN Checked(<< <<~req.root, "OperationParsingFailed">>,
                    <<req.ns # "wfs", "none">> >>, Ok(req.name))
    ELSE Checked(<< <<req.name = "-", "OperationParsingFailed">> >>, Ok(req.name))

check_request_name(req, name) ==
    Then(extract_request_name(req),
         LAMBDA actual : IF actual = name THEN Ok(req) ELSE NoCode)

check_wfs_version_string(version) == version \in {"2.0.0", "2.0.1"}

\* For KVP the version is tested only when it is given.
check_wfs_version(req) ==
    Checked(<< <<req.version # "-" /\ ~check_wfs_version_string(req.version), "none">> >>,
            Ok(req))

check_mandatory_attributes(req) ==
    Checked(<< <<req.version = "-", "none">>,
               <<~check_wfs_version_string(req.version), "none">>,
               <<req.service = "-", "none">>,
               <<req.service # "WFS", "none">> >>, Ok(req))

\* The spelling without the space after the semicolon is the same format here,
\* but not in set_output_format below.
conv_output_format_str(format) == IF format = "gml32v-nospace" THEN "gml32v" ELSE format

check_output_format_attribute(req) ==
    Checked(<< <<req.format # "-" /\ conv_output_format_str(req.format) \notin SupportedFormats,
                 "OperationParsingFailed">> >>, Ok(req))
-----------------------------------------------------------------------------
(* StandardPresentationParameters *)

MaxCount == 16777215    \* 0x00FFFFFF: no count given

DefaultFormat == "gml32v"    \* application/gml+xml; version=3.2

PresentationFormats == {DefaultFormat, "gml32s", "xml32v", "xml32s"}

DebugFormat == "debug"

set_output_format(spp, format) ==
    Checked(<< <<format \notin PresentationFormats \cup {DebugFormat},
                 "OperationParsingFailed">> >>, Ok([spp EXCEPT !.output_format = format]))

set_result_type(spp, type) ==
    Checked(<< <<type \notin {"results", "hits"}, "OperationParsingFailed">> >>,
            Ok([spp EXCEPT !.hits = (type = "hits")]))

Given(value, default) == IF value = "-" THEN default ELSE value

\* Counts are strings of the request: "-" or a numeral.  In KVP any start index
\* or count makes have_counts true, in XML only a start index other than 0 does.
Numeral == [x \in {"-", "0", "1", "2", "9"} |->
               CASE x = "0" -> 0 [] x = "1" -> 1 [] x = "2" -> 2 [] x = "9" -> 9
                 [] OTHER -> MaxCount]

read_from_kvp(req) ==
    LET spp == [have_counts |-> req.startindex # "-" \/ req.count # "-",
                start_index |-> Numeral[Given(req.startindex, "0")],
                count |-> Numeral[req.count],
                output_format |-> DefaultFormat, hits |-> FALSE]
    IN  Then(set_output_format(spp, Given(req.format, DefaultFormat)),
             LAMBDA s : set_result_type(s, Given(req.resulttype, "results")))

read_from_xml(req) ==
    LET start == Numeral[Given(req.startindex, "0")]
        spp == [have_counts |-> start # 0 \/ req.count # "-",
                start_index |-> start,
                count |-> Numeral[req.count],
                output_format |-> DefaultFormat, hits |-> FALSE]
    IN  Then(set_output_format(spp, Given(req.format, DefaultFormat)),
             LAMBDA s : set_result_type(s, Given(req.resulttype, "results")))
-----------------------------------------------------------------------------
(* The six requests.  What is created is a record with the name of the      *)
(* request; what it asks for is the subject of WfsRequests and GetFeature.  *)

Created(name, what) == [name |-> name, what |-> what]

GetCapabilities_kvp(req) ==
    Then(check_request_name(req, "GetCapabilities"),
         LAMBDA r : Ok(Created("GetCapabilities", r.language)))

GetCapabilities_xml(req) ==
    Then(check_request_name(req, "GetCapabilities"),
         LAMBDA r : Ok(Created("GetCapabilities", "-")))

ListStoredQueries_kvp(req) ==
    Then(check_request_name(req, "ListStoredQueries"), LAMBDA r :
    Then(check_wfs_version(r), LAMBDA s : Ok(Created("ListStoredQueries", <<>>))))

ListStoredQueries_xml(req) ==
    Then(check_request_name(req, "ListStoredQueries"), LAMBDA r :
    Then(check_mandatory_attributes(r), LAMBDA s : Ok(Created("ListStoredQueries", <<>>))))

\* KVP drops the prefix of a type name: the name space is a wild card.
DescribeFeatureType_kvp(req) ==
    Then(check_request_name(req, "DescribeFeatureType"), LAMBDA r :
    Then(check_wfs_version(r), LAMBDA s :
    Then(check_output_format_attribute(s), LAMBDA t :
         Ok(Created("DescribeFeatureType",
                    [i \in DOMAIN t.typenames |-> <<"*", t.typenames[i][2]>>])))))

\* In XML every type name must have a name space that the document declares.
DescribeFeatureType_xml(req) ==
    Then(check_request_name(req, "DescribeFeatureType"), LAMBDA r :
    Then(check_output_format_attribute(r), LAMBDA s :
    Checked(<< <<\E i \in DOMAIN s.typenames : s.typenames[i][1] = "undeclared",
                 "OperationProcessingFailed">> >>,
    Then(check_mandatory_attributes(s), LAMBDA t :
         Ok(Created("DescribeFeatureType", t.typenames))))))

DescribeStoredQueries_kvp(req) ==
    Then(check_request_name(req, "DescribeStoredQueries"), LAMBDA r :
    Then(check_wfs_version(r), LAMBDA s : Ok(Created("DescribeStoredQueries", s.ids))))

DescribeStoredQueries_xml(req) ==
    Then(check_request_name(req, "DescribeStoredQueries"), LAMBDA r :
    Then(check_mandatory_attributes(r), LAMBDA s :
         Ok(Created("DescribeStoredQueries", s.ids))))

\* StoredQuery or AdHocQuery create_from_kvp / _from_xml, which also fail: what
\* becomes of each query is req.queries.
Queries(req, spp, name) ==
    Checked(<< <<req.queries = "fail", "OperationParsingFailed">>,
               <<req.queries = "other" /\ IsXml(req), "none">> >>, Ok(Created(name, spp)))

GetFeature_kvp(req) ==
    Then(check_request_name(req, "GetFeature"), LAMBDA r :
    Then(check_wfs_version(r), LAMBDA s :
    Then(check_output_format_attribute(s), LAMBDA t :
    Then(read_from_kvp(t), LAMBDA spp : Queries(t, spp, "GetFeature")))))

GetFeature_xml(req) ==
    Then(check_request_name(req, "GetFeature"), LAMBDA r :
    Then(check_output_format_attribute(r), LAMBDA s :
    Then(check_mandatory_attributes(s), LAMBDA t :
    Then(read_from_xml(t), LAMBDA spp : Queries(t, spp, "GetFeature")))))

GetPropertyValue_kvp(req) ==
    Then(check_request_name(req, "GetPropertyValue"), LAMBDA r :
    Then(check_wfs_version(r), LAMBDA s :
    Checked(<< <<s.property = "-", "OperationParsingFailed">> >>,
    Then(check_output_format_attribute(s), LAMBDA t :
    Then(read_from_kvp(t), LAMBDA spp : Queries(t, spp, "GetPropertyValue"))))))

GetPropertyValue_xml(req) ==
    Then(check_request_name(req, "GetPropertyValue"), LAMBDA r :
    Then(check_output_format_attribute(r), LAMBDA s :
    Then(check_mandatory_attributes(s), LAMBDA t :
    Then(read_from_xml(t), LAMBDA spp :
    Checked(<< <<t.property = "-", "none">> >>,
            Queries(t, spp, "GetPropertyValue"))))))
-----------------------------------------------------------------------------
(* RequestFactory *)

kvp_parser(name, req) ==
    CASE name = "GetCapabilities" -> GetCapabilities_kvp(req)
      [] name = "DescribeFeatureType" -> DescribeFeatureType_kvp(req)
      [] name = "GetFeature" -> GetFeature_kvp(req)
      [] name = "GetPropertyValue" -> GetPropertyValue_kvp(req)
      [] name = "ListStoredQueries" -> ListStoredQueries_kvp(req)
      [] name = "DescribeStoredQueries" -> DescribeStoredQueries_kvp(req)

xml_parser(name, req) ==
    CASE name = "GetCapabilities" -> GetCapabilities_xml(req)
      [] name = "DescribeFeatureType" -> DescribeFeatureType_xml(req)
      [] name = "GetFeature" -> GetFeature_xml(req)
      [] name = "GetPropertyValue" -> GetPropertyValue_xml(req)
      [] name = "ListStoredQueries" -> ListStoredQueries_xml(req)
      [] name = "DescribeStoredQueries" -> DescribeStoredQueries_xml(req)

\* Unimplemented requests are refused before unknown ones.
get_type_rec(name) ==
    Checked(<< <<name \in Factory.unimplemented, "OperationNotSupported">>,
               <<name \notin Factory.types, "InvalidParameterValue">> >>, Ok(name))

parse_kvp(req) ==
    Checked(<< <<req.service \notin {"-", "WFS"}, "OperationParsingFailed">> >>,
    Then(extract_request_name(req), LAMBDA name :
    Then(get_type_rec(name), LAMBDA type : kvp_parser(type, req))))

parse_xml(req) ==
    Checked(<< <<~req.root, "OperationParsingFailed">> >>,
    Then(extract_request_name(req), LAMBDA name :
    Then(get_type_rec(name), LAMBDA type : xml_parser(type, req))))
=============================================================================
