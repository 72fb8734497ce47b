----------------------------- MODULE PluginImpl -----------------------------
(***************************************************************************)
(* PluginImpl: what its constructor sets up, and the way of one HTTP       *)
(* request through realRequestHandler: query, the response and its         *)
(* headers, the validation of the output, and the error response when any  *)
(* of it throws.                                                           *)
(*                                                                         *)
(* The body of a response is a record: its form, whether it is valid XML,  *)
(* the host, protocol and API key that stand in its URLs.                  *)
(***************************************************************************)
EXTENDS RequestFactory

CONSTANTS
    HttpRequests,   \* the requests a client may send
    Hosts,          \* values of the host headers
    BadHosts,       \* those with characters that host names do not have
    ImplConfigs     \* plugin configurations: the settings given, and the broken ones

VARIABLES
    config,     \* the output settings of the running plugin, and its parts
    req,        \* the HTTP request under way
    stage,      \* where realRequestHandler is with it
    result,     \* RequestResult of query, or the exception in flight
    resp        \* the HTTP response

impl_vars == <<config, req, stage, result, resp>>

Fallback == "localhost"

\* "HOST" stands for the place holder @HOSTNAME@, which has characters that host
\* names do not have: a header that spells it is a bad one.
ASSUME HostsAssumption ==
    /\ BadHosts \subseteq Hosts /\ "HOST" \in BadHosts /\ Fallback \notin BadHosts
    /\ \A r \in HttpRequests : {r.host, r.forwarded} \subseteq Hosts \cup {"-"}

NoResponse ==
    [form |-> "none", valid |-> TRUE, host |-> Fallback, protocol |-> "http", apikey |-> FALSE,
     status |-> 0, cached |-> FALSE, error |-> "none", type |-> "none"]
-----------------------------------------------------------------------------
(* The constructor.  A configuration says which settings it has and what    *)
(* each external part does with them; the object built is a set of parts.   *)

TemplateParams ==
    {"getCapabilitiesTemplate", "listStoredQueriesTemplate", "describeStoredQueriesTemplate",
     "featureTypeTemplate", "exceptionTemplate", "ctppDumpTemplate"}

create_template_formatters(cfg, impl) ==
    Checked(<< <<~(TemplateParams \subseteq cfg.params), "none">> >>,
            Ok(impl \cup {"formatters"}))

create_xml_parser(cfg, impl) ==
    Checked(<< <<"grammarPool" \in cfg.broken, "none">>,
               <<"serializedXmlSchemas" \in cfg.params \cap cfg.broken, "none">> >>,
            Ok(impl \cup {"xml_parser"}
                    \cup (IF "validateXmlOutput" \in cfg.params THEN {"schema_download"} ELSE {})))

init_geo_server_access(cfg, impl) ==
    Checked(<< <<"geoserver" \in cfg.params \cap cfg.broken, "none">> >>,
            Ok(impl \cup (IF "geoserver" \in cfg.params THEN {"geo_server_db"} ELSE {})))

create_typename_stored_query_map(cfg, impl) ==
    Checked(<< <<"typenames" \in cfg.broken, "none">> >>, Ok(impl \cup {"typename_map"}))

create_stored_query_map(cfg, impl) ==
    Checked(<< <<"storedQueries" \in cfg.broken, "none">> >>, Ok(impl \cup {"stored_query_map"}))

\* Features are registered before the stored query map, whose handlers look
\* them up; a feature given twice is refused by WfsCapabilities.
Construct(cfg) ==
    Checked(<< <<"config" \in cfg.broken, "none">>, <<~RegisterRequests.ok, "none">> >>,
    Then(create_template_formatters(cfg, {"request_factory"}), LAMBDA i1 :
    Then(create_xml_parser(cfg, i1), LAMBDA i2 :
    Then(init_geo_server_access(cfg, i2), LAMBDA i3 :
    Checked(<< <<"features" \in cfg.broken, "none">> >>,
    Then(create_typename_stored_query_map(cfg, i3 \cup {"features"}), LAMBDA i4 :
    Then(create_stored_query_map(cfg, i4), LAMBDA i5 :
    Checked(<< <<"lockedTimeStamp" \in cfg.params \cap cfg.broken, "none">> >>, Ok(i5)))))))))
-----------------------------------------------------------------------------
(* Parsing the request *)

\* Parser::parse_input turns XmlError into Fmi::Exception, so that the handler
\* below for XmlError is never entered.
parse_input(r) ==
    IF r.body = "invalid" THEN NoCode ELSE Ok(r)

throw_xml_request_error(r) ==
    IF r.root /\ r.ns = "wfs" /\ r.name \in Factory.types \cup Factory.unimplemented
    THEN Checked(<< <<r.service = "-", "MissingParameterValue">>,
                    <<r.service # "WFS", "InvalidParameterValue">>,
                    <<r.version = "-", "MissingParameterValue">>,
                    <<r.version # "2.0.0", "InvalidParameterValue">> >>,
                 Fail("OperationParsingFailed"))
    ELSE Fail("OperationParsingFailed")

parse_xml_request(r) ==
    LET parsed == parse_input(r)
    IN  CASE r.body = "empty" -> Fail("OperationParsingFailed")
          [] r.body # "empty" /\ ~parsed.ok /\ parsed.kind = "Xml" -> throw_xml_request_error(r)
          [] OTHER -> parsed

query_post(r) ==
    CASE r.ctype = "-" -> Fail("OperationParsingFailed")    \* get_mandatory_header
      [] r.ctype = "urlencoded" -> parse_kvp(r)
      [] r.ctype = "text/xml" -> Then(parse_xml_request(r), LAMBDA doc : parse_xml(doc))
      [] OTHER -> Fail("OperationParsingFailed")

\* The request object that query executes.
query(r) ==
    CASE r.method = "GET" -> parse_kvp(r)
      [] r.method = "POST" -> query_post(r)
      [] OTHER -> Fail("OperationParsingFailed")

\* X-Forwarded-Host, else Host, else the configured name.
RequestHost(r) ==
    IF r.forwarded # "-" THEN r.forwarded ELSE IF r.host # "-" THEN r.host ELSE Fallback

\* Mutant: the headers are trusted.
execute_request_trusting(r, body) ==
    [body EXCEPT !.host = RequestHost(r), !.protocol = "http", !.apikey = r.apikey = "good"]

\* What execute_request puts into the request object: only characters of host
\* names, known protocols and API keys that may be returned reach the output.
execute_request(r, body) ==
    [body EXCEPT
        !.host = IF RequestHost(r) \in BadHosts THEN Fallback ELSE RequestHost(r),
        !.protocol = IF r.protocol \in {"http", "https"} THEN r.protocol ELSE "http",
        !.apikey = r.apikey = "good"]

\* RequestBase::substitute_all: the place holders of the body, which may come
\* from the response cache, are replaced while it is written.
substitute_all(target, body) ==
    [body EXCEPT !.host = IF @ = "HOST" THEN target.host ELSE @,
                 !.protocol = IF @ = "PROTOCOL" THEN target.protocol ELSE @,
                 !.apikey = target.apikey]
-----------------------------------------------------------------------------
(* realRequestHandler, step by step *)

ImplInit ==
    /\ config = [validate |-> FALSE, failOnErrors |-> FALSE, parts |-> {}]
    /\ req = [name |-> "-"]
    /\ stage = "new"
    /\ result = Ok("none")
    /\ resp = NoResponse

NewPluginImpl(cfg) ==
    /\ stage = "new"
    /\ IF Construct(cfg).ok
       THEN /\ config' = [validate |-> "validateXmlOutput" \in cfg.params,
                          failOnErrors |-> "failOnValidateErrors" \in cfg.params,
                          parts |-> Construct(cfg).val]
            /\ stage' = "idle"
       ELSE stage' = "refused" /\ UNCHANGED config
    /\ UNCHANGED <<req, result, resp>>

\* A request arrives and is parsed.
Query(r) ==
    /\ stage = "idle"
    /\ req' = r
    /\ result' = query(r)
    /\ stage' = IF query(r).ok THEN "execute" ELSE "error"
    /\ UNCHANGED <<config, resp>>

\* What executing a request may yield, with the place holders that cached output has.
Execution ==
    [form : {"xml", "html", "empty"}, valid : BOOLEAN, host : {"HOST"}, protocol : {"PROTOCOL"},
     apikey : {FALSE}, status : {0, 400}]

\* What the engines and handlers may throw; boost::thread_interrupted is what a
\* wait of an engine throws in a thread that was told to stop.
Exceptions ==
    {Fail("OperationProcessingFailed"), NoCode, Throw("std", "none"), Throw("other", "none"),
     Throw("Interrupted", "none")}

\* The catch of query: Fmi::Exception::Trace wraps what is no Fmi::Exception into
\* one, and lets an interruption pass.
Traced(exc) == IF exc.kind \in {"Fmi", "Interrupted"} THEN exc ELSE NoCode

\* RequestBase::execute writes the output, and may set a status.
Executed(out) ==
    /\ stage = "execute"
    /\ result' = Ok(result.val.name)
    /\ LET body == substitute_all(execute_request(req, out), out)
           status == IF out.status = 0 THEN 200 ELSE out.status
       IN  resp' = [resp EXCEPT !.form = body.form, !.valid = body.valid, !.host = body.host,
                                !.protocol = body.protocol, !.apikey = body.apikey,
                                !.status = status,
                                !.type = IF body.form = "html" THEN "html" ELSE "xml"]
    /\ stage' = "answer"
    /\ UNCHANGED <<config, req>>

ExecuteThrows(exc) ==
    /\ stage = "execute"
    /\ result' = Traced(exc)
    /\ stage' = "error"
    /\ UNCHANGED <<config, req, resp>>

\* Mutant: every answer may be cached.
Answer_caching ==
    /\ stage = "answer"
    /\ resp' = [resp EXCEPT !.cached = TRUE]
    /\ stage' = "validate"
    /\ UNCHANGED <<config, req, result>>

\* The headers: an empty answer is refused, only 200 may be cached.
Answer ==
    /\ stage = "answer"
    /\ IF resp.form = "empty"
       THEN /\ result' = Fail("OperationProcessingFailed")
            /\ stage' = "error"
            /\ UNCHANGED resp
       ELSE /\ resp' = [resp EXCEPT !.cached = (@ \/ resp.status = 200)]
            /\ stage' = "validate"
            /\ UNCHANGED result
    /\ UNCHANGED <<config, req>>

\* Mutant: the setting is not read.
maybe_validate_output_always(response) == response.form = "xml" /\ ~response.valid

\* Whether maybe_validate_output throws: HTML and plain text are not parsed.
maybe_validate_output(response) ==
    /\ config.validate
    /\ response.form = "xml"
    /\ ~response.valid

Validate ==
    /\ stage = "validate"
    /\ IF /\ result.val # "DescribeFeatureType"     \* may_validate_xml
          /\ maybe_validate_output(resp)
          /\ config.failOnErrors
       THEN result' = Fail("OperationProcessingFailed") /\ stage' = "error"
       ELSE UNCHANGED result /\ stage' = "sent"
    /\ UNCHANGED <<config, req, resp>>

\* Mutant: no code for an exception without one.
create_error_response_bare(exc) ==
    [status |-> IF exc.kind = "other" THEN 500 ELSE 400, code |-> exc.code]

\* ErrorResponseGenerator: status and code by the kind of the exception; it is not
\* asked about interruptions, which it throws again.
create_error_response(exc) ==
    CASE exc.kind = "Fmi" /\ exc.code # "none" -> [status |-> 400, code |-> exc.code]
      [] exc.kind = "Fmi" /\ exc.code = "none" -> [status |-> 400, code |-> "InvalidExceptionCode"]
      [] exc.kind = "std" -> [status |-> 400, code |-> "OperationProcessingFailed"]
      [] OTHER -> [status |-> 500, code |-> "OperationProcessingFailed"]

\* The catch of realRequestHandler.  Headers set before the exception stay.
\* The report may itself be invalid, or plain text when its template fails.
ErrorResponse(form, valid) ==
    /\ stage = "error" /\ result.kind # "Interrupted"
    /\ LET err == create_error_response(result)
       IN  resp' = [resp EXCEPT !.form = form, !.valid = valid, !.status = err.status,
                                !.error = err.code, !.type = "xml"]
    /\ stage' = "validateError"
    /\ UNCHANGED <<config, req, result>>

\* create_error_response throws an interruption again, before the catch block has
\* touched the response, and realRequestHandler passes it on.
Interrupted ==
    /\ stage = "error" /\ result.kind = "Interrupted"
    /\ stage' = "thrown"
    /\ UNCHANGED <<config, req, result, resp>>

\* The error report is validated as well, whatever failOnErrors says; what this
\* throws leaves realRequestHandler.
ValidateError ==
    /\ stage = "validateError"
    /\ stage' = IF maybe_validate_output(resp) THEN "thrown" ELSE "sent"
    /\ UNCHANGED <<config, req, result, resp>>

Done ==
    /\ stage \in {"sent", "thrown", "refused"}
    /\ UNCHANGED impl_vars

ImplNext ==
    \/ \E cfg \in ImplConfigs : NewPluginImpl(cfg)
    \/ \E r \in HttpRequests : Query(r)
    \/ \E out \in Execution : Executed(out)
    \/ \E exc \in Exceptions : ExecuteThrows(exc)
    \/ Answer
    \/ Validate
    \/ \E form \in {"xml", "text"}, valid \in BOOLEAN : ErrorResponse(form, valid)
    \/ Interrupted
    \/ ValidateError
    \/ Done

ImplSpec == ImplInit /\ [][ImplNext]_impl_vars
-----------------------------------------------------------------------------
(* Properties *)

Stages ==
    {"new", "refused", "idle", "execute", "error", "answer", "validate", "validateError",
     "sent", "thrown"}

\* Types of the state of realRequestHandler.
ImplTypeOK ==
    /\ stage \in Stages
    /\ config.validate \in BOOLEAN /\ config.failOnErrors \in BOOLEAN
    /\ req \in HttpRequests \cup {[name |-> "-"]}
    /\ DOMAIN resp = DOMAIN NoResponse
    /\ resp.form \in {"none", "xml", "html", "empty", "text"} /\ resp.valid \in BOOLEAN
    /\ resp.host \in Hosts \cup {Fallback, "-"} /\ resp.protocol \in {"http", "https"}
    /\ resp.apikey \in BOOLEAN /\ resp.cached \in BOOLEAN
    /\ resp.status \in {0, 200, 400, 500} /\ resp.type \in {"none", "xml", "html"}

\* An answer is either the output of the request or an error report with a code
\* and an error status: an exception never goes out as 200, and an output is
\* never marked as an error (realRequestHandler, ErrorResponseGenerator).
AnswerOrError ==
    stage = "sent" =>
        /\ (resp.error # "none") = (~result.ok)
        /\ resp.status = 200 => result.ok

\* Cache headers go out with an error only when the output was found invalid
\* after they were set: realRequestHandler sets them before it validates, and
\* the error response does not take them back.
CacheHeaders ==
    stage = "sent" /\ resp.cached /\ resp.status # 200
        => config.validate /\ config.failOnErrors /\ ~result.ok

\* Host, protocol and API key of an answer come from the request only when they
\* are well formed, and no place holder is left (execute_request, substitute_all).
HostsClean ==
    stage \in {"answer", "validate", "sent"} /\ result.ok
        => /\ resp.host \notin BadHosts /\ resp.host # "HOST"
           /\ resp.protocol \in {"http", "https"}
           /\ resp.apikey => req.apikey = "good"

\* A request is left unanswered in two cases only, and never after an answer was
\* made: its thread was interrupted, and then no error was reported to the client;
\* or its error report was itself found invalid, in a plugin that validates its
\* output.  What does go out is no interruption and no report found invalid
\* (realRequestHandler, create_error_response, maybe_validate_output).
ThrowsUnlessReported ==
    /\ stage = "thrown" =>
         /\ ~result.ok
         /\ \/ result.kind = "Interrupted" /\ resp.error = "none"
            \/ /\ result.kind # "Interrupted" /\ resp.error # "none"
               /\ config.validate /\ resp.form = "xml" /\ ~resp.valid
    /\ stage = "sent" /\ ~result.ok =>
         /\ result.kind # "Interrupted"
         /\ config.validate => resp.form # "xml" \/ resp.valid
=============================================================================
