--------------------------- MODULE ParameterFlow ---------------------------
(***************************************************************************)
(* A stored query from its configuration to the parameters its handler     *)
(* works with: the configuration is read and the templates of the handler  *)
(* are initialised once; then requests are read (by KVP or XML), the       *)
(* handler's parameters are filled in, and the options of times, locations, *)
(* box, quality and time zone are read from them.                          *)
(***************************************************************************)
EXTENDS HandlerParams

CONSTANTS
    Configs,        \* configurations: parameters, named parameters, templates
    KvpRequests,    \* parameter lists of GET requests, in the order of names
    XmlRequests,    \* parameter lists of POST requests, in document order
    Geo,            \* what the geographic engine knows
    LocationOptions, \* the options of SupportsLocationParameters
    DefaultCrs,     \* the coordinate system of a box that names none
    Now             \* minutes, the default start time

\* The code names each registered parameter once, in lower case too, and the
\* box, the quality information and the time zone are scalars of these types
\* (SupportsBoundingBox, SupportsQualityParameters, SupportsTimeZone).
ASSUME ConfigsAssumption ==
    \A c \in Configs :
        /\ c.parameters \in Seq(ParamItems)
        /\ c.named \in Seq(NamedParams) /\ c.handler_params \in Seq(ParamRecs)
        /\ \A i, j \in DOMAIN c.handler_params :
              Lower(c.handler_params[i].name) = Lower(c.handler_params[j].name) => i = j
        /\ \A i \in DOMAIN c.handler_params :
              LET rec == c.handler_params[i]
              IN  /\ Lower(rec.name) = P("boundingbox") => rec.type = "bbox" /\ ~rec.array
                  /\ Lower(rec.name) = P("qualityinfo") => rec.type = "bool" /\ ~rec.array
                  /\ Lower(rec.name) = P("timezone") => rec.type = "string" /\ ~rec.array

\* A parameter of a request has at least one text, if only an empty one.
ASSUME RequestsAssumption ==
    KvpRequests \cup XmlRequests \subseteq Seq(ParamNames \X (Seq(SpineValues) \ {<<>>}))

ASSUME NowAssumption == Now \in Int

VARIABLES
    phase,      \* "new", "refused", "ready", "extracted", "rejected", "resolved", "failed", "done"
    config,     \* the configuration in use, as read
    handler,    \* its named parameters and registered parameters
    request,    \* the request in hand: its form and parameters
    outcome,    \* the outcome of the last call
    par,        \* the parameters found: the request's, then the handler's
    options     \* the options read from them and the named parameters
vars == <<phase, config, handler, request, outcome, par, options>>

NoConfig == [params |-> {}, case_sensitive |-> FALSE, expires |-> 0, template |-> "-"]
NoRequest == [form |-> "-", params |-> <<>>]
NoOptions == [time |-> NoCode, locations |-> NoCode, box |-> Ok(<<>>), quality |-> Ok(FALSE),
              zone |-> Ok(<<>>), named |-> NoCode]

\* The registrations of SupportsTimeParameters and SupportsLocationParameters
\* initialise the templates the configuration has for them.
init_template(c, t) ==
    IF t.array THEN ArrayTemplate_init(c, t.template) ELSE ScalarTemplate_init(c, t.template.items)

init_templates(c, templates) ==
    All([i \in DOMAIN templates |-> Then(init_template(c, templates[i]), LAMBDA t : Ok(templates[i]))])

\* The constructor of a handler: the configuration, its named parameters and
\* the templates of the registered parameters.
construct(c) ==
    Then(parse_config(c, c.case_sensitive), LAMBDA read :
    Then(ExtraHandlerParams(read, c.named), LAMBDA named :
    Then(init_templates(read, c.handler_params), LAMBDA templates :
    Then(add_param_rec(templates), LAMBDA recs :
         Ok([config |-> read, extra |-> named, recs |-> recs])))))

Init ==
    /\ phase = "new" /\ config = NoConfig /\ handler = [extra |-> {}, recs |-> <<>>]
    /\ request = NoRequest /\ outcome = Ok(0) /\ par = <<>> /\ options = NoOptions

Configure ==
    /\ phase = "new"
    /\ \E c \in Configs :
        LET r == construct(c)
        IN  /\ outcome' = IF r.ok THEN Ok(0) ELSE r
            /\ phase' = IF r.ok THEN "ready" ELSE "refused"
            /\ config' = IF r.ok THEN r.val.config ELSE config
            /\ handler' = IF r.ok THEN [extra |-> r.val.extra, recs |-> r.val.recs] ELSE handler
    /\ UNCHANGED <<request, par, options>>

\* StoredQuery::extract_kvp_parameters or extract_xml_parameters.
Extract(form, ps, r) ==
    /\ request' = [form |-> form, params |-> ps]
    /\ outcome' = IF r.ok THEN Ok(0) ELSE r
    /\ par' = IF r.ok THEN r.val.map ELSE <<>>
    /\ phase' = IF r.ok THEN "extracted" ELSE "rejected"
    /\ UNCHANGED <<config, handler, options>>

ExtractKvp ==
    /\ phase = "ready"
    /\ \E ps \in KvpRequests : Extract("kvp", ps, extract_kvp_parameters(config, ps))

ExtractXml ==
    /\ phase = "ready"
    /\ \E ps \in XmlRequests : Extract("xml", ps, extract_xml_parameters(config, ps))

\* StoredQueryHandlerBase::process_params adds the id of the query.
process_params(c, map, h) == resolve_handler_parameters(c, map, h.extra, h.recs)

Resolve ==
    /\ phase = "extracted"
    /\ LET r == process_params(config, par, handler)
       IN  /\ outcome' = IF r.ok THEN Ok(0) ELSE r
           /\ par' = IF r.ok THEN r.val ELSE par
           /\ phase' = IF r.ok THEN "resolved" ELSE "failed"
    /\ UNCHANGED <<config, handler, request, options>>

ReadOptions ==
    /\ phase = "resolved"
    /\ options' = [time |-> get_time_generator_options(par, Now),
                   locations |-> get_location_options(par, Geo, LocationOptions),
                   box |-> get_bounding_box(par, DefaultCrs), quality |-> supportQualityInfo(par),
                   zone |-> get_tz_name(par),
                   named |-> dump_named_params(config, par, handler.extra)]
    /\ phase' = "done"
    /\ UNCHANGED <<config, handler, request, outcome, par>>

\* The next request.
Again ==
    /\ phase \in {"rejected", "failed", "done"}
    /\ phase' = "ready" /\ request' = NoRequest /\ outcome' = Ok(0) /\ par' = <<>>
    /\ options' = NoOptions
    /\ UNCHANGED <<config, handler>>

Next == Configure \/ ExtractKvp \/ ExtractXml \/ Resolve \/ ReadOptions \/ Again

Spec == Init /\ [][Next]_vars

-----------------------------------------------------------------------------
(* What a request that is accepted looks like, from the descriptions alone *)

\* The parameters of the request that are values of a description.
Given(ps, d) ==
    {i \in DOMAIN ps : IF config.case_sensitive THEN ps[i][1] = d.name
                       ELSE Lower(ps[i][1]) = Lower(d.name)}

Readable(form, d, texts) ==
    LET r == CASE form = "xml" -> extract_param(d.xml_type, texts)
               [] form # "xml" /\ d.def.array -> readValues(d.def, texts)
               [] form # "xml" /\ ~d.def.array /\ IsDistance(d.name) -> Single(parse_meter(texts[1]))
               [] OTHER -> readValues(d.def, <<texts[1]>>)
    IN  r.ok /\ \A i \in DOMAIN r.val :
                    /\ d.lower # <<>> => r.val[i].n >= d.lower[1].n
                    /\ d.upper # <<>> => r.val[i].n <= d.upper[1].n

Acceptable(form, ps) ==
    \A d \in config.params :
        /\ Cardinality(Given(ps, d)) >= d.min_occurs
        /\ Given(ps, d) # {} => Cardinality(Given(ps, d)) <= d.max_occurs
        /\ \A i \in Given(ps, d) : Readable(form, d, ps[i][2])
        /\ \A e \in config.params :
               Given(ps, d) # {} /\ Given(ps, e) # {} => Lower(e.name) \notin {Lower(c) : c \in d.conflicts}

\* A request spells the names the way the configuration does.
SpelledAsDescribed(ps) ==
    \A d \in config.params : \A i \in Given(ps, d) : ps[i][1] = d.name

\* The configuration spells the names of its parameters in lower case.
DescribedInLowerCase == \A d \in config.params : d.name = Lower(d.name)
-----------------------------------------------------------------------------
(* Properties *)

\* A request that spells its parameters as they are described, in lower case,
\* is accepted exactly when every parameter occurs as often as its description allows,
\* its values can be read and are inside the limits, and no two parameters
\* that exclude each other are given.  A value is read by its type, but the
\* scalar maxdistance of a GET request as a distance (StoredQuery.cpp:410); that
\* of a POST request stays a text until the handler's parameter is filled in
\* (StoredQueryParamRegistry.cpp:51).  The loops over the request with their
\* counts and the set of forbidden names (StoredQuery.cpp:420 and :504)
\* amount to that, whatever the order and on whichever side the
\* configuration declares a conflict.
AcceptedAsDescribed ==
    phase \in {"extracted", "rejected"} /\ DescribedInLowerCase /\ SpelledAsDescribed(request.params) =>
        (phase = "extracted" <=> Acceptable(request.form, request.params))

\* The name of a parameter is not case sensitive: a request is accepted
\* whatever the spelling when it meets the descriptions
\* (docs/Configuring-Stored-Queries.md:356).  It does not hold: the limits on
\* occurrences and conflicts compare names as they are spelled.
SpellingIrrelevant ==
    phase = "extracted" => Acceptable(request.form, request.params)

\* Every parameter a handler gets has the type and number of values it was
\* registered with, so that the get<T> calls of the handlers find what they
\* read: no value that came from a default text, a redirection or an array
\* of the request has another type or number, and the box, the quality
\* information and the time zone can be read.
ResolvedAsRegistered ==
    /\ options.box.ok /\ options.quality.ok /\ options.zone.ok
    /\ phase = "resolved" =>
        \A i \in DOMAIN handler.recs :
            LET rec == handler.recs[i]
                vs == get_values(config, par, rec.name)
            IN  /\ \A j \in DOMAIN vs : rec.type \in vs[j].types
                /\ IF rec.array THEN Len(vs) \in rec.min .. rec.max
                   ELSE Len(vs) <= 1 /\ (rec.required => Len(vs) = 1)

\* Is the end given, or computed from steps that make more than unsigned holds?
EndGiven == Has(par, "endtime")
Wraps(o) == o.timeSteps # <<>> /\ o.timeStep[1] * o.timeSteps[1] >= 2 ^ UIntBits

\* Time options that are accepted select times of the day that exist, and a
\* computed end that the steps lead to, after the start; a start step moves it
\* too (SupportsTimeParameters.cpp:181).  When the steps make 2 ^ UIntBits minutes
\* or more their product has wrapped (:254), and all that is left is that the end
\* is not before the start, which moves by less than that.
TimesMeaningful ==
    options.time.ok =>
        LET o == options.time.val
        IN  /\ \A t \in o.timeList : t \div 100 <= 23 /\ t % 100 <= 59
            /\ o.mode = "FixedTimes" <=> o.timeList # {}
            /\ ~Wraps(o) /\ ~EndGiven =>
                  /\ o.timeSteps # <<>> => o.endTime = o.startTime + o.timeStep[1] * o.timeSteps[1]
                  /\ o.endTime > o.startTime
            /\ Wraps(o) => o.endTime - o.startTime \in 0 .. 2 ^ UIntBits - 1

\* The end is where the steps lead, however many they are
\* (SupportsTimeParameters.cpp:254).  It does not hold: the product of two
\* unsigned numbers wraps, to an end that may be the start itself.
EndFollowsSteps ==
    options.time.ok =>
        LET o == options.time.val
        IN  o.timeSteps # <<>> => o.endTime = o.startTime + o.timeStep[1] * o.timeSteps[1]

=============================================================================
