----------------------------- MODULE GetFeature -----------------------------
(***************************************************************************)
(* GetFeature and GetPropertyValue requests: how their stored queries are  *)
(* created (libwfs/StoredQuery.cpp), looked up in the response cache and   *)
(* executed (libwfs/request/GetFeature.cpp, GetPropertyValue.cpp).         *)
(*                                                                         *)
(* Every server thread runs one request at a time.  The threads share the  *)
(* PluginImpl: its query_cache, its stored query map and its data_source   *)
(* member.  Meanwhile configuration files change the handlers and new      *)
(* model runs arrive at the data engines.  Every step reads or writes one  *)
(* shared object once.                                                     *)
(*                                                                         *)
(* An id stands for a stored query id together with the parameters and the *)
(* language of the query, all of which are in the cache key.               *)
(***************************************************************************)
EXTENDS Naturals, Sequences, FiniteSets

CONSTANTS
    Threads,     \* server threads
    Ids,         \* stored queries
    Sources,     \* values of the source parameter: data backends
    Hosts,       \* host names the requests are addressed to
    Redirects,   \* id -> where its handler may redirect; {}: it never does
    Qualified,   \* ids whose handler overrides get_cache_key_qualifier
    HostBound,   \* ids whose handler writes host specific links (atom queries)
    Asks,        \* what a request may ask: its kind and a sequence of ids
    Edited,      \* ids whose configuration files are edited
    CacheSize,   \* cacheSize
    MaxRequests, MaxEdits, MaxData,  \* bounds on requests, edits and model runs
    NoId,        \* the empty string as a redirect target
    NoResponse, ErrorResponse

Kinds == {"GetFeature", "GetPropertyValue"}

ASSUME SetsAssumption ==
    /\ Sources # {} /\ Hosts # {}
    /\ Qualified \subseteq Ids /\ HostBound \subseteq Ids /\ Edited \subseteq Ids
    /\ NoId \notin Ids
    /\ Asks \subseteq [kind : Kinds, asked : Seq(Ids)]
ASSUME RedirectsAssumption == Redirects \in [Ids -> SUBSET (Ids \cup {NoId})]
ASSUME BoundsAssumption ==
    CacheSize \in Nat /\ MaxRequests \in Nat /\ MaxEdits \in Nat /\ MaxData \in Nat

\* A response: the query answered, the revision of the configuration of the
\* handler that wrote it, and the data, the backend and the host it is about.
Responses == [id : Ids, rev : Nat, source : Sources, data : Nat, host : Hosts]

\* What StoredQuery::cache_key tells apart.  qual is 0 when the handler adds
\* no qualifier, and else the origin time of the newest model run.
Keys == [id : Ids, source : Sources, qual : Nat]

ASSUME ResponseAssumption ==
    /\ NoResponse \notin Responses /\ ErrorResponse \notin Responses \cup Ids
    /\ NoResponse # ErrorResponse

VARIABLES
    data_source,      \* PluginImpl::data_source
    handlers,         \* external: id -> revision of its configuration, 0: not served
    edits,            \* number of configuration changes
    data,             \* external: source -> newest model run
    query_cache,      \* set of the cached [key, response] pairs
    requests,         \* number of requests started
    pc,
    req,              \* what was asked, and (history) the data and the
                      \* configurations there were at that time
    query_id, redirect_id_set, handler, key_source,
                      \* the locals of StoredQuery::create_from_kvp/_from_xml
    queries,          \* the queries created so far, with their responses
    pos,              \* the query that is looked up or executed
    result            \* the response computed but not yet cached

world == <<handlers, edits, data>>
create == <<query_id, redirect_id_set, handler, key_source>>
vars == <<data_source, world, query_cache, requests, pc, req, create, queries,
          pos, result>>

Queries == [id : Ids, rev : Nat, key : Keys, response : Responses \cup {NoResponse, ErrorResponse}]

-----------------------------------------------------------------------------
\* query_cache.find: the response stored under the key.
find(key) == {e.response : e \in {x \in query_cache : x.key = key}}

\* external: Fmi::Cache::insert.  An entry with the same key is either kept
\* or replaced; a full cache evicts some other entry.
insert(key, response) ==
    LET same == {e \in query_cache : e.key = key}
        new == [key |-> key, response |-> response]
    IN  IF same # {}
        THEN {query_cache, (query_cache \ same) \cup {new}}
        ELSE IF CacheSize = 0 THEN {query_cache}
        ELSE IF Cardinality(query_cache) < CacheSize THEN {query_cache \cup {new}}
        ELSE {(query_cache \ {e}) \cup {new} : e \in query_cache}

\* Mutant: the qualifier is read but left out of the key.
get_cache_key_qualifier_dropped(id) == 0

\* get_cache_key_qualifier, asked of the backend data_source names now.
get_cache_key_qualifier(id) == IF id \in Qualified THEN data[data_source] ELSE 0

\* Mutant: the key is made of the source only.
cache_key_source(id, source, qual) ==
    [id |-> CHOOSE i \in Ids : TRUE, source |-> source, qual |-> 0]

cache_key(id, source, qual) == [id |-> id, source |-> source, qual |-> qual]

\* Mutant: any named query may be redirected to.
RedirectValid_revisit(t, to) == to # NoId

\* redirect_id_set.insert(to).second and (!to.empty())
RedirectValid(t, to) == to \notin redirect_id_set[t] /\ to # NoId

\* collect_query_responses is called with handle_errors: only by GetFeature
\* for several queries.
HandleErrors(t) == req[t].kind = "GetFeature" /\ Len(queries[t]) > 1

\* The result of handler->query for the query at pos, run now.
Answer(t) ==
    LET q == queries[t][pos[t]]
    IN  [id |-> q.id, rev |-> q.rev, source |-> data_source,
         data |-> data[data_source], host |-> req[t].host]

\* Mutant: only the last query counts.
some_succeeded_last(t) ==
    queries[t] # <<>> => queries[t][Len(queries[t])].response # ErrorResponse

some_succeeded(t) == \E i \in 1..Len(queries[t]) : queries[t][i].response # ErrorResponse

-----------------------------------------------------------------------------
Init ==
    /\ data_source \in Sources
    /\ handlers = [i \in Ids |-> 1] /\ edits = 0
    /\ data = [s \in Sources |-> 1]
    /\ query_cache = {}
    /\ requests = 0
    /\ pc = [t \in Threads |-> "idle"]
    /\ req = [t \in Threads |-> [kind |-> "GetFeature", source |-> data_source,
                 host |-> CHOOSE h \in Hosts : TRUE, asked |-> <<>>, data |-> data,
                 handlers |-> handlers]]
    /\ query_id = [t \in Threads |-> NoId]
    /\ redirect_id_set = [t \in Threads |-> {}]
    /\ handler = [t \in Threads |-> 0]
    /\ key_source = [t \in Threads |-> data_source]
    /\ queries = [t \in Threads |-> <<>>]
    /\ pos = [t \in Threads |-> 1]
    /\ result = [t \in Threads |-> NoResponse]

\* Plugin::realRequestHandler: the source of this request becomes the source
\* of the PluginImpl, whoever else is using it.
realRequestHandler(t) ==
    /\ pc[t] \in {"idle", "ok", "bad_request", "error"} /\ requests < MaxRequests
    /\ \E ask \in Asks, source \in Sources, host \in Hosts :
        /\ data_source' = source
        /\ req' = [req EXCEPT ![t] = [kind |-> ask.kind, source |-> source, host |-> host,
                        asked |-> ask.asked, data |-> data, handlers |-> handlers]]
    /\ requests' = requests + 1
    /\ queries' = [queries EXCEPT ![t] = <<>>]
    /\ pos' = [pos EXCEPT ![t] = 1]
    /\ pc' = [pc EXCEPT ![t] = "next"]
    /\ UNCHANGED <<world, query_cache, create, result>>

\* An exception ends the request and its locals: PluginImpl catches it in
\* realRequestHandler and writes an error response.
Throw(t) ==
    /\ pc' = [pc EXCEPT ![t] = "error"]
    /\ query_id' = [query_id EXCEPT ![t] = NoId]
    /\ redirect_id_set' = [redirect_id_set EXCEPT ![t] = {}]
    /\ handler' = [handler EXCEPT ![t] = 0]
    /\ queries' = [queries EXCEPT ![t] = <<>>]
    /\ pos' = [pos EXCEPT ![t] = 1]
    /\ UNCHANGED <<data_source, world, query_cache, requests, req, key_source, result>>

\* The loop over the stored queries of the request, and its end.
NextQuery(t) ==
    /\ pc[t] = "next"
    /\ LET n == Len(queries[t]) IN
       \/ /\ n < Len(req[t].asked)
          /\ query_id' = [query_id EXCEPT ![t] = req[t].asked[n + 1]]
          /\ redirect_id_set' = [redirect_id_set EXCEPT ![t] = {req[t].asked[n + 1]}]
          /\ pc' = [pc EXCEPT ![t] = "lookup"]
       \/ /\ n = Len(req[t].asked)
          /\ pc' = [pc EXCEPT ![t] = "find"]
          /\ UNCHANGED <<query_id, redirect_id_set>>
    /\ UNCHANGED <<data_source, world, query_cache, requests, req, handler, key_source,
                   queries, pos, result>>

\* get_handler_by_name: the shared pointer keeps the handler found alive.
get_handler_by_name(t) ==
    /\ pc[t] = "lookup"
    /\ \/ handlers[query_id[t]] = 0 /\ Throw(t)
       \/ /\ handlers[query_id[t]] # 0
          /\ handler' = [handler EXCEPT ![t] = handlers[query_id[t]]]
          /\ pc' = [pc EXCEPT ![t] = "params"]
          /\ UNCHANGED <<data_source, world, query_cache, requests, req, query_id,
                         redirect_id_set, key_source, queries, pos, result>>

\* extract_kvp_parameters, extract_xml_parameters or process_params throws.
ParamsRefused(t) == pc[t] = "params" /\ Throw(t)

\* The parameters are good and handler->redirect sends the query elsewhere.
redirect(t) ==
    /\ pc[t] = "params"
    /\ \E to \in Redirects[query_id[t]] :
        \/ ~RedirectValid(t, to) /\ Throw(t)
        \/ /\ RedirectValid(t, to)
           /\ query_id' = [query_id EXCEPT ![t] = to]
           /\ redirect_id_set' = [redirect_id_set EXCEPT ![t] = @ \cup {to}]
           /\ pc' = [pc EXCEPT ![t] = "lookup"]
           /\ UNCHANGED <<data_source, world, query_cache, requests, req, handler,
                          key_source, queries, pos, result>>

\* The parameters are good, there is no redirect: the key starts with the
\* data source of this moment.
KeySource(t) ==
    /\ pc[t] = "params" /\ Redirects[query_id[t]] = {}
    /\ key_source' = [key_source EXCEPT ![t] = data_source]
    /\ pc' = [pc EXCEPT ![t] = "qualify"]
    /\ UNCHANGED <<data_source, world, query_cache, requests, req, query_id,
                   redirect_id_set, handler, queries, pos, result>>

\* The handler adds its qualifier, the query is complete and the locals of
\* its creation are gone.
Qualify(t) ==
    /\ pc[t] = "qualify"
    /\ queries' = [queries EXCEPT ![t] = Append(@,
            [id |-> query_id[t], rev |-> handler[t],
             key |-> cache_key(query_id[t], key_source[t], get_cache_key_qualifier(query_id[t])),
             response |-> NoResponse])]
    /\ pc' = [pc EXCEPT ![t] = "next"]
    /\ query_id' = [query_id EXCEPT ![t] = NoId]
    /\ redirect_id_set' = [redirect_id_set EXCEPT ![t] = {}]
    /\ handler' = [handler EXCEPT ![t] = 0]
    /\ UNCHANGED <<data_source, world, query_cache, requests, req, key_source, pos, result>>

\* One round of get_cached_responses, or its end.
get_cached_responses(t) ==
    /\ pc[t] = "find"
    /\ \/ /\ pos[t] <= Len(queries[t])
          /\ LET found == find(queries[t][pos[t]].key) IN
             \/ found = {} /\ UNCHANGED queries
             \/ \E r \in found : queries' = [queries EXCEPT ![t][pos[t]].response = r]
          /\ pos' = [pos EXCEPT ![t] = @ + 1]
          /\ UNCHANGED pc
       \/ /\ pos[t] > Len(queries[t])
          /\ pos' = [pos EXCEPT ![t] = 1]
          /\ pc' = [pc EXCEPT ![t] = "collect"]
          /\ UNCHANGED queries
    /\ UNCHANGED <<data_source, world, query_cache, requests, req, create, result>>

\* Nothing is executed for an output format the request does not support:
\* assert_use_default_format for several queries, the check for the debug
\* format at the start of GetPropertyValue::execute.
FormatRefused(t) ==
    /\ pc[t] = "collect" /\ pos[t] = 1
    /\ req[t].kind = "GetPropertyValue" \/ Len(queries[t]) > 1
    /\ Throw(t)

\* collect_query_responses: a cached response is taken as it is.
TakeCached(t) ==
    /\ pc[t] = "collect" /\ pos[t] <= Len(queries[t])
    /\ queries[t][pos[t]].response # NoResponse
    /\ pos' = [pos EXCEPT ![t] = @ + 1]
    /\ UNCHANGED <<data_source, world, query_cache, requests, pc, req, create, queries, result>>

\* collect_query_responses: query_ptr->execute writes a response.
Execute(t) ==
    /\ pc[t] = "collect" /\ pos[t] <= Len(queries[t])
    /\ queries[t][pos[t]].response = NoResponse
    /\ result' = [result EXCEPT ![t] = Answer(t)]
    /\ pc' = [pc EXCEPT ![t] = "insert"]
    /\ UNCHANGED <<data_source, world, query_cache, requests, req, create, queries, pos>>

\* collect_query_responses: query_ptr->execute throws.
ExecuteThrows(t) ==
    /\ pc[t] = "collect" /\ pos[t] <= Len(queries[t])
    /\ queries[t][pos[t]].response = NoResponse
    /\ \/ ~HandleErrors(t) /\ Throw(t)
       \/ /\ HandleErrors(t)
          /\ queries' = [queries EXCEPT ![t][pos[t]].response = ErrorResponse]
          /\ pos' = [pos EXCEPT ![t] = @ + 1]
          /\ UNCHANGED <<data_source, world, query_cache, requests, pc, req, create, result>>

\* query_cache.insert, under the key made when the query was created.
Insert(t) ==
    /\ pc[t] = "insert"
    /\ query_cache' \in insert(queries[t][pos[t]].key, result[t])
    /\ queries' = [queries EXCEPT ![t][pos[t]].response = result[t]]
    /\ pos' = [pos EXCEPT ![t] = @ + 1]
    /\ pc' = [pc EXCEPT ![t] = "collect"]
    /\ result' = [result EXCEPT ![t] = NoResponse]
    /\ UNCHANGED <<data_source, world, requests, req, create>>

\* All responses are there and are merged, which throws when one of them is
\* not well-formed or cannot be paged.  A GetFeature without queries writes
\* nothing, which is an error.
execute(t) ==
    /\ pc[t] = "collect" /\ pos[t] > Len(queries[t])
    /\ \/ Throw(t)
       \/ /\ queries[t] # <<>> \/ req[t].kind = "GetPropertyValue"
          /\ pc' = [pc EXCEPT ![t] = IF queries[t] = <<>> \/ some_succeeded(t)
                                      THEN "ok" ELSE "bad_request"]
          /\ UNCHANGED <<data_source, world, query_cache, requests, req, create, queries,
                         pos, result>>

\* external: a configuration file of i changes, or goes away.
Modify(i) ==
    /\ edits < MaxEdits
    /\ edits' = edits + 1
    /\ \E rev \in {0, edits + 2} : handlers' = [handlers EXCEPT ![i] = rev]
    /\ UNCHANGED <<data_source, data, query_cache, requests, pc, req, create, queries,
                   pos, result>>

\* external: a backend loads a new model run.
NewData(s) ==
    /\ data[s] < MaxData
    /\ data' = [data EXCEPT ![s] = @ + 1]
    /\ UNCHANGED <<data_source, handlers, edits, query_cache, requests, pc, req, create,
                   queries, pos, result>>

Step(t) ==
    \/ NextQuery(t) \/ get_handler_by_name(t) \/ ParamsRefused(t) \/ redirect(t)
    \/ KeySource(t) \/ Qualify(t) \/ get_cached_responses(t)
    \/ FormatRefused(t) \/ TakeCached(t) \/ Execute(t) \/ ExecuteThrows(t)
    \/ Insert(t) \/ execute(t)

Next ==
    \/ \E t \in Threads : realRequestHandler(t) \/ Step(t)
    \/ \E i \in Edited : Modify(i)
    \/ \E s \in Sources : NewData(s)

Spec == Init /\ [][Next]_vars

\* A server thread keeps running until its request is answered.
FairSpec == Spec /\ \A t \in Threads : WF_vars(Step(t))

-----------------------------------------------------------------------------
Requests == [kind : Kinds, source : Sources, host : Hosts, asked : Seq(Ids),
             data : [Sources -> Nat], handlers : [Ids -> Nat]]

Answered == {"ok", "bad_request"}

Finished == Answered \cup {"error"}

Locations == Finished \cup
    {"idle", "next", "lookup", "params", "qualify", "find", "collect", "insert"}

\* The values of the shared objects and of the locals of every request.
TypeOK ==
    /\ data_source \in Sources
    /\ handlers \in [Ids -> Nat] /\ edits \in Nat /\ data \in [Sources -> Nat]
    /\ query_cache \subseteq [key : Keys, response : Responses]
    /\ requests \in Nat
    /\ pc \in [Threads -> Locations]
    /\ req \in [Threads -> Requests]
    /\ query_id \in [Threads -> Ids \cup {NoId}]
    /\ redirect_id_set \in [Threads -> SUBSET Ids]
    /\ handler \in [Threads -> Nat]
    /\ key_source \in [Threads -> Sources]
    /\ queries \in [Threads -> Seq(Queries)]
    /\ pos \in [Threads -> Nat \ {0}]
    /\ result \in [Threads -> Responses \cup {NoResponse}]

\* A handler of a may, over some number of redirects, lead to b.
Leads(a, b) ==
    \A S \in SUBSET Ids :
        (a \in S /\ \A i \in S : Redirects[i] \cap Ids \subseteq S) => b \in S

\* Every request that is answered has, in the order asked, one answer for
\* each stored query it asked: the error of that query, or a response to the
\* very query its redirects lead to, wherever the response came from (the
\* cache is shared by all requests, GetFeature.cpp get_cached_responses).
AnswersMatch ==
    \A t \in Threads : pc[t] \in Answered =>
        /\ Len(queries[t]) = Len(req[t].asked)
        /\ \A i \in 1..Len(queries[t]) :
            LET q == queries[t][i] IN
            /\ Leads(req[t].asked[i], q.id)
            /\ q.response # NoResponse
            /\ q.response # ErrorResponse => q.response.id = q.id

\* The refinement mapping: what a client sees of the request of a thread.
StateOf(p) ==
    CASE p = "idle" -> "free" [] p = "ok" -> "good" [] p = "bad_request" -> "bad"
      [] p = "error" -> "refused" [] OTHER -> "serving"
AnswersOf(p, qs) ==
    IF p \in Answered
    THEN [i \in 1..Len(qs) |-> IF qs[i].response = ErrorResponse THEN ErrorResponse
                               ELSE qs[i].response.id]
    ELSE <<>>

StateSeen == [t \in Threads |-> StateOf(pc[t])]
AskedSeen == [t \in Threads |-> req[t].asked]
AnswersSeen == [t \in Threads |-> AnswersOf(pc[t], queries[t])]

Service == INSTANCE RequestService WITH
    Questions <- {ask.asked : ask \in Asks}, Error <- ErrorResponse,
    state <- StateSeen, asked <- AskedSeen, answers <- AnswersSeen

\* To its clients the plugin behaves as if each request were served in one
\* step: creation, redirects, cache and execution, interleaved with those of
\* other requests that share the cache, end in answers that the request
\* service allows; that they do end is RequestEnds (GetFeature::execute, GetPropertyValue::execute).
ImplementsService == Service!Spec

\* "so that the response cache is invalidated when the underlying data
\* changes" (StoredQuery.cpp, get_cache_key_qualifier): a query whose handler
\* qualifies the key is never answered from older data than there was when
\* the request arrived.
FreshEnough ==
    \A t \in Threads : pc[t] # "idle" =>
        \A i \in 1..Len(queries[t]) :
            LET q == queries[t][i] IN
            q.id \in Qualified /\ q.response \notin {NoResponse, ErrorResponse}
                => q.response.data >= req[t].data[q.response.source]

\* Every request is answered, whatever the redirects of the configured
\* queries are (StoredQuery::create_from_kvp refuses a second visit).
RequestEnds ==
    \A t \in Threads : pc[t] = "next" ~> pc[t] \in Finished

\* "A request can override it with the `source` parameter."
\* (docs/Configuring-the-WFS-Plugin.md, primaryForecastSource): the responses of
\* a request come from the source it names.
SourceHonoured ==
    \A t \in Threads : pc[t] \in Answered =>
        \A i \in 1..Len(queries[t]) :
            LET r == queries[t][i].response IN
            r # ErrorResponse => r.source = req[t].source

\* "Host specific settings for the download links of the atom (download)
\* stored queries. Each item contains `server` (mandatory, the requested host
\* name)" (docs/Configuring-the-WFS-Plugin.md, hosts): the links are those
\* of the host the request was addressed to.  It does not hold with two hosts:
\* the key of the cache has no host.
HostHonoured ==
    \A t \in Threads : pc[t] \in Answered =>
        \A i \in 1..Len(queries[t]) :
            LET q == queries[t][i] IN
            q.id \in HostBound /\ q.response # ErrorResponse => q.response.host = req[t].host

\* "changes made to a stored query configuration file is taken into
\* production on runtime" (docs/Configuring-the-WFS-Plugin.md,
\* enableConfigurationPolling): no answer is older than the configuration
\* that was loaded when the request arrived.  It does not hold with a cache:
\* the key has no trace of the configuration, and entries have no age.
ConfigHonoured ==
    \A t \in Threads : pc[t] \in Answered =>
        \A i \in 1..Len(queries[t]) :
            LET q == queries[t][i] IN
            q.response # ErrorResponse => q.response.rev >= req[t].handlers[q.id]

=============================================================================
