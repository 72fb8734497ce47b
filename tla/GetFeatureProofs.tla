-------------------------- MODULE GetFeatureProofs --------------------------
(***************************************************************************)
(* Proofs about GetFeature, for every set of threads, queries and bounds.  *)
(***************************************************************************)
EXTENDS GetFeature, TLAPS

\* A query being created has an id, and a response waiting to be cached
\* belongs to one of the queries of the request.
AtWork ==
    \A t \in Threads :
        /\ pc[t] \in {"lookup", "params", "qualify"} => query_id[t] \in Ids
        /\ pc[t] = "insert" => result[t] \in Responses /\ pos[t] \in 1 .. Len(queries[t])

-----------------------------------------------------------------------------
\* Facts about sequences of queries.

\* Setting the response of one query keeps a sequence of queries.
LEMMA SetResponse ==
    ASSUME NEW qs \in Seq(Queries), NEW i \in 1 .. Len(qs),
           NEW r \in Responses \cup {NoResponse, ErrorResponse}
    PROVE  LET new == [qs EXCEPT ![i].response = r] IN
           /\ new \in Seq(Queries)
           /\ Len(new) = Len(qs)
           /\ \A j \in 1 .. Len(qs) :
                /\ new[j].id = qs[j].id /\ new[j].key = qs[j].key
                /\ new[j].response = IF j = i THEN r ELSE qs[j].response
<1> DEFINE new == [qs EXCEPT ![i].response = r]
<1>1. qs[i] \in Queries
  OBVIOUS
<1>2. [qs[i] EXCEPT !.response = r] \in Queries
  BY <1>1 DEF Queries
<1>3. new = [qs EXCEPT ![i] = [qs[i] EXCEPT !.response = r]]
  OBVIOUS
<1>4. new \in Seq(Queries) /\ Len(new) = Len(qs)
  BY <1>2, <1>3
<1>5. ASSUME NEW j \in 1 .. Len(qs)
      PROVE  /\ new[j].id = qs[j].id /\ new[j].key = qs[j].key
             /\ new[j].response = IF j = i THEN r ELSE qs[j].response
  <2>1. qs[j] \in Queries
    OBVIOUS
  <2> QED  BY <1>1, <2>1 DEF Queries
<1> QED  BY <1>4, <1>5

\* A new query is added at the end.
LEMMA AddQuery ==
    ASSUME NEW qs \in Seq(Queries), NEW q \in Queries
    PROVE  /\ Append(qs, q) \in Seq(Queries)
           /\ Len(Append(qs, q)) = Len(qs) + 1
           /\ \A j \in 1 .. Len(qs) : Append(qs, q)[j] = qs[j]
           /\ Append(qs, q)[Len(qs) + 1] = q
OBVIOUS

\* What insert leaves in the cache was there before or is the new entry.
LEMMA InsertAdds ==
    ASSUME NEW key, NEW r, NEW c \in insert(key, r)
    PROVE  c \subseteq query_cache \cup {[key |-> key, response |-> r]}
BY DEF insert

-----------------------------------------------------------------------------
LEMMA TypeInit == Init => TypeOK /\ AtWork
<1> SUFFICES ASSUME Init PROVE TypeOK /\ AtWork
  OBVIOUS
<1>1. (CHOOSE h \in Hosts : TRUE) \in Hosts
  BY SetsAssumption
<1>2. [t \in Threads |-> [kind |-> "GetFeature", source |-> data_source,
                 host |-> CHOOSE h \in Hosts : TRUE, asked |-> <<>>, data |-> data,
                 handlers |-> handlers]] \in [Threads -> Requests]
  BY <1>1 DEF Init, Requests, Kinds
<1>3. TypeOK
  BY <1>2 DEF Init, TypeOK, Locations, Finished, Answered
<1>4. AtWork
  BY DEF Init, AtWork
<1> QED  BY <1>3, <1>4

\* An exception leaves well-typed locals.
LEMMA ThrowType ==
    ASSUME TypeOK, AtWork, NEW t \in Threads, Throw(t)
    PROVE  TypeOK' /\ AtWork'
<1>1. TypeOK'
  BY DEF Throw, TypeOK, world, Locations, Finished, Answered
<1>2. AtWork'
  BY DEF Throw, TypeOK, AtWork, world
<1> QED  BY <1>1, <1>2

\* The round of get_cached_responses moves on or ends.
LEMMA FindType ==
    ASSUME TypeOK, NEW t \in Threads, get_cached_responses(t)
    PROVE  pc' \in [Threads -> Locations] /\ pos' \in [Threads -> Nat \ {0}]
<1>1. pc' = pc \/ pc' = [pc EXCEPT ![t] = "collect"]
  BY DEF get_cached_responses
<1>2. pos' = [pos EXCEPT ![t] = pos[t] + 1] \/ pos' = [pos EXCEPT ![t] = 1]
  BY DEF get_cached_responses, TypeOK
<1>3. pc' \in [Threads -> Locations]
  BY <1>1 DEF TypeOK, Locations
<1>4. pos \in [Threads -> Nat \ {0}] /\ pos[t] + 1 \in Nat \ {0} /\ 1 \in Nat \ {0}
  BY DEF TypeOK
<1>5. pos' \in [Threads -> Nat \ {0}]
  BY <1>2, <1>4
<1> QED  BY <1>3, <1>5

LEMMA TypeNext == TypeOK /\ AtWork /\ [Next]_vars => TypeOK' /\ AtWork'
<1> SUFFICES ASSUME TypeOK, AtWork, [Next]_vars PROVE TypeOK' /\ AtWork'
  OBVIOUS
<1>1. ASSUME NEW t \in Threads, realRequestHandler(t) PROVE TypeOK' /\ AtWork'
  <2>1. PICK ask \in Asks, source \in Sources, host \in Hosts :
          /\ data_source' = source
          /\ req' = [req EXCEPT ![t] = [kind |-> ask.kind, source |-> source, host |-> host,
                        asked |-> ask.asked, data |-> data, handlers |-> handlers]]
    BY <1>1 DEF realRequestHandler
  <2>2. req' \in [Threads -> Requests]
    BY <2>1, SetsAssumption DEF TypeOK, Requests
  <2>3. TypeOK'
    BY <1>1, <2>1, <2>2 DEF realRequestHandler, TypeOK, world, create, Locations, Finished, Answered
  <2>4. AtWork'
    BY <1>1 DEF realRequestHandler, TypeOK, AtWork, world, create
  <2> QED  BY <2>3, <2>4
<1>2. ASSUME NEW t \in Threads, NextQuery(t) PROVE TypeOK' /\ AtWork'
  <2>1. req[t].asked \in Seq(Ids) /\ queries[t] \in Seq(Queries)
    BY DEF TypeOK, Requests
  <2>2. Len(queries[t]) < Len(req[t].asked) => req[t].asked[Len(queries[t]) + 1] \in Ids
    BY <2>1
  <2>3. TypeOK'
    <3>1. pc' \in [Threads -> Locations]
      BY <1>2 DEF NextQuery, TypeOK, Locations
    <3>2. query_id' \in [Threads -> Ids \cup {NoId}] /\ redirect_id_set' \in [Threads -> SUBSET Ids]
      <4>1. CASE UNCHANGED <<query_id, redirect_id_set>>
        BY <4>1 DEF TypeOK
      <4>2. CASE ~UNCHANGED <<query_id, redirect_id_set>>
        <5>1. PICK i \in Ids : /\ query_id' = [query_id EXCEPT ![t] = i]
                              /\ redirect_id_set' = [redirect_id_set EXCEPT ![t] = {i}]
          BY <1>2, <2>2, <4>2 DEF NextQuery
        <5> QED  BY <5>1 DEF TypeOK
      <4> QED  BY <4>1, <4>2
    <3> QED  BY <1>2, <3>1, <3>2 DEF NextQuery, TypeOK, world
  <2>4. AtWork'
    BY <1>2, <2>2 DEF NextQuery, TypeOK, AtWork, world
  <2> QED  BY <2>3, <2>4
<1>3. ASSUME NEW t \in Threads, get_handler_by_name(t) PROVE TypeOK' /\ AtWork'
  <2>1. CASE Throw(t)
    BY <2>1, ThrowType
  <2>2. CASE ~Throw(t)
    <3>1. query_id[t] \in Ids
      BY <1>3 DEF get_handler_by_name, AtWork
    <3>2. TypeOK'
      BY <1>3, <2>2, <3>1 DEF get_handler_by_name, TypeOK, world, Locations
    <3>3. AtWork'
      BY <1>3, <2>2, <3>1 DEF get_handler_by_name, TypeOK, AtWork, world
    <3> QED  BY <3>2, <3>3
  <2> QED  BY <2>1, <2>2
<1>4. ASSUME NEW t \in Threads, ParamsRefused(t) \/ FormatRefused(t) PROVE TypeOK' /\ AtWork'
  BY <1>4, ThrowType DEF ParamsRefused, FormatRefused
<1>5. ASSUME NEW t \in Threads, redirect(t) PROVE TypeOK' /\ AtWork'
  <2>1. CASE Throw(t)
    BY <2>1, ThrowType
  <2>2. CASE ~Throw(t)
    <3>1. query_id[t] \in Ids
      BY <1>5 DEF redirect, AtWork
    <3>2. PICK to \in Ids :
            /\ query_id' = [query_id EXCEPT ![t] = to]
            /\ redirect_id_set' = [redirect_id_set EXCEPT ![t] = @ \cup {to}]
      BY <1>5, <2>2, <3>1, RedirectsAssumption DEF redirect, RedirectValid
    <3>3. TypeOK'
      <4>1. pc' \in [Threads -> Locations]
        BY <1>5, <2>2 DEF redirect, TypeOK, Locations
      <4>2. query_id' \in [Threads -> Ids \cup {NoId}] /\ redirect_id_set' \in [Threads -> SUBSET Ids]
        BY <3>2 DEF TypeOK
      <4> QED  BY <1>5, <2>2, <4>1, <4>2 DEF redirect, TypeOK, world
    <3>4. AtWork'
      BY <1>5, <2>2, <3>2 DEF redirect, TypeOK, AtWork, world
    <3> QED  BY <3>3, <3>4
  <2> QED  BY <2>1, <2>2
<1>6. ASSUME NEW t \in Threads, KeySource(t) PROVE TypeOK' /\ AtWork'
  <2>1. TypeOK'
    BY <1>6 DEF KeySource, TypeOK, world, Locations
  <2>2. AtWork'
    BY <1>6 DEF KeySource, TypeOK, AtWork, world
  <2> QED  BY <2>1, <2>2
<1>7. ASSUME NEW t \in Threads, Qualify(t) PROVE TypeOK' /\ AtWork'
  <2> DEFINE q == [id |-> query_id[t], rev |-> handler[t],
             key |-> cache_key(query_id[t], key_source[t], get_cache_key_qualifier(query_id[t])),
             response |-> NoResponse]
  <2>1. q \in Queries
    BY <1>7 DEF Qualify, TypeOK, AtWork, Queries, Keys, cache_key, get_cache_key_qualifier
  <2>2. queries[t] \in Seq(Queries) /\ queries' = [queries EXCEPT ![t] = Append(queries[t], q)]
    BY <1>7 DEF Qualify, TypeOK
  <2>3. Append(queries[t], q) \in Seq(Queries)
    BY <2>1, <2>2, AddQuery
  <2>4. queries' \in [Threads -> Seq(Queries)]
    BY <2>2, <2>3 DEF TypeOK
  <2>5. TypeOK'
    BY <1>7, <2>4 DEF Qualify, TypeOK, world, Locations
  <2>6. AtWork'
    BY <1>7, <2>2 DEF Qualify, TypeOK, AtWork, world
  <2> QED  BY <2>5, <2>6
<1>8. ASSUME NEW t \in Threads, get_cached_responses(t) PROVE TypeOK' /\ AtWork'
  <2>1. CASE UNCHANGED queries
    <3>1. TypeOK'
      BY <1>8, <2>1, FindType DEF get_cached_responses, TypeOK, world, create
    <3>2. AtWork'
      BY <1>8, <2>1 DEF get_cached_responses, TypeOK, AtWork, world, create
    <3> QED  BY <3>1, <3>2
  <2>2. CASE ~UNCHANGED queries
    <3>1. PICK r \in find(queries[t][pos[t]].key) :
            queries' = [queries EXCEPT ![t][pos[t]].response = r]
      BY <1>8, <2>2 DEF get_cached_responses
    <3>2. r \in Responses
      BY DEF find, TypeOK
    <3>3. queries[t] \in Seq(Queries) /\ pos[t] \in 1 .. Len(queries[t])
      BY <1>8, <2>2 DEF get_cached_responses, TypeOK
    <3>4. queries' = [queries EXCEPT ![t] = [queries[t] EXCEPT ![pos[t]].response = r]]
      BY <3>1 DEF TypeOK
    <3>5. queries' \in [Threads -> Seq(Queries)]
      BY <3>2, <3>3, <3>4, SetResponse DEF TypeOK
    <3>6. TypeOK'
      BY <1>8, <3>5, FindType DEF get_cached_responses, TypeOK, world, create
    <3>7. AtWork'
      BY <1>8, <2>2, <3>4 DEF get_cached_responses, TypeOK, AtWork, world, create
    <3> QED  BY <3>6, <3>7
  <2> QED  BY <2>1, <2>2
<1>9. ASSUME NEW t \in Threads, TakeCached(t) PROVE TypeOK' /\ AtWork'
  <2>1. TypeOK'
    BY <1>9 DEF TakeCached, TypeOK, world, create
  <2>2. AtWork'
    BY <1>9 DEF TakeCached, TypeOK, AtWork, world, create
  <2> QED  BY <2>1, <2>2
<1>10. ASSUME NEW t \in Threads, Execute(t) PROVE TypeOK' /\ AtWork'
  <2>1. pos[t] \in 1 .. Len(queries[t]) /\ queries[t] \in Seq(Queries)
    BY <1>10 DEF Execute, TypeOK
  <2>2. Answer(t) \in Responses
    <3>1. queries[t][pos[t]] \in Queries /\ req[t] \in Requests
      BY <2>1 DEF TypeOK
    <3> QED  BY <3>1 DEF Answer, Queries, Requests, Responses, TypeOK
  <2>3. TypeOK'
    BY <1>10, <2>2 DEF Execute, TypeOK, world, create, Locations
  <2>4. AtWork'
    BY <1>10, <2>1, <2>2 DEF Execute, TypeOK, AtWork, world, create
  <2> QED  BY <2>3, <2>4
<1>11. ASSUME NEW t \in Threads, ExecuteThrows(t) PROVE TypeOK' /\ AtWork'
  <2>1. CASE Throw(t)
    BY <2>1, ThrowType
  <2>2. CASE ~Throw(t)
    <3>1. pos[t] \in 1 .. Len(queries[t]) /\ queries[t] \in Seq(Queries)
      BY <1>11 DEF ExecuteThrows, TypeOK
    <3>2. queries' = [queries EXCEPT ![t] = [queries[t] EXCEPT ![pos[t]].response = ErrorResponse]]
      BY <1>11, <2>2 DEF ExecuteThrows, TypeOK
    <3>3. queries' \in [Threads -> Seq(Queries)]
      <4>1. ErrorResponse \in Responses \cup {NoResponse, ErrorResponse}
        OBVIOUS
      <4>2. [queries[t] EXCEPT ![pos[t]].response = ErrorResponse] \in Seq(Queries)
        BY <3>1, <4>1, SetResponse
      <4> QED  BY <3>2, <4>2 DEF TypeOK
    <3>4. TypeOK'
      <4>1. pos' \in [Threads -> Nat \ {0}]
        BY <1>11, <2>2 DEF ExecuteThrows, TypeOK
      <4> QED  BY <1>11, <2>2, <3>3, <4>1 DEF ExecuteThrows, TypeOK, world, create
    <3>5. AtWork'
      BY <1>11, <2>2, <3>2 DEF ExecuteThrows, TypeOK, AtWork, world, create
    <3> QED  BY <3>4, <3>5
  <2> QED  BY <2>1, <2>2
<1>12. ASSUME NEW t \in Threads, Insert(t) PROVE TypeOK' /\ AtWork'
  <2>1. pos[t] \in 1 .. Len(queries[t]) /\ queries[t] \in Seq(Queries) /\ result[t] \in Responses
    BY <1>12 DEF Insert, TypeOK, AtWork
  <2>2. queries' = [queries EXCEPT ![t] = [queries[t] EXCEPT ![pos[t]].response = result[t]]]
    BY <1>12 DEF Insert, TypeOK
  <2>3. queries' \in [Threads -> Seq(Queries)]
    BY <2>1, <2>2, SetResponse DEF TypeOK
  <2>4. queries[t][pos[t]].key \in Keys
    <3>1. queries[t][pos[t]] \in Queries
      BY <2>1
    <3> QED  BY <3>1 DEF Queries
  <2>5. query_cache' \subseteq query_cache \cup
            {[key |-> queries[t][pos[t]].key, response |-> result[t]]}
    BY <1>12, InsertAdds DEF Insert
  <2>6. query_cache' \subseteq [key : Keys, response : Responses]
    BY <2>1, <2>4, <2>5 DEF TypeOK
  <2>7. TypeOK'
    BY <1>12, <2>3, <2>6 DEF Insert, TypeOK, world, create, Locations
  <2>8. AtWork'
    BY <1>12, <2>2 DEF Insert, TypeOK, AtWork, world, create
  <2> QED  BY <2>7, <2>8
<1>13. ASSUME NEW t \in Threads, execute(t) PROVE TypeOK' /\ AtWork'
  <2>1. CASE Throw(t)
    BY <2>1, ThrowType
  <2>2. CASE ~Throw(t)
    <3>1. TypeOK'
      BY <1>13, <2>2 DEF execute, TypeOK, world, create, Locations, Finished, Answered
    <3>2. AtWork'
      BY <1>13, <2>2 DEF execute, TypeOK, AtWork, world, create
    <3> QED  BY <3>1, <3>2
  <2> QED  BY <2>1, <2>2
<1>14. ASSUME NEW i \in Edited, Modify(i) PROVE TypeOK' /\ AtWork'
  <2>1. TypeOK'
    BY <1>14, SetsAssumption DEF Modify, TypeOK, create
  <2>2. AtWork'
    BY <1>14 DEF Modify, AtWork, create
  <2> QED  BY <2>1, <2>2
<1>15. ASSUME NEW s \in Sources, NewData(s) PROVE TypeOK' /\ AtWork'
  <2>1. TypeOK'
    BY <1>15 DEF NewData, TypeOK, create
  <2>2. AtWork'
    BY <1>15 DEF NewData, AtWork, create
  <2> QED  BY <2>1, <2>2
<1>16. CASE UNCHANGED vars
  BY <1>16 DEF vars, world, create, TypeOK, AtWork
<1> QED
  BY <1>1, <1>2, <1>3, <1>4, <1>5, <1>6, <1>7, <1>8, <1>9, <1>10, <1>11, <1>12, <1>13,
     <1>14, <1>15, <1>16 DEF Next, Step

\* Type correctness of the request engine.
THEOREM TypeCorrect == Spec => []TypeOK
<1>1. TypeOK /\ AtWork => TypeOK
  OBVIOUS
<1> QED  BY TypeInit, TypeNext, <1>1, PTL DEF Spec

-----------------------------------------------------------------------------
(* What one request knows, and that other threads cannot disturb it.       *)

\* The part of the state that belongs to the request of thread u.
Same(u) ==
    /\ pc'[u] = pc[u] /\ req'[u] = req[u] /\ query_id'[u] = query_id[u]
    /\ queries'[u] = queries[u] /\ pos'[u] = pos[u] /\ result'[u] = result[u]

\* A step of one thread leaves the requests of the others alone.
LEMMA OthersSame ==
    ASSUME TypeOK, NEW t \in Threads, realRequestHandler(t) \/ Step(t)
    PROVE  /\ \A u \in Threads : u # t => Same(u)
           /\ UNCHANGED data
<1>1. ASSUME Throw(t) PROVE \A u \in Threads : u # t => Same(u)
  BY <1>1 DEF Throw, Same, TypeOK
<1>2. CASE realRequestHandler(t)
  BY <1>2 DEF realRequestHandler, Same, TypeOK, world, create
<1>3. CASE NextQuery(t)
  BY <1>3 DEF NextQuery, Same, TypeOK, world
<1>4. CASE get_handler_by_name(t)
  BY <1>4, <1>1 DEF get_handler_by_name, Same, TypeOK, world, Throw
<1>5. CASE ParamsRefused(t) \/ FormatRefused(t)
  BY <1>5, <1>1 DEF ParamsRefused, FormatRefused, Throw, world
<1>6. CASE redirect(t)
  BY <1>6, <1>1 DEF redirect, Same, TypeOK, world, Throw
<1>7. CASE KeySource(t)
  BY <1>7 DEF KeySource, Same, TypeOK, world
<1>8. CASE Qualify(t)
  BY <1>8 DEF Qualify, Same, TypeOK, world
<1>9. CASE get_cached_responses(t)
  BY <1>9 DEF get_cached_responses, Same, TypeOK, world, create
<1>10. CASE TakeCached(t) \/ Execute(t)
  BY <1>10 DEF TakeCached, Execute, Same, TypeOK, world, create
<1>11. CASE ExecuteThrows(t)
  BY <1>11, <1>1 DEF ExecuteThrows, Same, TypeOK, world, create, Throw
<1>12. CASE Insert(t)
  BY <1>12 DEF Insert, Same, TypeOK, world, create
<1>13. CASE execute(t)
  BY <1>13, <1>1 DEF execute, Same, TypeOK, world, create, Throw
<1> QED
  BY <1>2, <1>3, <1>4, <1>5, <1>6, <1>7, <1>8, <1>9, <1>10, <1>11, <1>12, <1>13 DEF Step

-----------------------------------------------------------------------------
(* Freshness, when every request uses the same source.                     *)

Proper(r) == r \notin {NoResponse, ErrorResponse}

\* The qualifier of a key lies between the data there was when the request
\* arrived and the data there is now, and no response is older than the
\* qualifier of its key.
QueryFresh(t, q) ==
    /\ \A s \in Sources : q.key.qual <= data[s]
    /\ q.id \in Qualified => \A s \in Sources : req[t].data[s] <= q.key.qual
    /\ Proper(q.response) => q.key.qual <= q.response.data

ThreadFresh(t) ==
    /\ \A s \in Sources : req[t].data[s] <= data[s]
    /\ \A i \in 1 .. Len(queries[t]) : QueryFresh(t, queries[t][i])
    /\ pc[t] = "insert" => queries[t][pos[t]].key.qual <= result[t].data

CacheFresh == \A e \in query_cache : e.key.qual <= e.response.data

Fresh == CacheFresh /\ \A t \in Threads : ThreadFresh(t)

\* Newer data does no harm to a request that is not running.
LEMMA SameFresh ==
    ASSUME TypeOK, TypeOK', NEW u \in Threads, ThreadFresh(u), Same(u),
           \A s \in Sources : data[s] <= data'[s]
    PROVE  ThreadFresh(u)'
<1>1. data \in [Sources -> Nat] /\ data' \in [Sources -> Nat] /\ req[u].data \in [Sources -> Nat]
      /\ queries[u] \in Seq(Queries)
  BY DEF TypeOK, Requests
<1>2. ASSUME NEW s \in Sources PROVE req'[u].data[s] <= data'[s]
  BY <1>1 DEF ThreadFresh, Same
<1>3. ASSUME NEW i \in 1 .. Len(queries[u]) PROVE QueryFresh(u, queries[u][i])'
  <2>1. queries[u][i] \in Queries /\ queries'[u][i] = queries[u][i]
    BY <1>1 DEF Same
  <2>2. QueryFresh(u, queries[u][i])
    BY DEF ThreadFresh
  <2>3. queries[u][i].key.qual \in Nat
    BY <2>1 DEF Queries, Keys
  <2>4. ASSUME NEW s \in Sources PROVE queries[u][i].key.qual <= data'[s]
    <3>1. queries[u][i].key.qual <= data[s] /\ data[s] <= data'[s]
      BY <2>2 DEF QueryFresh
    <3>2. data[s] \in Nat /\ data'[s] \in Nat
      BY <1>1
    <3> QED  BY <3>1, <3>2, <2>3
  <2> QED  BY <2>1, <2>2, <2>4 DEF QueryFresh, Same
<1>4. pc'[u] = "insert" => queries'[u][pos'[u]].key.qual <= result'[u].data
  BY DEF ThreadFresh, Same
<1> QED  BY <1>2, <1>3, <1>4 DEF ThreadFresh, Same

\* A step that leaves the queries of the running request alone, and computes
\* no response, keeps it fresh.
LEMMA QuietFresh ==
    ASSUME TypeOK, NEW t \in Threads, ThreadFresh(t), UNCHANGED <<data, req>>,
           pc'[t] # "insert", queries'[t] = queries[t] \/ queries'[t] = <<>>
    PROVE  ThreadFresh(t)'
BY DEF ThreadFresh, QueryFresh

\* Setting a response that is no older than the key's qualifier.
LEMMA AnsweredFresh ==
    ASSUME TypeOK, NEW t \in Threads, ThreadFresh(t), UNCHANGED <<data, req>>,
           pc'[t] # "insert",
           pos[t] \in 1 .. Len(queries[t]),
           NEW r \in Responses \cup {NoResponse, ErrorResponse},
           Proper(r) => queries[t][pos[t]].key.qual <= r.data,
           queries'[t] = [queries[t] EXCEPT ![pos[t]].response = r]
    PROVE  ThreadFresh(t)'
<1>1. queries[t] \in Seq(Queries)
  BY DEF TypeOK
<1>2. /\ Len(queries'[t]) = Len(queries[t])
      /\ \A j \in 1 .. Len(queries[t]) :
            /\ queries'[t][j].id = queries[t][j].id /\ queries'[t][j].key = queries[t][j].key
            /\ queries'[t][j].response = IF j = pos[t] THEN r ELSE queries[t][j].response
  BY <1>1, SetResponse
<1>3. ASSUME NEW j \in 1 .. Len(queries[t]) PROVE QueryFresh(t, queries[t][j])'
  BY <1>2 DEF ThreadFresh, QueryFresh, Proper
<1> QED  BY <1>2, <1>3 DEF ThreadFresh

LEMMA FreshNext ==
    ASSUME NEW src, Sources = {src}, TypeOK, AtWork, TypeOK', Fresh, [Next]_vars
    PROVE  Fresh'
<1>1. ASSUME NEW t \in Threads, realRequestHandler(t) \/ Step(t),
             CacheFresh', ThreadFresh(t)'
      PROVE  Fresh'
  <2>1. UNCHANGED data /\ \A u \in Threads : u # t => Same(u)
    BY <1>1, OthersSame
  <2>2. ASSUME NEW u \in Threads, u # t PROVE ThreadFresh(u)'
    <3>1. \A s \in Sources : data[s] <= data'[s]
      BY <2>1 DEF TypeOK
    <3> QED  BY <2>1, <2>2, <3>1, SameFresh DEF Fresh
  <2> QED  BY <1>1, <2>2 DEF Fresh
<1>2. ASSUME NEW t \in Threads, Throw(t), Step(t) PROVE Fresh'
  <2>1. CacheFresh'
    BY <1>2 DEF Throw, Fresh, CacheFresh
  <2>2. ThreadFresh(t)'
    BY <1>2, QuietFresh DEF Throw, Fresh, TypeOK, world
  <2> QED  BY <1>1, <1>2, <2>1, <2>2
<1>3. ASSUME NEW t \in Threads, realRequestHandler(t) PROVE Fresh'
  <2>1. CacheFresh'
    BY <1>3 DEF realRequestHandler, Fresh, CacheFresh
  <2>2. req'[t].data = data /\ data' = data /\ queries'[t] = <<>> /\ pc'[t] # "insert"
    BY <1>3 DEF realRequestHandler, TypeOK, world
  <2>3. ThreadFresh(t)'
    BY <2>2 DEF ThreadFresh, TypeOK
  <2> QED  BY <1>1, <1>3, <2>1, <2>3
<1>4. ASSUME NEW t \in Threads, Step(t), ~Throw(t),
             \/ NextQuery(t) \/ get_handler_by_name(t) \/ redirect(t) \/ KeySource(t)
             \/ TakeCached(t) \/ execute(t)
      PROVE  Fresh'
  <2>1. UNCHANGED <<data, req, queries, query_cache>>
    BY <1>4 DEF NextQuery, get_handler_by_name, redirect, KeySource, TakeCached, execute,
                world, create
  <2>2. pc'[t] # "insert"
    BY <1>4 DEF NextQuery, get_handler_by_name, redirect, KeySource, TakeCached, execute, TypeOK
  <2>3. CacheFresh' /\ ThreadFresh(t)'
    BY <2>1, <2>2, QuietFresh DEF Fresh, CacheFresh
  <2> QED  BY <1>1, <1>4, <2>3
<1>5. ASSUME NEW t \in Threads, Qualify(t) PROVE Fresh'
  <2> DEFINE q == [id |-> query_id[t], rev |-> handler[t],
             key |-> cache_key(query_id[t], key_source[t], get_cache_key_qualifier(query_id[t])),
             response |-> NoResponse]
  <2>1. /\ queries[t] \in Seq(Queries) /\ queries'[t] = Append(queries[t], q)
        /\ UNCHANGED <<data, req, query_cache>> /\ pc'[t] = "next"
    BY <1>5 DEF Qualify, TypeOK, world
  <2>2. q \in Queries
    BY <1>5 DEF Qualify, TypeOK, AtWork, Queries, Keys, cache_key, get_cache_key_qualifier
  <2>3. QueryFresh(t, q)
    <3>1. q.key.qual = IF query_id[t] \in Qualified THEN data[src] ELSE 0
      BY <2>1 DEF cache_key, get_cache_key_qualifier, TypeOK
    <3>2. data[src] \in Nat /\ req[t].data[src] <= data[src]
      BY DEF TypeOK, Fresh, ThreadFresh
    <3> QED  BY <3>1, <3>2 DEF QueryFresh, Proper
  <2>4. /\ Len(queries'[t]) = Len(queries[t]) + 1
        /\ \A j \in 1 .. Len(queries[t]) : queries'[t][j] = queries[t][j]
        /\ queries'[t][Len(queries[t]) + 1] = q
    BY <2>1, <2>2, AddQuery
  <2>5. ASSUME NEW j \in 1 .. Len(queries'[t]) PROVE QueryFresh(t, queries'[t][j])
    <3>1. CASE j \in 1 .. Len(queries[t])
      BY <2>4, <3>1 DEF Fresh, ThreadFresh
    <3>2. CASE j = Len(queries[t]) + 1
      BY <2>3, <2>4, <3>2
    <3> QED  BY <2>1, <2>4, <3>1, <3>2
  <2>6. ThreadFresh(t)'
    BY <2>1, <2>5 DEF Fresh, ThreadFresh, QueryFresh
  <2>7. CacheFresh'
    BY <2>1 DEF Fresh, CacheFresh
  <2> QED  BY <1>1, <1>5, <2>6, <2>7 DEF Step
<1>6. ASSUME NEW t \in Threads, get_cached_responses(t) PROVE Fresh'
  <2>1. UNCHANGED <<data, req, query_cache>> /\ pc'[t] # "insert"
    BY <1>6 DEF get_cached_responses, TypeOK, world
  <2>2. CASE UNCHANGED queries
    <3>1. ThreadFresh(t)'
      BY <2>1, <2>2, QuietFresh DEF Fresh
    <3> QED  BY <1>1, <1>6, <2>1, <3>1 DEF Step, Fresh, CacheFresh
  <2>3. CASE ~UNCHANGED queries
    <3>1. PICK r \in find(queries[t][pos[t]].key) :
            queries' = [queries EXCEPT ![t][pos[t]].response = r]
      BY <1>6, <2>3 DEF get_cached_responses
    <3>2. r \in Responses /\ queries[t][pos[t]].key.qual <= r.data
      BY DEF find, TypeOK, Fresh, CacheFresh
    <3>3. pos[t] \in 1 .. Len(queries[t])
      BY <1>6, <2>3 DEF get_cached_responses, TypeOK
    <3>4. queries'[t] = [queries[t] EXCEPT ![pos[t]].response = r]
      BY <3>1 DEF TypeOK
    <3>5. ThreadFresh(t)'
      BY <2>1, <3>2, <3>3, <3>4, AnsweredFresh DEF Fresh
    <3> QED  BY <1>1, <1>6, <2>1, <3>5 DEF Step, Fresh, CacheFresh
  <2> QED  BY <2>2, <2>3
<1>7. ASSUME NEW t \in Threads, Execute(t) PROVE Fresh'
  <2>1. /\ UNCHANGED <<data, req, query_cache, queries, pos>>
        /\ pos[t] \in 1 .. Len(queries[t]) /\ result'[t] = Answer(t)
    BY <1>7 DEF Execute, TypeOK, world
  <2>2. result'[t].data = data[src]
    BY <2>1 DEF Answer, TypeOK
  <2>3. queries[t][pos[t]].key.qual <= data[src]
    BY <2>1 DEF Fresh, ThreadFresh, QueryFresh
  <2>4. ThreadFresh(t)'
    BY <2>1, <2>2, <2>3 DEF Fresh, ThreadFresh, QueryFresh
  <2> QED  BY <1>1, <1>7, <2>1, <2>4 DEF Step, Fresh, CacheFresh
<1>8. ASSUME NEW t \in Threads, ExecuteThrows(t), ~Throw(t) PROVE Fresh'
  <2>1. /\ UNCHANGED <<data, req, query_cache, pc>> /\ pc[t] = "collect"
        /\ pos[t] \in 1 .. Len(queries[t])
        /\ queries'[t] = [queries[t] EXCEPT ![pos[t]].response = ErrorResponse]
    BY <1>8 DEF ExecuteThrows, TypeOK, world
  <2>2. ErrorResponse \in Responses \cup {NoResponse, ErrorResponse} /\ ~Proper(ErrorResponse)
    BY DEF Proper
  <2>3. ThreadFresh(t)'
    BY <2>1, <2>2, AnsweredFresh DEF Fresh
  <2> QED  BY <1>1, <1>8, <2>1, <2>3 DEF Step, Fresh, CacheFresh
<1>9. ASSUME NEW t \in Threads, Insert(t) PROVE Fresh'
  <2>1. /\ UNCHANGED <<data, req>> /\ pc'[t] # "insert" /\ pc[t] = "insert"
        /\ queries'[t] = [queries[t] EXCEPT ![pos[t]].response = result[t]]
    BY <1>9 DEF Insert, TypeOK, world
  <2>2. /\ pos[t] \in 1 .. Len(queries[t]) /\ result[t] \in Responses
        /\ queries[t][pos[t]].key.qual <= result[t].data
    BY <2>1 DEF AtWork, Fresh, ThreadFresh
  <2>3. ThreadFresh(t)'
    BY <2>1, <2>2, AnsweredFresh DEF Fresh
  <2>4. query_cache' \subseteq query_cache \cup
            {[key |-> queries[t][pos[t]].key, response |-> result[t]]}
    BY <1>9, InsertAdds DEF Insert
  <2>5. CacheFresh'
    BY <2>2, <2>4 DEF Fresh, CacheFresh
  <2> QED  BY <1>1, <1>9, <2>3, <2>5 DEF Step
<1>10. ASSUME NEW s \in Sources, NewData(s) PROVE Fresh'
  <2>1. \A x \in Sources : data[x] <= data'[x]
    BY <1>10 DEF NewData, TypeOK
  <2>2. \A u \in Threads : Same(u)
    BY <1>10 DEF NewData, Same, create
  <2>3. CacheFresh'
    BY <1>10 DEF NewData, Fresh, CacheFresh
  <2> QED  BY <2>1, <2>2, <2>3, SameFresh DEF Fresh
<1>11. ASSUME \/ UNCHANGED vars
              \/ \E i \in Edited : Modify(i)
       PROVE  Fresh'
  <2>1. UNCHANGED <<data, query_cache>> /\ \A u \in Threads : Same(u)
    BY <1>11 DEF Modify, vars, world, create, Same
  <2>2. \A x \in Sources : data[x] <= data'[x]
    BY <2>1 DEF TypeOK
  <2> QED  BY <2>1, <2>2, SameFresh DEF Fresh, CacheFresh
<1>12. ASSUME NEW t \in Threads, ParamsRefused(t) \/ FormatRefused(t) PROVE Fresh'
  BY <1>12, <1>2 DEF ParamsRefused, FormatRefused, Step
<1> QED
  BY <1>2, <1>3, <1>4, <1>5, <1>6, <1>7, <1>8, <1>9, <1>10, <1>11, <1>12 DEF Next, Step

\* With a single data source, no query with a qualified key is answered from
\* data older than the request, however the threads share the cache.
THEOREM AlwaysFreshEnough ==
    ASSUME NEW src, Sources = {src}
    PROVE  Spec => []FreshEnough
<1>1. Init => Fresh
  BY TypeInit DEF Init, Fresh, CacheFresh, ThreadFresh, QueryFresh, TypeOK
<1>2. TypeOK /\ AtWork /\ Fresh /\ [Next]_vars => Fresh'
  BY TypeNext, FreshNext
<1>3. TypeOK /\ Fresh => FreshEnough
  <2> SUFFICES ASSUME TypeOK, Fresh, NEW t \in Threads, NEW i \in 1 .. Len(queries[t]),
                      queries[t][i].id \in Qualified,
                      queries[t][i].response \notin {NoResponse, ErrorResponse}
               PROVE  queries[t][i].response.data >= req[t].data[queries[t][i].response.source]
    BY DEF FreshEnough
  <2>0. queries[t] \in Seq(Queries) /\ req[t] \in Requests
    BY DEF TypeOK
  <2>1. queries[t][i] \in Queries /\ req[t].data \in [Sources -> Nat]
    BY <2>0 DEF Requests
  <2>2. queries[t][i].response \in Responses /\ queries[t][i].key \in Keys
    BY <2>1 DEF Queries
  <2>3. QueryFresh(t, queries[t][i])
    BY DEF Fresh, ThreadFresh
  <2> QED  BY <2>1, <2>2, <2>3 DEF QueryFresh, Proper, Responses, Keys
<1> QED  BY TypeInit, TypeNext, <1>1, <1>2, <1>3, PTL DEF Spec

-----------------------------------------------------------------------------
(* Every answer of GetFeature belongs to its question, and so GetFeature   *)
(* implements RequestService.                                              *)

\* Every query leads to itself (the query of a handler that never redirects).
LEMMA LeadsSelf ==
    ASSUME NEW a \in Ids
    PROVE  Leads(a, a)
BY DEF Leads

\* One more redirect of StoredQuery::create_from_kvp leads on.
LEMMA LeadsOn ==
    ASSUME NEW a, NEW b, Leads(a, b), NEW c \in Redirects[b], c \in Ids
    PROVE  Leads(a, c)
BY DEF Leads

-----------------------------------------------------------------------------
(* The inductive invariant: a cached response is that of the query in its  *)
(* key, and a request keeps to what was asked.                             *)

\* The query created for the question a: its key and its response are its
\* own.
QueryMatch(a, q) ==
    /\ q.key.id = q.id
    /\ Leads(a, q.id)
    /\ Proper(q.response) => q.response.id = q.id

ThreadMatch(t) ==
    /\ \A i \in 1 .. Len(queries[t]) : QueryMatch(req[t].asked[i], queries[t][i])
    /\ pc[t] \in {"lookup", "params", "qualify"} =>
        /\ Len(queries[t]) < Len(req[t].asked)
        /\ Leads(req[t].asked[Len(queries[t]) + 1], query_id[t])
    /\ pc[t] \in {"find", "collect", "insert"} \cup Answered =>
        Len(queries[t]) = Len(req[t].asked)
    /\ pc[t] \in {"collect", "insert"} =>
        \A i \in 1 .. Len(queries[t]) : i < pos[t] => queries[t][i].response # NoResponse
    /\ pc[t] = "insert" => result[t].id = queries[t][pos[t]].id
    /\ pc[t] \in Answered =>
        \A i \in 1 .. Len(queries[t]) : queries[t][i].response # NoResponse

CacheMatch == \A e \in query_cache : e.response.id = e.key.id

Match == CacheMatch /\ \A t \in Threads : ThreadMatch(t)

\* A request that is not running stays as it is.
LEMMA SameMatch ==
    ASSUME NEW u \in Threads, ThreadMatch(u), Same(u)
    PROVE  ThreadMatch(u)'
BY DEF ThreadMatch, Same

\* Setting a response to the query at pos keeps the queries those asked for.
LEMMA AnsweredMatch ==
    ASSUME TypeOK, NEW t \in Threads, ThreadMatch(t), UNCHANGED req,
           pos[t] \in 1 .. Len(queries[t]),
           NEW r \in Responses \cup {NoResponse, ErrorResponse},
           Proper(r) => r.id = queries[t][pos[t]].id,
           queries'[t] = [queries[t] EXCEPT ![pos[t]].response = r]
    PROVE  /\ Len(queries'[t]) = Len(queries[t])
           /\ \A i \in 1 .. Len(queries[t]) :
                /\ QueryMatch(req'[t].asked[i], queries'[t][i])
                /\ queries'[t][i].response = IF i = pos[t] THEN r ELSE queries[t][i].response
<1>1. queries[t] \in Seq(Queries)
  BY DEF TypeOK
<1>2. /\ Len(queries'[t]) = Len(queries[t])
      /\ \A j \in 1 .. Len(queries[t]) :
            /\ queries'[t][j].id = queries[t][j].id /\ queries'[t][j].key = queries[t][j].key
            /\ queries'[t][j].response = IF j = pos[t] THEN r ELSE queries[t][j].response
  BY <1>1, SetResponse
<1>3. ASSUME NEW i \in 1 .. Len(queries[t]) PROVE QueryMatch(req'[t].asked[i], queries'[t][i])
  <2>1. QueryMatch(req[t].asked[i], queries[t][i])
    BY DEF ThreadMatch
  <2>2. CASE i = pos[t]
    BY <1>2, <2>1, <2>2 DEF QueryMatch
  <2>3. CASE i # pos[t]
    BY <1>2, <2>1, <2>3 DEF QueryMatch
  <2> QED  BY <2>2, <2>3
<1> QED  BY <1>2, <1>3

LEMMA MatchNext ==
    ASSUME TypeOK, AtWork, Match, [Next]_vars
    PROVE  Match'
<1>1. ASSUME NEW t \in Threads, realRequestHandler(t) \/ Step(t),
             CacheMatch', ThreadMatch(t)'
      PROVE  Match'
  <2>1. ASSUME NEW u \in Threads, u # t PROVE ThreadMatch(u)'
    BY <1>1, <2>1, OthersSame, SameMatch DEF Match
  <2> QED  BY <1>1, <2>1 DEF Match
<1>2. ASSUME NEW t \in Threads, Throw(t), Step(t) PROVE Match'
  <2>1. CacheMatch'
    BY <1>2 DEF Throw, Match, CacheMatch
  <2>2. queries'[t] = <<>> /\ pc'[t] = "error"
    BY <1>2 DEF Throw, TypeOK
  <2>3. ThreadMatch(t)'
    BY <2>2 DEF ThreadMatch, Answered
  <2> QED  BY <1>1, <1>2, <2>1, <2>3
<1>3. ASSUME NEW t \in Threads, realRequestHandler(t) PROVE Match'
  <2>1. CacheMatch'
    BY <1>3 DEF realRequestHandler, Match, CacheMatch
  <2>2. queries'[t] = <<>> /\ pc'[t] = "next"
    BY <1>3 DEF realRequestHandler, TypeOK
  <2>3. ThreadMatch(t)'
    BY <2>2 DEF ThreadMatch, Answered
  <2> QED  BY <1>1, <1>3, <2>1, <2>3
<1>4. ASSUME NEW t \in Threads, NextQuery(t) PROVE Match'
  <2>1. CacheMatch' /\ UNCHANGED <<req, queries>>
    BY <1>4 DEF NextQuery, Match, CacheMatch
  <2>2. req[t].asked \in Seq(Ids) /\ queries[t] \in Seq(Queries)
    BY DEF TypeOK, Requests
  <2>3. CASE Len(queries[t]) < Len(req[t].asked) /\ pc'[t] = "lookup"
    <3>1. query_id'[t] = req[t].asked[Len(queries[t]) + 1]
      BY <1>4, <2>3 DEF NextQuery, TypeOK
    <3>2. query_id'[t] \in Ids
      BY <2>2, <2>3, <3>1
    <3>3. Leads(query_id'[t], query_id'[t])
      BY <3>2, LeadsSelf
    <3> QED  BY <1>1, <1>4, <2>1, <2>3, <3>1, <3>3 DEF Match, ThreadMatch, Answered, Step
  <2>4. CASE Len(queries[t]) = Len(req[t].asked) /\ pc'[t] = "find"
    <3>1. ThreadMatch(t)'
      BY <2>1, <2>4 DEF Match, ThreadMatch, Answered
    <3> QED  BY <1>1, <1>4, <2>1, <3>1 DEF Step
  <2> QED  BY <1>4, <2>3, <2>4 DEF NextQuery, TypeOK
<1>5. ASSUME NEW t \in Threads, get_handler_by_name(t) \/ KeySource(t), ~Throw(t) PROVE Match'
  <2>1. CacheMatch' /\ UNCHANGED <<req, queries, query_id>>
    BY <1>5 DEF get_handler_by_name, KeySource, Match, CacheMatch
  <2>2. pc[t] \in {"lookup", "params"} /\ pc'[t] \in {"params", "qualify"}
    BY <1>5 DEF get_handler_by_name, KeySource, TypeOK
  <2>3. ThreadMatch(t)'
    BY <2>1, <2>2 DEF Match, ThreadMatch, Answered
  <2> QED  BY <1>1, <1>5, <2>1, <2>3 DEF Step
<1>6. ASSUME NEW t \in Threads, redirect(t), ~Throw(t) PROVE Match'
  <2>1. CacheMatch' /\ UNCHANGED <<req, queries>> /\ pc[t] = "params" /\ pc'[t] = "lookup"
    BY <1>6 DEF redirect, Match, CacheMatch, TypeOK
  <2>2. query_id[t] \in Ids
    BY <2>1 DEF AtWork
  <2>3. PICK to \in Redirects[query_id[t]] : to # NoId /\ query_id'[t] = to
    BY <1>6 DEF redirect, RedirectValid, TypeOK
  <2>4. to \in Ids
    BY <2>2, <2>3, RedirectsAssumption
  <2>5. Leads(req[t].asked[Len(queries[t]) + 1], to)
    BY <2>1, <2>4, LeadsOn DEF Match, ThreadMatch
  <2>6. ThreadMatch(t)'
    BY <2>1, <2>3, <2>5 DEF Match, ThreadMatch, Answered
  <2> QED  BY <1>1, <1>6, <2>1, <2>6 DEF Step
<1>7. ASSUME NEW t \in Threads, Qualify(t) PROVE Match'
  <2> DEFINE q == [id |-> query_id[t], rev |-> handler[t],
             key |-> cache_key(query_id[t], key_source[t], get_cache_key_qualifier(query_id[t])),
             response |-> NoResponse]
  <2>1. /\ queries[t] \in Seq(Queries) /\ queries'[t] = Append(queries[t], q)
        /\ UNCHANGED <<req, query_cache>> /\ pc[t] = "qualify" /\ pc'[t] = "next"
    BY <1>7 DEF Qualify, TypeOK
  <2>2. q \in Queries
    BY <1>7 DEF Qualify, TypeOK, AtWork, Queries, Keys, cache_key, get_cache_key_qualifier
  <2>3. QueryMatch(req[t].asked[Len(queries[t]) + 1], q)
    BY <2>1 DEF Match, ThreadMatch, QueryMatch, Proper, cache_key
  <2>4. /\ Len(queries'[t]) = Len(queries[t]) + 1
        /\ \A j \in 1 .. Len(queries[t]) : queries'[t][j] = queries[t][j]
        /\ queries'[t][Len(queries[t]) + 1] = q
    BY <2>1, <2>2, AddQuery
  <2>5. ASSUME NEW j \in 1 .. Len(queries'[t])
        PROVE  QueryMatch(req[t].asked[j], queries'[t][j])
    <3>1. CASE j \in 1 .. Len(queries[t])
      BY <2>4, <3>1 DEF Match, ThreadMatch
    <3>2. CASE j = Len(queries[t]) + 1
      BY <2>3, <2>4, <3>2
    <3> QED  BY <2>1, <2>4, <3>1, <3>2
  <2>6. ThreadMatch(t)'
    BY <2>1, <2>5 DEF ThreadMatch, Answered
  <2>7. CacheMatch'
    BY <2>1 DEF Match, CacheMatch
  <2> QED  BY <1>1, <1>7, <2>6, <2>7 DEF Step
<1>8. ASSUME NEW t \in Threads, get_cached_responses(t) PROVE Match'
  <2>1. UNCHANGED <<req, query_cache>> /\ CacheMatch' /\ pc[t] = "find"
    BY <1>8 DEF get_cached_responses, Match, CacheMatch
  <2>2. CASE UNCHANGED queries
    <3>1. pc'[t] = "find" \/ (pc'[t] = "collect" /\ pos'[t] = 1)
      BY <1>8 DEF get_cached_responses, TypeOK
    <3>2. ThreadMatch(t)'
      BY <2>1, <2>2, <3>1 DEF Match, ThreadMatch, Answered
    <3> QED  BY <1>1, <1>8, <2>1, <3>2 DEF Step
  <2>3. CASE ~UNCHANGED queries
    <3>1. PICK r \in find(queries[t][pos[t]].key) :
            queries' = [queries EXCEPT ![t][pos[t]].response = r]
      BY <1>8, <2>3 DEF get_cached_responses
    <3>2. pos[t] \in 1 .. Len(queries[t]) /\ pc'[t] = "find"
      BY <1>8, <2>3 DEF get_cached_responses, TypeOK
    <3>3. r \in Responses /\ r.id = queries[t][pos[t]].key.id
      BY DEF find, TypeOK, Match, CacheMatch
    <3>4. r.id = queries[t][pos[t]].id
      BY <3>2, <3>3 DEF Match, ThreadMatch, QueryMatch
    <3>5. queries'[t] = [queries[t] EXCEPT ![pos[t]].response = r]
      BY <3>1 DEF TypeOK
    <3>6. /\ Len(queries'[t]) = Len(queries[t])
          /\ \A i \in 1 .. Len(queries[t]) : QueryMatch(req'[t].asked[i], queries'[t][i])
      BY <2>1, <3>2, <3>3, <3>4, <3>5, AnsweredMatch DEF Match
    <3>7. ThreadMatch(t)'
      BY <2>1, <3>2, <3>6 DEF Match, ThreadMatch, Answered
    <3> QED  BY <1>1, <1>8, <2>1, <3>7 DEF Step
  <2> QED  BY <2>2, <2>3
<1>9. ASSUME NEW t \in Threads, TakeCached(t) PROVE Match'
  <2>1. /\ UNCHANGED <<req, query_cache, queries, pc>> /\ pc[t] = "collect"
        /\ pos[t] \in Nat /\ pos'[t] = pos[t] + 1 /\ queries[t][pos[t]].response # NoResponse
    BY <1>9 DEF TakeCached, TypeOK
  <2>2. ThreadMatch(t)'
    BY <2>1 DEF Match, ThreadMatch, Answered
  <2>3. CacheMatch'
    BY <2>1 DEF Match, CacheMatch
  <2> QED  BY <1>1, <1>9, <2>2, <2>3 DEF Step
<1>10. ASSUME NEW t \in Threads, Execute(t) PROVE Match'
  <2>1. /\ UNCHANGED <<req, query_cache, queries, pos>> /\ pc[t] = "collect" /\ pc'[t] = "insert"
        /\ result'[t] = Answer(t)
    BY <1>10 DEF Execute, TypeOK
  <2>2. result'[t].id = queries[t][pos[t]].id
    BY <2>1 DEF Answer
  <2>3. ThreadMatch(t)'
    BY <2>1, <2>2 DEF Match, ThreadMatch, Answered
  <2>4. CacheMatch'
    BY <2>1 DEF Match, CacheMatch
  <2> QED  BY <1>1, <1>10, <2>3, <2>4 DEF Step
<1>11. ASSUME NEW t \in Threads, ExecuteThrows(t), ~Throw(t) PROVE Match'
  <2>1. /\ UNCHANGED <<req, query_cache, pc>> /\ pc[t] = "collect"
        /\ pos[t] \in 1 .. Len(queries[t]) /\ pos'[t] = pos[t] + 1
        /\ queries'[t] = [queries[t] EXCEPT ![pos[t]].response = ErrorResponse]
    <3>1. /\ UNCHANGED <<req, query_cache, pc>> /\ pc[t] = "collect" /\ pos[t] <= Len(queries[t])
          /\ queries' = [queries EXCEPT ![t][pos[t]].response = ErrorResponse]
          /\ pos' = [pos EXCEPT ![t] = @ + 1]
      BY <1>11 DEF ExecuteThrows
    <3>2. pos[t] \in 1 .. Len(queries[t]) /\ pos'[t] = pos[t] + 1
      BY <3>1 DEF TypeOK
    <3>3. queries'[t] = [queries[t] EXCEPT ![pos[t]].response = ErrorResponse]
      BY <3>1 DEF TypeOK
    <3> QED  BY <3>1, <3>2, <3>3
  <2>2. ErrorResponse \in Responses \cup {NoResponse, ErrorResponse} /\ ~Proper(ErrorResponse)
    BY DEF Proper
  <2>3. /\ Len(queries'[t]) = Len(queries[t])
        /\ \A i \in 1 .. Len(queries[t]) :
             /\ QueryMatch(req'[t].asked[i], queries'[t][i])
             /\ queries'[t][i].response = IF i = pos[t] THEN ErrorResponse
                                          ELSE queries[t][i].response
    BY <2>1, <2>2, AnsweredMatch DEF Match
  <2>4. \A i \in 1 .. Len(queries[t]) : i < pos'[t] => queries'[t][i].response # NoResponse
    <3>1. \A i \in 1 .. Len(queries[t]) : i < pos'[t] => i = pos[t] \/ i < pos[t]
      BY <2>1
    <3> QED  BY <2>1, <2>3, <3>1, ResponseAssumption DEF Match, ThreadMatch
  <2>5. ThreadMatch(t)'
    BY <2>1, <2>3, <2>4 DEF Match, ThreadMatch, Answered
  <2>6. CacheMatch'
    BY <2>1 DEF Match, CacheMatch
  <2> QED  BY <1>1, <1>11, <2>5, <2>6 DEF Step
<1>12. ASSUME NEW t \in Threads, Insert(t) PROVE Match'
  <2>1. /\ UNCHANGED req /\ pc[t] = "insert" /\ pc'[t] = "collect" /\ pos'[t] = pos[t] + 1
        /\ queries'[t] = [queries[t] EXCEPT ![pos[t]].response = result[t]]
    BY <1>12 DEF Insert, TypeOK
  <2>2. /\ pos[t] \in 1 .. Len(queries[t]) /\ result[t] \in Responses
        /\ result[t].id = queries[t][pos[t]].id
        /\ queries[t][pos[t]].key.id = queries[t][pos[t]].id
    BY <2>1 DEF AtWork, Match, ThreadMatch, QueryMatch
  <2>3. /\ Len(queries'[t]) = Len(queries[t])
        /\ \A i \in 1 .. Len(queries[t]) :
             /\ QueryMatch(req'[t].asked[i], queries'[t][i])
             /\ queries'[t][i].response = IF i = pos[t] THEN result[t]
                                          ELSE queries[t][i].response
    BY <2>1, <2>2, AnsweredMatch DEF Match
  <2>4. \A i \in 1 .. Len(queries[t]) : i < pos'[t] => queries'[t][i].response # NoResponse
    <3>1. \A i \in 1 .. Len(queries[t]) : i < pos'[t] => i = pos[t] \/ i < pos[t]
      BY <2>1, <2>2
    <3> QED  BY <2>1, <2>2, <2>3, <3>1, ResponseAssumption DEF Match, ThreadMatch
  <2>5. ThreadMatch(t)'
    BY <2>1, <2>3, <2>4 DEF Match, ThreadMatch, Answered
  <2>6. query_cache' \subseteq query_cache \cup
            {[key |-> queries[t][pos[t]].key, response |-> result[t]]}
    BY <1>12, InsertAdds DEF Insert
  <2>7. CacheMatch'
    BY <2>2, <2>6 DEF Match, CacheMatch
  <2> QED  BY <1>1, <1>12, <2>5, <2>7 DEF Step
<1>13. ASSUME NEW t \in Threads, execute(t), ~Throw(t) PROVE Match'
  <2>1. /\ UNCHANGED <<req, query_cache, queries>> /\ pc[t] = "collect" /\ pc'[t] \in Answered
        /\ pos[t] > Len(queries[t]) /\ pos[t] \in Nat /\ queries[t] \in Seq(Queries)
    BY <1>13 DEF execute, TypeOK, Answered
  <2>2. ThreadMatch(t)'
    BY <2>1 DEF Match, ThreadMatch, Answered
  <2>3. CacheMatch'
    BY <2>1 DEF Match, CacheMatch
  <2> QED  BY <1>1, <1>13, <2>2, <2>3 DEF Step
<1>14. ASSUME \/ UNCHANGED vars
              \/ \E i \in Edited : Modify(i)
              \/ \E s \in Sources : NewData(s)
       PROVE  Match'
  <2>1. UNCHANGED query_cache /\ \A u \in Threads : Same(u)
    BY <1>14 DEF Modify, NewData, vars, create, Same
  <2> QED  BY <2>1, SameMatch DEF Match, CacheMatch
<1>15. ASSUME NEW t \in Threads, ParamsRefused(t) \/ FormatRefused(t) PROVE Match'
  BY <1>15, <1>2 DEF ParamsRefused, FormatRefused, Step
<1> QED
  BY <1>2, <1>3, <1>4, <1>5, <1>6, <1>7, <1>8, <1>9, <1>10, <1>11, <1>12, <1>13, <1>14, <1>15
     DEF Next, Step

LEMMA MatchInit == Init => Match
BY DEF Init, Match, CacheMatch, ThreadMatch, Answered

\* What a request knows when it is answered is what AnswersMatch says.
LEMMA MatchAnswers == TypeOK /\ Match => AnswersMatch
BY DEF Match, ThreadMatch, QueryMatch, Proper, AnswersMatch, Answered

\* Every answered request has one answer for each stored query it asked, in
\* the order asked, and each is the response to the query its redirects lead
\* to, or the error of that query, whatever the other threads put in the
\* shared cache meanwhile (GetFeature::get_cached_responses).
THEOREM AnswersAlwaysMatch == Spec => []AnswersMatch
<1>1. TypeOK /\ AtWork /\ Match /\ [Next]_vars => Match'
  BY TypeNext, MatchNext
<1> QED  BY TypeInit, MatchInit, TypeNext, <1>1, MatchAnswers, PTL DEF Spec

-----------------------------------------------------------------------------
(* The refinement: receiving, answering and refusing a request are steps   *)
(* of RequestService, the rest changes nothing that a client sees.         *)

Serving == {"next", "lookup", "params", "qualify", "find", "collect", "insert"}

\* What a client sees of a request in each of its stages.
LEMMA SeenOf ==
    /\ StateOf("idle") = "free" /\ StateOf("ok") = "good" /\ StateOf("bad_request") = "bad"
    /\ StateOf("error") = "refused"
    /\ \A p \in Serving : StateOf(p) = "serving"
    /\ \A p \in Serving \cup {"idle", "error"} : \A qs : AnswersOf(p, qs) = <<>>
BY DEF StateOf, AnswersOf, Serving, Answered

\* A step of one thread changes what is seen of that thread only.
LEMMA SeenStep ==
    ASSUME TypeOK, NEW t \in Threads, \A u \in Threads : u # t => Same(u)
    PROVE  /\ StateSeen' = [StateSeen EXCEPT ![t] = StateOf(pc'[t])]
           /\ AskedSeen' = [AskedSeen EXCEPT ![t] = req'[t].asked]
           /\ AnswersSeen' = [AnswersSeen EXCEPT ![t] = AnswersOf(pc'[t], queries'[t])]
BY DEF StateSeen, AskedSeen, AnswersSeen, Same

\* A step within a request is not seen.
LEMMA QuietSeen ==
    ASSUME TypeOK, NEW t \in Threads, \A u \in Threads : u # t => Same(u),
           pc[t] \in Serving, pc'[t] \in Serving, UNCHANGED req
    PROVE  UNCHANGED <<StateSeen, AskedSeen, AnswersSeen>>
<1>1. ASSUME NEW u \in Threads
      PROVE  /\ StateOf(pc'[u]) = StateOf(pc[u]) /\ req'[u].asked = req[u].asked
             /\ AnswersOf(pc'[u], queries'[u]) = AnswersOf(pc[u], queries[u])
  <2>1. CASE u = t
    BY <2>1, SeenOf
  <2>2. CASE u # t
    BY <2>2 DEF Same
  <2> QED  BY <2>1, <2>2
<1> QED  BY <1>1 DEF StateSeen, AskedSeen, AnswersSeen

\* An exception refuses the request that is served.
LEMMA ThrowSeen ==
    ASSUME TypeOK, NEW t \in Threads, \A u \in Threads : u # t => Same(u),
           pc[t] \in Serving, Throw(t)
    PROVE  Service!Refuse(t)
<1>1. pc'[t] = "error" /\ UNCHANGED req
  BY DEF Throw, TypeOK
<1>2. StateSeen[t] = "serving" /\ StateSeen' = [StateSeen EXCEPT ![t] = "refused"]
  BY <1>1, SeenStep, SeenOf DEF StateSeen
<1>3. ASSUME NEW u \in Threads
      PROVE  AnswersOf(pc'[u], queries'[u]) = AnswersOf(pc[u], queries[u])
  <2>1. CASE u = t
    BY <1>1, <2>1, SeenOf
  <2>2. CASE u # t
    BY <2>2 DEF Same
  <2> QED  BY <2>1, <2>2
<1>4. UNCHANGED <<AskedSeen, AnswersSeen>>
  BY <1>1, <1>3 DEF AskedSeen, AnswersSeen
<1> QED  BY <1>2, <1>4 DEF Service!Refuse

\* A new request is received when the last one of the thread has ended.
LEMMA RequestSeen ==
    ASSUME TypeOK, NEW t \in Threads, realRequestHandler(t)
    PROVE  Service!Receive(t)
<1>1. \A u \in Threads : u # t => Same(u)
  BY OthersSame
<1>2. pc[t] \in {"idle", "ok", "bad_request", "error"} /\ pc'[t] = "next"
  BY DEF realRequestHandler, TypeOK
<1>3. PICK ask \in Asks : req'[t].asked = ask.asked
  BY DEF realRequestHandler, TypeOK
<1>4. StateSeen[t] # "serving"
  BY <1>2, SeenOf DEF StateSeen
<1>5. "next" \in Serving
  BY DEF Serving
<1>6. StateSeen' = [StateSeen EXCEPT ![t] = "serving"]
  BY <1>1, <1>2, <1>5, SeenStep, SeenOf
<1>7. AnswersSeen' = [AnswersSeen EXCEPT ![t] = <<>>]
  BY <1>1, <1>2, <1>5, SeenStep, SeenOf
<1>8. \E q \in {a.asked : a \in Asks} : AskedSeen' = [AskedSeen EXCEPT ![t] = q]
  BY <1>1, <1>3, SeenStep
<1> QED  BY <1>4, <1>6, <1>7, <1>8 DEF Service!Receive

\* The end of execute answers each query asked.
LEMMA ExecuteSeen ==
    ASSUME TypeOK, TypeOK', Match', NEW t \in Threads, execute(t), ~Throw(t)
    PROVE  Service!Reply(t)
<1> DEFINE a == AnswersOf(pc'[t], queries[t])
<1>1. \A u \in Threads : u # t => Same(u)
  BY OthersSame DEF Step
<1>2. /\ pc[t] \in Serving /\ UNCHANGED <<req, queries>>
      /\ pc'[t] = IF queries[t] = <<>> \/ some_succeeded(t) THEN "ok" ELSE "bad_request"
  BY DEF execute, TypeOK, Serving
<1>3. pc'[t] \in Answered
  BY <1>2 DEF Answered
<1>4. /\ queries[t] \in Seq(Queries) /\ req[t].asked \in Seq(Ids)
      /\ Len(queries[t]) = Len(req[t].asked)
  BY <1>2, <1>3 DEF TypeOK, Requests, Match, ThreadMatch
<1>5. /\ DOMAIN a = 1 .. Len(queries[t])
      /\ \A i \in 1 .. Len(queries[t]) :
            a[i] = IF queries[t][i].response = ErrorResponse THEN ErrorResponse
                   ELSE queries[t][i].response.id
      /\ a = [i \in 1 .. Len(queries[t]) |-> a[i]]
  BY <1>3 DEF AnswersOf
<1>6. ASSUME NEW i \in 1 .. Len(queries[t])
      PROVE  /\ a[i] \in Ids \cup {ErrorResponse}
             /\ a[i] # ErrorResponse <=> queries[t][i].response # ErrorResponse
             /\ a[i] # ErrorResponse => Leads(req[t].asked[i], a[i])
  <2>1. queries[t][i] \in Queries
    BY <1>4
  <2>2. /\ QueryMatch(req[t].asked[i], queries[t][i])
        /\ queries[t][i].response # NoResponse
    BY <1>2, <1>3 DEF Match, ThreadMatch
  <2>3. CASE queries[t][i].response = ErrorResponse
    BY <1>5, <2>3
  <2>4. CASE queries[t][i].response # ErrorResponse
    <3>1. queries[t][i].response \in Responses
      BY <2>1, <2>2, <2>4 DEF Queries
    <3>2. a[i] = queries[t][i].id /\ a[i] \in Ids
      BY <1>5, <2>2, <2>4, <3>1 DEF QueryMatch, Proper, Responses
    <3> QED  BY <2>2, <2>4, <3>2, ResponseAssumption DEF QueryMatch
  <2> QED  BY <2>3, <2>4
<1>7. a \in [DOMAIN req[t].asked -> Ids \cup {ErrorResponse}]
  <2>1. DOMAIN req[t].asked = 1 .. Len(queries[t])
    BY <1>4
  <2> HIDE DEF a
  <2> QED  BY <1>5, <1>6, <2>1
<1>8. AnswersSeen' = [AnswersSeen EXCEPT ![t] = a]
  BY <1>1, <1>2, SeenStep
<1>9. \A i \in DOMAIN a : a[i] # ErrorResponse => Leads(req[t].asked[i], a[i])
  BY <1>5, <1>6
<1>10. pc'[t] = "ok" <=> a = <<>> \/ \E i \in DOMAIN a : a[i] # ErrorResponse
  <2>1. a = <<>> <=> queries[t] = <<>>
    <3>1. queries[t] = <<>> <=> Len(queries[t]) = 0
      BY <1>4
    <3>2. a = <<>> <=> Len(queries[t]) = 0
      BY <1>4, <1>5
    <3> QED  BY <3>1, <3>2
  <2>2. some_succeeded(t) <=> \E i \in DOMAIN a : a[i] # ErrorResponse
    BY <1>5, <1>6 DEF some_succeeded
  <2> QED  BY <1>2, <2>1, <2>2
<1>11. StateSeen[t] = "serving" /\ UNCHANGED AskedSeen
  BY <1>2, SeenOf DEF StateSeen, AskedSeen
<1>12. AskedSeen[t] = req[t].asked
  BY DEF AskedSeen
<1>13. CASE pc'[t] = "ok"
  <2>1. StateSeen' = [StateSeen EXCEPT ![t] = "good"]
    BY <1>1, <1>13, SeenStep, SeenOf
  <2> HIDE DEF a
  <2> QED  BY <1>7, <1>8, <1>9, <1>10, <1>11, <1>12, <1>13, <2>1 DEF Service!Reply
<1>14. CASE pc'[t] = "bad_request"
  <2>1. StateSeen' = [StateSeen EXCEPT ![t] = "bad"]
    BY <1>1, <1>14, SeenStep, SeenOf
  <2> HIDE DEF a
  <2> QED  BY <1>7, <1>8, <1>9, <1>10, <1>11, <1>12, <1>14, <2>1 DEF Service!Reply
<1> QED  BY <1>2, <1>13, <1>14

\* To its clients the plugin is the request service of RequestService:
\* realRequestHandler receives a request, the end of execute answers it, an
\* exception refuses it, and no other step of any thread, edit or model run
\* is seen.
THEOREM Implements == Spec => ImplementsService
<1>1. Init => Service!Init
  BY SeenOf DEF Init, Service!Init, StateSeen, AskedSeen, AnswersSeen
<1>2. TypeOK /\ TypeOK' /\ Match' /\ [Next]_vars => [Service!Next]_(Service!vars)
  <2> SUFFICES ASSUME TypeOK, TypeOK', Match', [Next]_vars
               PROVE  Service!Next \/ UNCHANGED <<StateSeen, AskedSeen, AnswersSeen>>
    BY DEF Service!vars
  <2>1. ASSUME NEW t \in Threads, realRequestHandler(t) PROVE Service!Next
    BY <2>1, RequestSeen DEF Service!Next
  <2>2. ASSUME NEW t \in Threads, Step(t), pc[t] \in Serving, Throw(t) PROVE Service!Next
    BY <2>2, OthersSame, ThrowSeen DEF Service!Next
  <2>3. ASSUME NEW t \in Threads, execute(t), ~Throw(t) PROVE Service!Next
    BY <2>3, ExecuteSeen DEF Service!Next
  <2>4. ASSUME NEW t \in Threads, Step(t), ~execute(t), ~Throw(t)
        PROVE  UNCHANGED <<StateSeen, AskedSeen, AnswersSeen>>
    <3>1. pc[t] \in Serving
      BY <2>4 DEF Step, NextQuery, get_handler_by_name, ParamsRefused, redirect, KeySource, Qualify,
         get_cached_responses, FormatRefused, TakeCached, Execute, ExecuteThrows, Insert, Serving
    <3>2. pc'[t] \in Serving
      BY <2>4 DEF Step, NextQuery, get_handler_by_name, ParamsRefused, redirect, KeySource, Qualify,
         get_cached_responses, FormatRefused, TakeCached, Execute, ExecuteThrows, Insert, Serving,
         TypeOK
    <3>3. UNCHANGED req
      BY <2>4 DEF Step, NextQuery, get_handler_by_name, ParamsRefused, redirect, KeySource, Qualify,
         get_cached_responses, FormatRefused, TakeCached, Execute, ExecuteThrows, Insert
    <3> QED  BY <2>4, <3>1, <3>2, <3>3, OthersSame, QuietSeen
  <2>5. ASSUME \/ UNCHANGED vars
               \/ \E i \in Edited : Modify(i)
               \/ \E s \in Sources : NewData(s)
        PROVE  UNCHANGED <<StateSeen, AskedSeen, AnswersSeen>>
    BY <2>5 DEF Modify, NewData, vars, StateSeen, AskedSeen, AnswersSeen
  <2>6. ASSUME NEW t \in Threads, Step(t), Throw(t) PROVE pc[t] \in Serving
    BY <2>6 DEF Step, NextQuery, get_handler_by_name, ParamsRefused, redirect, KeySource, Qualify,
       get_cached_responses, FormatRefused, TakeCached, Execute, ExecuteThrows, Insert, execute, Serving
  <2> QED  BY <2>1, <2>2, <2>3, <2>4, <2>5, <2>6 DEF Next
<1>3. TypeOK /\ AtWork /\ Match /\ [Next]_vars => Match'
  BY TypeNext, MatchNext
<1> QED  BY <1>1, <1>2, <1>3, TypeInit, TypeNext, MatchInit, PTL DEF Spec, ImplementsService, Service!Spec
=============================================================================
