----------------------------- MODULE Responses -----------------------------
(***************************************************************************)
(* A GetFeature or GetPropertyValue request from its queries to the page   *)
(* it returns: ad hoc queries are created (AdHocResponses says how, from   *)
(* type names and a filter), stored queries are taken as they are, the     *)
(* handlers answer (or fail) and the members of the answers are counted    *)
(* and cut to the page.                                                    *)
(***************************************************************************)
EXTENDS Paging, SequencesExt

CONSTANTS
    KvpRequests,        \* ad hoc requests by KVP
    XmlRequests,        \* ad hoc requests by XML
    create_from_kvp(_), \* the queries of a request: AdHocQuery::create_from_kvp
    create_from_xml(_), \* and create_from_xml, as AdHocResponses defines them
    StoredCounts,       \* numbers of stored queries in a request
    Presentations,      \* presentation parameters
    Bodies,             \* what a query may be answered with: numbers of values per member,
                        \* and the number of members the handler rendered
    MaxQueries          \* bound: more queries are created but not executed

\* The queries are a std::vector.
IsVector(v) == Len(v) \in Nat /\ DOMAIN v = 1 .. Len(v)

ASSUME CreatedAssumption ==
    /\ \A r \in KvpRequests : create_from_kvp(r).ok => IsVector(create_from_kvp(r).val)
    /\ \A r \in XmlRequests : create_from_xml(r).ok => IsVector(create_from_xml(r).val)
    /\ StoredCounts \subseteq Nat

\* startIndex and count are unsigned integers.
ASSUME PresentationsAssumption ==
    \A p \in Presentations :
        /\ p.start_index \in 0 .. 2 ^ IntBits - 1 /\ p.count \in 0 .. 2 ^ IntBits - 1
        /\ p.hits \in BOOLEAN /\ p.have_counts \in BOOLEAN

ASSUME BodiesAssumption == Bodies \subseteq [failed : BOOLEAN, members : Seq(Nat), matched : Nat]

VARIABLES
    phase,      \* "new", "created", "refused", "answered", "paged"
    request,    \* the request in hand
    queries,    \* its queries
    responses,  \* the answers, in the order of the queries
    spp,        \* the presentation parameters
    result      \* the outcome of the last call
vars == <<phase, request, queries, responses, spp, result>>

NoRequest == [form |-> "none"]
NoPage == [output_format |-> "default", start_index |-> 0, count |-> 0, hits |-> FALSE, have_counts |-> FALSE]

Init ==
    /\ phase = "new" /\ request = NoRequest /\ queries = <<>> /\ responses = <<>>
    /\ spp = NoPage /\ result = Ok(0)

Create(form, r, out) ==
    /\ phase = "new"
    /\ request' = [form |-> form, r |-> r]
    /\ queries' = IF out.ok THEN out.val ELSE <<>>
    /\ result' = IF out.ok THEN Ok(0) ELSE out
    /\ phase' = IF out.ok THEN "created" ELSE "refused"
    /\ UNCHANGED <<responses, spp>>

CreateKvp == \E r \in KvpRequests : Create("kvp", r, create_from_kvp(r))
CreateXml == \E r \in XmlRequests : Create("xml", r, create_from_xml(r))
CreateStored ==
    \E n \in StoredCounts : Create("stored", n, Ok([i \in 1 .. n |-> [id |-> i, filter |-> <<>>]]))

\* QueryBase::execute of every query (see GetFeature for the cache).  Only a
\* filter makes the members fewer than the handler has counted.
Answer ==
    /\ phase = "created" /\ Len(queries) \in 1 .. MaxQueries
    /\ \E bs \in [DOMAIN queries -> Bodies] :
           /\ \A i \in DOMAIN queries : queries[i].filter = <<>> => bs[i].matched = Len(bs[i].members)
           /\ responses' = [i \in DOMAIN queries |->
                            [failed |-> bs[i].failed, matched |-> bs[i].matched,
                             members |-> [j \in DOMAIN bs[i].members |-> <<i, j>>],
                             values |-> bs[i].members]]
    /\ phase' = "answered"
    /\ UNCHANGED <<request, queries, spp, result>>

\* The values of a member, for the XPath expression of GetPropertyValue.
Values(i, j) == [k \in 1 .. responses[i].values[j] |-> <<i, j, k>>]

\* filter and the XPath expression: every member on its own, or all at once.
Parts ==
    [i \in DOMAIN responses |->
        LET each == [j \in DOMAIN responses[i].members |-> Values(i, j)]
        IN  IF queries[i].filter # <<>> THEN each ELSE <<FlattenSeq(each)>>]

Page(p, out) ==
    /\ phase = "answered" /\ spp' = p /\ result' = out /\ phase' = "paged"
    /\ UNCHANGED <<request, queries, responses>>

\* collect_query_responses throws for a single query that fails.
Features(p) ==
    IF Len(queries) # 1 THEN execute_multiple_queries(p, responses)
    ELSE IF responses[1].failed THEN NoCode
    ELSE execute_single_query(p, responses[1], request.form # "stored")

PropertyValues(p) ==
    IF \E i \in DOMAIN responses : responses[i].failed THEN NoCode
    ELSE GetPropertyValue_execute(p, Parts)

ExecuteGetFeature == \E p \in Presentations : Page(p, Features(p))
ExecuteGetPropertyValue == \E p \in Presentations : Page(p, PropertyValues(p))

Again ==
    /\ phase \in {"refused", "paged"} \/ (phase = "created" /\ Len(queries) \notin 1 .. MaxQueries)
    /\ phase' = "new" /\ request' = NoRequest /\ queries' = <<>> /\ responses' = <<>>
    /\ spp' = NoPage /\ result' = Ok(0)

Next == CreateKvp \/ CreateXml \/ CreateStored \/ Answer \/ ExecuteGetFeature \/ ExecuteGetPropertyValue \/ Again

Spec == Init /\ [][Next]_vars
-----------------------------------------------------------------------------
(* What the page is, in terms of all members *)

\* An int, as execute_single_query and GetPropertyValue keep the numbers.
FitsInt(p) == p.count < 2 ^ (IntBits - 1) /\ p.start_index + p.count <= 2 ^ (IntBits - 1)
Paged(n) == phase = "paged" /\ result.ok /\ ~spp.hits /\ spp.have_counts /\ Len(queries) \in n
OfGetFeature == "past" \notin DOMAIN result.val
Everything == FlattenSeq([i \in DOMAIN responses |->
                             IF responses[i].failed THEN <<>> ELSE responses[i].members])
-----------------------------------------------------------------------------
(* Properties *)

\* Nothing is asked for: startIndex 0 and count 0.
NothingAsked(p) == p.start_index = 0 /\ p.count = 0

\* GetFeature returns members startIndex .. startIndex + count - 1 of all the
\* members in the order of the queries, however they are spread over the
\* responses (GetFeature.cpp:187 and :323).  Several queries count them all in
\* numberMatched; a single one counts what it returns in numberReturned and
\* leaves numberMatched as the handler wrote it, whatever the filter has left
\* (GetFeature.cpp:204).  Several queries asked for nothing from the start are
\* left out: their end index has wrapped (ZeroIsNothing).
PageIsTheSlice ==
    Paged(1 .. MaxQueries) /\ OfGetFeature /\ FitsInt(spp) /\ (Len(queries) # 1 => ~NothingAsked(spp)) =>
        LET out == result.val.members
            pages == IF Len(queries) = 1 THEN out
                     ELSE FlattenSeq([i \in DOMAIN responses |->
                                         IF responses[i].failed THEN <<>> ELSE out[i]])
        IN  /\ pages = SubSeq(Everything, spp.start_index + 1,
                              IF spp.start_index + spp.count < Len(Everything)
                              THEN spp.start_index + spp.count ELSE Len(Everything))
            /\ IF Len(queries) = 1
               THEN result.val.matched = responses[1].matched /\ result.val.returned = Len(pages)
               ELSE result.val.matched = Len(Everything)

\* A count of 0 returns no member.  It does not hold: for several queries
\* startIndex + count - 1 is the largest size_t, and every member is returned
\* (GetFeature.cpp:323).
ZeroIsNothing ==
    Paged(2 .. MaxQueries) /\ OfGetFeature /\ spp.count = 0 =>
        \A i \in DOMAIN result.val.members : ~responses[i].failed => result.val.members[i] = <<>>

\* numberMatched is the number of members there are.  It does not hold: a
\* single query keeps what the handler counted before the filter
\* (GetFeature.cpp:204).
MatchedAreCounted ==
    Paged(1 .. MaxQueries) /\ OfGetFeature => result.val.matched = Len(Everything)

\* GetPropertyValue without a start index returns the first count values over
\* all responses and members and reads no member that is not there, although
\* what is left of the page is carried from one response to the next
\* (GetPropertyValue.cpp:326 and :389).
ValuesFromTheStart ==
    phase = "paged" /\ result.ok /\ ~OfGetFeature /\ ~spp.hits /\ spp.start_index = 0 /\ FitsInt(spp) =>
        LET all == FlattenSeq([i \in DOMAIN responses |->
                       FlattenSeq([j \in DOMAIN responses[i].members |-> Values(i, j)])])
        IN  /\ ~result.val.past
            /\ result.val.matched = Len(all)
            /\ result.val.members =
                   SubSeq(all, 1, IF spp.have_counts /\ spp.count < Len(all) THEN spp.count ELSE Len(all))
=============================================================================
