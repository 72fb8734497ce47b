---------------------------- MODULE WfsRequests ----------------------------
(***************************************************************************)
(* The requests that describe the service: GetCapabilities,                *)
(* DescribeFeatureType, ListStoredQueries and DescribeStoredQueries, over  *)
(* the shared tables they read: the stored query handlers, which the       *)
(* directory monitor adds, replaces and removes at any time, and           *)
(* WfsCapabilities, which handlers register in while they are constructed. *)
(* A listing takes the names of the handlers first and then looks up one   *)
(* handler after the other, without a lock that spans the look-ups.        *)
(***************************************************************************)
EXTENDS Outcome, FiniteSets, SequencesExt

CONSTANTS
    HandlerIds,     \* stored query ids; numbers, for the order of names
    Features,       \* configured features, numbers for the order of names
    FeatureDefs,    \* [Features -> [type, ns, hidden]]
    HandlerConfigs, \* what a configuration file may say of a handler
    MaxLoads        \* bound on the changes of handlers

ASSUME IdsAssumption == HandlerIds \subseteq Nat /\ Features \subseteq Nat

ASSUME ConfigsAssumption == \A cfg \in HandlerConfigs : cfg.returns \in Seq(Nat)

VARIABLES
    handlers,   \* handler_map: id -> configuration of the handler
    caps,       \* WfsCapabilities: used_features and data_set_map
    job,        \* the request under way
    changed,    \* ids added, replaced or removed since the request began
    loads       \* number of changes so far

requests_vars == <<handlers, caps, job, changed, loads>>

\* A std::map or std::set is walked in the order of its keys: the n-th key has
\* n - 1 keys before it.
Sorted(S) ==
    [n \in 1 .. Cardinality(S) |-> CHOOSE x \in S : Cardinality({y \in S : y < x}) = n - 1]

NoJob == [kind |-> "none", show_all |-> FALSE, todo |-> <<>>, out |-> <<>>, state |-> "idle"]
-----------------------------------------------------------------------------
(* WfsCapabilities *)

\* What a loop of registrations leaves behind: it stops at the first item that
\* is refused, the items before it stay registered.
Registered(items, Refused(_)) ==
    LET accepted == {i \in DOMAIN items : \A j \in 1 .. i : ~Refused(items[j])}
    IN  [ok |-> accepted = DOMAIN items, new |-> {items[i] : i \in accepted}]

\* Mutant: only the first return type is registered.
register_feature_use_first(returns) ==
    [Registered(returns, LAMBDA f : f \notin Features) EXCEPT
        !.new = IF returns = <<>> THEN {} ELSE {returns[1]} \cap Features]

register_feature_use(returns) == Registered(returns, LAMBDA f : f \notin Features)

\* A code can be registered once; there is no way to take it back.
register_data_set(codes) == Registered(codes, LAMBDA c : c \in caps.datasets)

find_feature(name) == IF name \in Features THEN Ok(FeatureDefs[name]) ELSE NoCode
-----------------------------------------------------------------------------
(* Handlers *)

\* get_return_types: GetDataSetById and GetFeatureById return what any stored
\* query returns, hidden ones included.
get_return_types(cfg) ==
    IF cfg.any
    THEN Sorted(UNION {Range(handlers[id].returns) : id \in DOMAIN handlers})
    ELSE cfg.returns

\* The constructor of a handler registers its features, unless it is hidden,
\* and its data sets; only when both succeed does it enter the map.
add_handler(id, cfg) ==
    LET use == register_feature_use(IF cfg.hidden THEN <<>> ELSE cfg.returns)
        sets == register_data_set(IF use.ok THEN cfg.datasets ELSE <<>>)
        ok == use.ok /\ sets.ok
    IN  /\ loads < MaxLoads
        /\ loads' = loads + 1
        /\ caps' = [used |-> caps.used \cup use.new, datasets |-> caps.datasets \cup sets.new]
        /\ handlers' = IF ok THEN [i \in DOMAIN handlers \cup {id} |->
                                      IF i = id THEN cfg ELSE handlers[i]]
                       ELSE handlers
        /\ changed' = IF ok THEN changed \cup {id} ELSE changed
        /\ UNCHANGED job

remove_handler(id) ==
    /\ loads < MaxLoads
    /\ id \in DOMAIN handlers
    /\ loads' = loads + 1
    /\ handlers' = [i \in DOMAIN handlers \ {id} |-> handlers[i]]
    /\ changed' = changed \cup {id}
    /\ UNCHANGED <<caps, job>>

get_handler_by_name(id) ==
    IF id \in DOMAIN handlers THEN Ok(handlers[id]) ELSE Fail("OperationParsingFailed")
-----------------------------------------------------------------------------
(* ListStoredQueries and DescribeStoredQueries *)

ListBegin ==
    /\ job.state = "idle"
    /\ job' = [NoJob EXCEPT !.kind = "List", !.todo = Sorted(DOMAIN handlers), !.state = "run"]
    /\ changed' = {}
    /\ UNCHANGED <<handlers, caps, loads>>

\* Without ids all are described, except those that are hidden or return a
\* hidden feature; an id that is asked for is described in any case.
DescribeBegin(ids) ==
    /\ job.state = "idle"
    /\ job' = [NoJob EXCEPT !.kind = "Describe", !.show_all = (ids = <<>>), !.state = "run",
                            !.todo = IF ids = <<>> THEN Sorted(DOMAIN handlers) ELSE ids]
    /\ changed' = {}
    /\ UNCHANGED <<handlers, caps, loads>>

\* Mutant: queries with two return types are left out.
list_entry_single(id) ==
    Then(get_handler_by_name(id), LAMBDA h :
        IF h.hidden \/ Len(get_return_types(h)) > 1 THEN Ok(<<>>)
        ELSE Ok(<< [id |-> id, types |-> <<>>] >>))

\* Mutant: a hidden feature counts as missing.
list_entry_hidden(id) ==
    Then(get_handler_by_name(id), LAMBDA h :
        LET returns == get_return_types(h)
        IN  IF h.hidden THEN Ok(<<>>)
            ELSE IF \E i \in DOMAIN returns : FeatureDefs[returns[i]].hidden THEN NoCode
            ELSE Ok(<< [id |-> id, types |-> <<>>] >>))

\* One turn of the loop of ListStoredQueries::execute.
list_entry(id) ==
    Then(get_handler_by_name(id), LAMBDA h :
        LET returns == get_return_types(h)
        IN  IF h.hidden THEN Ok(<<>>)
            ELSE Checked(<< <<\E i \in DOMAIN returns : ~find_feature(returns[i]).ok,
                              "OperationProcessingFailed">> >>,
                         Ok(<< [id |-> id,
                                types |-> [i \in DOMAIN returns |->
                                    <<FeatureDefs[returns[i]].ns, FeatureDefs[returns[i]].type>>]] >>)))

has_hidden_feature(returns) ==
    \E i \in DOMAIN returns : find_feature(returns[i]).ok /\ FeatureDefs[returns[i]].hidden

\* The name spaces of the return types, each once, in the order they are met;
\* the prefix of a name space is its number.
set_namespace_defs(returns) ==
    LET add(seq, f) == LET ns == FeatureDefs[f].ns
                       IN  IF ns \in Range(seq) THEN seq ELSE Append(seq, ns)
    IN  FoldLeft(add, <<>>, returns)

set_return_types(returns, defs) ==
    [i \in DOMAIN returns |->
        <<CHOOSE n \in DOMAIN defs : defs[n] = FeatureDefs[returns[i]].ns,
          FeatureDefs[returns[i]].type>>]

\* One turn of the loop of DescribeStoredQueries::execute.
describe_entry(id) ==
    Then(get_handler_by_name(id), LAMBDA h :
        LET returns == get_return_types(h)
            defs == set_namespace_defs(returns)
        IN  IF job.show_all /\ (h.hidden \/ has_hidden_feature(returns)) THEN Ok(<<>>)
            ELSE Checked(<< <<\E i \in DOMAIN returns : ~find_feature(returns[i]).ok,
                              "OperationProcessingFailed">> >>,
                         Ok(<< [id |-> id, defs |-> defs, returns |-> returns,
                                types |-> set_return_types(returns, defs)] >>)))

\* Mutant: a handler that is gone is waited for.
Step_waiting ==
    /\ job.state = "run" /\ job.todo # <<>>
    /\ LET r == IF job.kind = "List" THEN list_entry(Head(job.todo))
                ELSE describe_entry(Head(job.todo))
       IN  job' = IF r.ok THEN [job EXCEPT !.todo = Tail(@), !.out = @ \o r.val] ELSE job
    /\ UNCHANGED <<handlers, caps, changed, loads>>

Step ==
    /\ job.state = "run" /\ job.todo # <<>>
    /\ LET r == IF job.kind = "List" THEN list_entry(Head(job.todo))
                ELSE describe_entry(Head(job.todo))
       IN  job' = IF r.ok THEN [job EXCEPT !.todo = Tail(@), !.out = @ \o r.val]
                  ELSE [job EXCEPT !.state = "failed"]
    /\ UNCHANGED <<handlers, caps, changed, loads>>

\* The template is filled.
Finish ==
    /\ job.state = "run" /\ job.todo = <<>>
    /\ job' = [job EXCEPT !.state = "done"]
    /\ UNCHANGED <<handlers, caps, changed, loads>>
-----------------------------------------------------------------------------
(* GetCapabilities and DescribeFeatureType read one copy of each table *)

GetCapabilities ==
    /\ job.state = "idle"
    /\ job' = [NoJob EXCEPT !.kind = "Capabilities", !.state = "done",
                            !.out = Sorted({f \in caps.used : ~FeatureDefs[f].hidden})]
    /\ changed' = {}
    /\ UNCHANGED <<handlers, caps, loads>>

\* The first used feature of that type and name space, in the order of names.
add_type_namespace(ns, type) ==
    LET match == {f \in caps.used : FeatureDefs[f].type = type /\ ns \in {"*", FeatureDefs[f].ns}}
    IN  IF match = {} THEN Fail("OperationProcessingFailed")
        ELSE Ok(FeatureDefs[Sorted(match)[1]].ns)

\* Without type names the name spaces of all used features are described.
DescribeFeatureType(typenames) ==
    LET found == IF typenames = <<>>
                 THEN Ok([i \in DOMAIN Sorted(caps.used) |-> FeatureDefs[Sorted(caps.used)[i]].ns])
                 ELSE All([i \in DOMAIN typenames |->
                              add_type_namespace(typenames[i][1], typenames[i][2])])
    IN  /\ job.state = "idle"
        /\ job' = [NoJob EXCEPT !.kind = "Types", !.state = IF found.ok THEN "done" ELSE "failed",
                                !.todo = typenames,
                                !.out = IF found.ok THEN found.val ELSE <<>>]
        /\ changed' = {}
        /\ UNCHANGED <<handlers, caps, loads>>

\* The answer is sent.
Send ==
    /\ job.state \in {"done", "failed"}
    /\ job' = NoJob
    /\ changed' = {}
    /\ UNCHANGED <<handlers, caps, loads>>
-----------------------------------------------------------------------------
RequestsInit ==
    /\ handlers = <<>>
    /\ caps = [used |-> {}, datasets |-> {}]
    /\ job = NoJob
    /\ changed = {}
    /\ loads = 0

TypeNames == {<<>>} \cup {<< <<ns, FeatureDefs[f].type>> >> : ns \in {"*", "n1"}, f \in Features}

RequestsNext ==
    \/ \E id \in HandlerIds, cfg \in HandlerConfigs : add_handler(id, cfg)
    \/ \E id \in HandlerIds : remove_handler(id)
    \/ ListBegin
    \/ \E ids \in {<<>>} \cup {<<id>> : id \in HandlerIds} : DescribeBegin(ids)
    \/ Step
    \/ Finish
    \/ GetCapabilities
    \/ \E names \in TypeNames : DescribeFeatureType(names)
    \/ Send

RequestsSpec == RequestsInit /\ [][RequestsNext]_requests_vars /\ WF_requests_vars(Step \/ Finish)
-----------------------------------------------------------------------------
(* Properties *)

\* What a listing says of a stored query.
Entries ==
    [id : HandlerIds, types : Seq({<<FeatureDefs[f].ns, FeatureDefs[f].type>> : f \in Features})]

\* Types of the tables and of a listing under way.
RequestsTypeOK ==
    /\ DOMAIN handlers \subseteq HandlerIds
    /\ \A id \in DOMAIN handlers : handlers[id] \in HandlerConfigs
    /\ caps.used \subseteq Features
    /\ DOMAIN job = DOMAIN NoJob
    /\ job.kind \in {"none", "List", "Describe", "Capabilities", "Types"}
    /\ job.state \in {"idle", "run", "done", "failed"}
    /\ job.state = "run" => job.kind \in {"List", "Describe"}
    /\ job.kind = "List" => job.todo \in Seq(HandlerIds) /\ job.out \in Seq(Entries)
    /\ changed \subseteq HandlerIds /\ loads \in Nat

ListedIds == {job.out[i].id : i \in DOMAIN job.out}

\* Handlers whose return types nobody checked: register_feature_use is called
\* for handlers that are not hidden only.
Unchecked ==
    {id \in DOMAIN handlers : handlers[id].hidden
                              /\ ~(Range(handlers[id].returns) \subseteq Features)}

\* A listing of all stored queries has every visible query that stayed in the
\* map while it was made, whatever the monitor did to the others meanwhile.
ListingComplete ==
    job.kind = "List" /\ job.state = "done" =>
        \A id \in DOMAIN handlers \ changed : id \in ListedIds \/ handlers[id].hidden

\* A listing fails for all clients only when a handler was changed under it, or
\* when a hidden handler has a return type that does not exist.
ListingFailsOnlyOnChange ==
    job.kind = "List" /\ job.state = "failed" => changed # {} \/ Unchecked # {}

\* Every feature that a visible stored query returns can be asked for with
\* DescribeFeatureType and is announced in the capabilities unless it is hidden:
\* handlers and WfsCapabilities agree, through failed constructions too.
ReturnTypesKnown ==
    \A id \in DOMAIN handlers : ~handlers[id].hidden =>
        \A i \in DOMAIN handlers[id].returns :
            LET f == handlers[id].returns[i]
            IN  /\ f \in Features
                /\ add_type_namespace(FeatureDefs[f].ns, FeatureDefs[f].type).ok
                /\ job.kind = "Capabilities" /\ id \notin changed /\ ~FeatureDefs[f].hidden
                       => f \in Range(job.out)

\* Every listing comes to an end, with an answer or an error.
ListingEnds == [](job.state = "run" => <>(job.state # "run"))
=============================================================================
