----------------------------- MODULE AdHocQuery -----------------------------
(***************************************************************************)
(* Ad hoc queries: type names instead of a stored query id, and a filter   *)
(* whose And, Or and comparison elements become a list of queries, one for *)
(* each alternative, with parameters and a filter expression each.         *)
(*                                                                         *)
(* An element of a filter is a record of its kind ("and", "or", "not",     *)
(* "param" for bbox and timePosition, "cmp" for a comparison, or "other"   *)
(* for elements that only hold others, such as fes:During), its child      *)
(* elements, the name and texts of a parameter and the contents of a       *)
(* comparison.  A query has an id that stands for its address; a filter    *)
(* expression is the sequence of the comparisons it joins.  Use of a query *)
(* after it was erased, or of back() of an empty vector, is undefined.     *)
(***************************************************************************)
EXTENDS QueryParameters

Undefined == Throw("undefined", "none")
NoQuery == 0
-----------------------------------------------------------------------------
(* Comparisons *)

\* The first reference and the limit: a second reference, or a literal that
\* is text unless it is a number ("NaN" is text too).  Two references are
\* compared as numbers unless the test is for equality; a search that
\* ignores case wraps texts, but not attributes.
read_comparison_operation(c) ==
    LET two == Len(c.refs) = 2
        text == c.literal \in {"text", "NaN"}
        numeric == two /\ c.op \notin {"=", "!="}
        caseless == ~numeric /\ ~c.matchCase /\ (text \/ two)
        Wrap(attribute) == CASE numeric -> "number"
                             [] caseless /\ ~attribute -> "lower-case"
                             [] OTHER -> "plain"
    IN  [op |-> c.op, action |-> IF c.action \in {"All", "One"} THEN c.action ELSE "Any",
         ref |-> c.refs[1].type, left |-> Wrap(c.refs[1].attribute),
         right |-> IF two THEN Wrap(c.refs[2].attribute)
                   ELSE IF text THEN (IF c.matchCase THEN "quoted" ELSE "quoted lower") ELSE "number text"]
-----------------------------------------------------------------------------
(* The list of queries a filter is turned into *)

NewQuery(id) == [id |-> id, params |-> <<>>, filter |-> <<>>]

create_query(st) == [st EXCEPT !.queries = Append(@, NewQuery(st.next)), !.next = @ + 1]

is_query_used(q) == q.params # <<>> \/ q.filter # <<>>

Keys(q) == {q.params[i][1] : i \in DOMAIN q.params}
Known(st, id) == \E i \in DOMAIN st.queries : st.queries[i].id = id
At(st, id) == CHOOSE i \in DOMAIN st.queries : st.queries[i].id = id

\* Mutant: the filter expression stays behind.
copy_params_only(src, target) ==
    IF \E k \in Keys(src) : ~get_param(src.params, k).ok THEN ParsingFailed
    ELSE Ok([target EXCEPT !.params = @ \o src.params])

\* The parameters are copied one value each, the expressions are joined.
copy_params(src, target) ==
    IF \E k \in Keys(src) : ~get_param(src.params, k).ok THEN ParsingFailed
    ELSE Ok([target EXCEPT !.params = @ \o src.params, !.filter = @ \o src.filter])

\* All pairs of a query of one list and a query of another, in a new query.
Pairs(ones, others, next) ==
    All([k \in 1 .. Len(ones) * Len(others) |->
            LET q1 == ones[1 + ((k - 1) \div Len(others))]
                q2 == others[1 + ((k - 1) % Len(others))]
            IN  Then(copy_params(q1, NewQuery(next + k)), LAMBDA q : copy_params(q2, q))])

\* The sets of queries of the Or elements begin at or_idx: the first is
\* combined with the second, each further one with what that gave.
combine_or_queries(st) ==
    LET n == Len(st.queries)
        idx == st.or_idx
        Set(k) == SubSeq(st.queries, idx[k], IF k < Len(idx) THEN idx[k + 1] - 1 ELSE n)
        first == Pairs(Set(1), Set(2), st.next)
        Round(r, k) == Then(r, LAMBDA qs : Pairs(Set(k), qs, st.next + 100 * k))
        all == FoldLeft(Round, first, [k \in 1 .. Len(idx) - 2 |-> k + 2])
    IN  Then(all, LAMBDA qs :
            Ok([st EXCEPT !.queries = SubSeq(@, 1, idx[1] - 1) \o qs, !.next = @ + 1000]))

\* The query of an And element is dropped when it is empty, and otherwise
\* merged into the queries of the Or elements inside.
handle_end_of_and_element(st, and_index, and_query) ==
    Then(IF Len(st.or_idx) >= 2 THEN combine_or_queries(st) ELSE Ok(st), LAMBDA s :
        LET t == [s EXCEPT !.or_idx = <<>>]
            q == t.queries[At(t, and_query)]
            later == SubSeq(t.queries, and_index + 1, Len(t.queries))
            Erased(qs) == SubSeq(t.queries, 1, and_index - 1) \o qs
        IN  CASE ~Known(t, and_query) -> Undefined
              [] Known(t, and_query) /\ ~is_query_used(q) -> Ok([t EXCEPT !.queries = Erased(later)])
              [] Known(t, and_query) /\ is_query_used(q) /\ later # <<>> ->
                    Then(All([i \in DOMAIN later |-> copy_params(q, later[i])]), LAMBDA qs :
                         Ok([t EXCEPT !.queries = Erased(qs)]))
              [] OTHER -> Ok(t))

\* bbox and timePosition: the parameter of the handler's configuration with
\* the name of the element, starttime or endtime inside a period; the type is
\* that of the element, whatever the configuration says.
read_query_parameter(config, frame, el, q) ==
    LET typed == [config EXCEPT !.params =
                     {[d EXCEPT !.xml_type = IF el.name = <<"bbox", "lower">> THEN "Envelope" ELSE "dateTime"] : d \in @}]
        r == xml_parameter(typed, [map |-> q.params, seen |-> frame.seen,
                                   forbidden |-> frame.forbidden, skipped |-> 0], <<el.name, el.texts>>)
    IN  IF ~r.ok /\ el.name \in frame.forbidden THEN ParsingFailed
        ELSE Then(r, LAMBDA v : Ok(<<[q EXCEPT !.params = v.map], v>>))

\* Parameters directly inside an And element go to the And element's query.
read_filter_parameter(config, frame, el, tree, upper) ==
    LET st == frame.st
        id == IF upper # NoQuery /\ Last(tree) # "or" THEN upper ELSE Last(st.queries).id
        q == st.queries[At(st, id)]
        Put(p) == [st EXCEPT !.queries[At(st, id)] = p]
    IN  CASE ~Known(st, id) -> Undefined
          [] Known(st, id) /\ el.kind = "cmp" ->
                Ok([frame EXCEPT !.st = Put([q EXCEPT !.filter = Append(@, read_comparison_operation(el.cmp))])])
          [] OTHER ->
                Then(read_query_parameter(config, frame, el, q), LAMBDA r :
                     Ok([frame EXCEPT !.st = Put(r[1]), !.seen = r[2].seen, !.forbidden = r[2].forbidden]))

\* A new alternative inside an Or element; the first one of an Or inside an
\* And is remembered, unless it is an And or Or itself.
new_alternative(frame, el, tree, upper) ==
    LET st == frame.st
        fresh == create_query(st)
        marks == frame.first /\ tree[Len(tree) - 1] = "and" /\ el.kind \notin {"and", "or"}
    IN  IF Last(tree) = "or" /\ (is_query_used(Last(st.queries)) \/ Last(st.queries).id = upper)
        THEN [st |-> IF marks THEN [fresh EXCEPT !.or_idx = Append(@, Len(fresh.queries))] ELSE fresh,
              seen |-> <<>>, forbidden |-> {}, first |-> frame.first /\ ~marks]
        ELSE frame

RECURSIVE extract_filter_elements(_, _, _, _, _)
extract_filter_elements(config, kids, tree, state, upper) ==
    LET Descend(f, el) ==
            LET and_query == CASE el.kind = "and" -> Last(f.st.queries).id
                               [] el.kind # "and" /\ Last(tree) # "or" -> upper
                               [] OTHER -> NoQuery
                and_index == Len(f.st.queries)
            IN  Then(extract_filter_elements(config, el.kids, Append(tree, el.kind), f.st, and_query),
                     LAMBDA s :
                     Then(IF el.kind = "and" THEN handle_end_of_and_element(s, and_index, and_query)
                          ELSE Ok(s), LAMBDA t : Ok([f EXCEPT !.st = t])))
        Element(r, el) ==
            Then(r, LAMBDA frame :
                CASE el.kind = "not" -> ParsingFailed
                  [] el.kind # "not" /\ frame.st.queries = <<>> -> Undefined
                  [] OTHER ->
                        LET f == new_alternative(frame, el, tree, upper)
                        IN  IF el.kind \in {"param", "cmp"}
                            THEN read_filter_parameter(config, f, el, tree, upper)
                            ELSE Descend(f, el))
        frame0 == [st |-> state, seen |-> <<>>, forbidden |-> {}, first |-> TRUE]
    IN  Then(FoldLeft(Element, Ok(frame0), kids), LAMBDA frame : Ok(frame.st))

extract_xml_parameters_adhoc(config, filter) ==
    LET st == create_query([queries |-> <<>>, next |-> 1, or_idx |-> <<>>])
    IN  Then(extract_filter_elements(config, filter, <<"filter">>, st, NoQuery), LAMBDA s : Ok(s.queries))
-----------------------------------------------------------------------------
(* From a request to its queries.  server has the configuration of each     *)
(* handler, the stored queries of each type name and how a handler resolves *)
(* its parameters; a request has its type names, filter, bbox and so on.    *)

\* TypeNameStoredQueryMap: an unknown type name is an error.
get_stored_queries_by_name(server, type_name) ==
    IF type_name \in DOMAIN server.typenames THEN Ok(server.typenames[type_name]) ELSE ParsingFailed

get_stored_query_ids_from_typenames(server, type_names) ==
    Then(All([i \in DOMAIN type_names |-> get_stored_queries_by_name(server, type_names[i])]),
         LAMBDA ids : Ok(FlattenSeq(ids)))

\* The handler's parameters and the cache key: it names the query, its
\* parameters, the language and the debug format, not the data source.
process_parms(server, id, queries, language, debug) ==
    All([i \in DOMAIN queries |->
            Then(server.process[id][queries[i].params # <<>>], LAMBDA ok :
                 Ok([id |-> id, params |-> queries[i].params, filter |-> queries[i].filter,
                     projection |-> <<>>,
                     cache_key |-> <<id, queries[i].params, language, debug>>]))])

add_projection_clause(names, queries) ==
    [i \in DOMAIN queries |-> [queries[i] EXCEPT !.projection = names]]

\* The aliases are replaced one after the other, in all expressions.
replace_aliases(aliases, type_names, queries) ==
    LET Replace(t) == FoldLeft(LAMBDA r, i : IF r = aliases[i] THEN type_names[i] ELSE r, t,
                               [i \in DOMAIN aliases |-> i])
        Renamed(q) == [q EXCEPT !.filter = [j \in DOMAIN q.filter |-> [q.filter[j] EXCEPT !.ref = Replace(@)]]]
    IN  IF aliases # <<>> /\ Len(aliases) # Len(type_names) THEN ParsingFailed
        ELSE Ok([i \in DOMAIN queries |-> Renamed(queries[i])])

\* The queries of each stored query in turn.
ForEach(ids, Op(_)) ==
    Then(All([i \in DOMAIN ids |-> Op(ids[i])]), LAMBDA qs : Ok(FlattenSeq(qs)))

\* One query per stored query, with the box as its only parameter.
create_bbox_query_from_kvp(server, ids, r) ==
    ForEach(ids, LAMBDA id :
        LET known == get_param_desc(server.configs[id], <<"bbox", "lower">>)
        IN  IF known = {} THEN ParsingFailed
            ELSE WithCode(
                    Then(insert_kvp_values(<<"bbox", "lower">>,
                                           [(CHOOSE d \in known : TRUE) EXCEPT !.def.array = FALSE], <<r.bbox>>),
                    LAMBDA vs : process_parms(server, id,
                                    << [NewQuery(1) EXCEPT !.params = << <<<<"bbox", "lower">>, vs[1]>> >>] >>,
                                    r.language, r.debug)), "OperationParsingFailed"))

filter_queries(server, id, r) ==
    Then(extract_xml_parameters_adhoc(server.configs[id], r.filter), LAMBDA qs :
         process_parms(server, id, qs, r.language, r.debug))

default_queries(server, id, r) == process_parms(server, id, <<NewQuery(1)>>, r.language, r.debug)

create_filter_query_from_kvp(server, ids, r) ==
    Checked(<< <<r.filter_language \notin {"-", "FES"}, "OperationParsingFailed">>,
               <<r.filter_root = "unparsable", "none">>,
               <<r.filter_root # "fes:Filter", "OperationParsingFailed">> >>,
            ForEach(ids, LAMBDA id : filter_queries(server, id, r)))

Finished(r, queries) ==
    Then(queries, LAMBDA qs : replace_aliases(r.aliases, r.type_names, add_projection_clause(r.properties, qs)))

AdHoc_create_from_kvp(server, r) ==
    Checked(<< <<r.request \notin {"GetFeature", "GetPropertyValue"}, "OperationParsingFailed">>,
               <<r.type_names = <<>>, "OperationParsingFailed">> >>,
    Then(get_stored_query_ids_from_typenames(server, r.type_names), LAMBDA ids :
    Checked(<< <<ids = <<>>, "OperationParsingFailed">>,
               <<~r.has_bbox /\ r.resource_id, "OperationParsingFailed">> >>,
    Finished(r,
        CASE r.has_bbox -> create_bbox_query_from_kvp(server, ids, r)
          [] ~r.has_bbox /\ r.has_filter -> create_filter_query_from_kvp(server, ids, r)
          [] OTHER -> ForEach(ids, LAMBDA id : default_queries(server, id, r))))))

\* Only a wfs:Query element has type names.
get_xml_typenames(r) == IF r.element = "Query" THEN r.type_names ELSE <<>>

AdHoc_create_from_xml(server, r) ==
    Then(get_stored_query_ids_from_typenames(server, get_xml_typenames(r)), LAMBDA ids :
    Checked(<< <<ids = <<>>, "OperationParsingFailed">> >>,
    Finished(r, ForEach(ids, LAMBDA id : IF r.has_filter THEN filter_queries(server, id, r)
                                         ELSE default_queries(server, id, r)))))
=============================================================================
