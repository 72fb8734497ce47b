------------------------------- MODULE Paging -------------------------------
(***************************************************************************)
(* startIndex, count and resultType: which members of the responses of the *)
(* queries GetFeature and GetPropertyValue return, and the numbers they    *)
(* report.  A response has members (those AdHocQuery::filter or the XPath  *)
(* expression selects) and matched, the number the handler has written     *)
(* into it.  Counts are integers of the widths of the code: unsigned int   *)
(* in the presentation parameters, int in execute_single_query and         *)
(* GetPropertyValue, size_t in execute_multiple_queries.                   *)
(***************************************************************************)
EXTENDS Integers, Sequences, Outcome

CONSTANTS
    IntBits,    \* width of int and unsigned int
    SizeBits    \* width of size_t

ASSUME WidthAssumption == IntBits \in Nat \ {0} /\ SizeBits \in Nat /\ SizeBits > IntBits + 1

\* What follows from that for the numbers of these widths.
ASSUME RangesAssumption ==
    /\ 2 ^ (IntBits - 1) \in Nat \ {0} /\ 2 ^ IntBits = 2 * 2 ^ (IntBits - 1)
    /\ 2 ^ SizeBits \in Nat /\ 2 ^ SizeBits > 2 * 2 ^ IntBits

ToInt(n) ==
    LET m == n % 2 ^ IntBits IN IF m >= 2 ^ (IntBits - 1) THEN m - 2 ^ IntBits ELSE m

ToSize(n) == n % 2 ^ SizeBits

\* The members from..to (counted from 0) of a sequence that has them.
Slice(s, from, to) == SubSeq(s, from + 1, IF to < Len(s) THEN to + 1 ELSE Len(s))
-----------------------------------------------------------------------------
(* GetFeature *)

assert_use_default_format(spp, r) ==
    Checked(<< <<spp.output_format # "default", "OperationProcessingFailed">> >>, r)

create_hits_only_response(spp, members) ==
    assert_use_default_format(spp,
        Ok([members |-> <<>>, matched |-> Len(members), returned |-> 0]))

\* Mutant: the end index is one past the last one.
execute_single_query_past(spp, r, adhoc) ==
    LET start == ToInt(spp.start_index)
        end == ToInt(start + ToInt(spp.count))
        page == IF start > end \/ start < 0 THEN <<>> ELSE Slice(r.members, start, end)
    IN  Ok([members |-> page, matched |-> r.matched, returned |-> Len(page)])

\* One query: without counts and filter the response goes out as it is, and of
\* the numbers the handler has written only numberReturned is ever replaced.
execute_single_query(spp, r, adhoc) ==
    LET start == ToInt(spp.start_index)
        end == ToInt(start + ToInt(spp.count) - 1)
        page == IF start > end \/ start < 0 THEN <<>> ELSE Slice(r.members, start, end)
        whole == [members |-> r.members, matched |-> r.matched, returned |-> r.matched]
    IN  CASE spp.hits -> create_hits_only_response(spp, r.members)
          [] ~spp.hits /\ (spp.have_counts \/ adhoc) ->
                assert_use_default_format(spp, Ok([whole EXCEPT !.members = page,
                                                                !.returned = Len(page)]))
          [] OTHER -> Ok(whole)

\* The members of one response whose number, over all responses, is in the page.
import_response_members(members, start, end, member_ind) ==
    LET first == IF start > member_ind THEN start - member_ind ELSE 0
    IN  Slice(members, first, end - member_ind)

\* One response of several; the report of a failed one is copied as it is.
\* numberReturned counts every member that was looked at.
add_response(spp, s, r) ==
    LET start == ToSize(spp.start_index)
        end == ToSize(spp.start_index + spp.count - 1)
        page == import_response_members(r.members, start, end, s.member_ind)
    IN  IF r.failed THEN [s EXCEPT !.out = Append(@, <<"report">>)]
        ELSE IF spp.hits THEN [s EXCEPT !.member_ind = @ + Len(r.members)]
        ELSE [out |-> Append(s.out, page),
              member_ind |-> s.member_ind + Len(r.members),
              num_matched |-> s.num_matched + Len(r.members)]

\* Several queries, also failed ones: the page is cut out of all members in turn.
execute_multiple_queries(spp, responses) ==
    LET step[n \in 0 .. Len(responses)] ==
            IF n = 0 THEN [out |-> <<>>, member_ind |-> 0, num_matched |-> 0]
            ELSE add_response(spp, step[n - 1], responses[n])
        last == step[Len(responses)]
    IN  assert_use_default_format(spp,
            Ok([members |-> last.out, matched |-> last.member_ind, returned |-> last.num_matched,
                status |-> IF responses # <<>> /\ \A i \in DOMAIN responses : responses[i].failed
                           THEN 400 ELSE 200]))
-----------------------------------------------------------------------------
(* GetPropertyValue.  None stands for an optional<int> without a value. *)

None == -1

\* decrease called n times.
decrease(value, n) == IF value = None THEN None ELSE IF value > n THEN value - n ELSE 0

initialize(spp) ==
    CASE spp.hits -> [max |-> 0, start |-> None]
      [] ~spp.hits /\ spp.have_counts -> [max |-> ToInt(spp.count), start |-> ToInt(spp.start_index)]
      [] OTHER -> [max |-> None, start |-> None]

\* The last index does not take the number of members left after the first one
\* into account.
calculate_loop_limits(max, start, num_members) ==
    LET first == IF start = None THEN 0 ELSE start
        count == IF max = None \/ max > num_members THEN num_members ELSE max
    IN  [first |-> first, last |-> first + count - 1]

\* Mutant: the rest of the page is not reduced by what was returned.
append_members_fresh(st, values) ==
    LET lim == calculate_loop_limits(st.max, st.start, Len(values))
    IN  [st EXCEPT !.out = @ \o Slice(values, lim.first, lim.last),
                   !.past = @ \/ (lim.first <= lim.last /\ lim.last >= Len(values))]

\* The values of one response; reading past its end is recorded in past.  Every
\* value returned also makes the start index smaller by one.
append_members(st, values) ==
    LET lim == calculate_loop_limits(st.max, st.start, Len(values))
        n == IF lim.last < lim.first THEN 0 ELSE lim.last - lim.first + 1
    IN  [st EXCEPT !.out = @ \o Slice(values, lim.first, lim.last),
                   !.past = @ \/ (n > 0 /\ lim.last >= Len(values)),
                   !.start = decrease(@, n), !.max = decrease(@, n)]

\* The values the XPath expression selects in one response or member.
extract_property(st, values) ==
    IF values = <<>> THEN st
    ELSE LET m == [st EXCEPT !.matched = @ + Len(values)]
         IN  IF st.max # 0 THEN append_members(m, values) ELSE m

\* filter: with a filter every member it selects is searched on its own;
\* parts are the values found in each.
FilterResponse(st, parts) ==
    LET go[n \in 0 .. Len(parts)] ==
            IF n = 0 THEN st ELSE extract_property(go[n - 1], parts[n])
    IN  go[Len(parts)]

add_responses(spp, responses) ==
    LET ini == initialize(spp)
        go[n \in 0 .. Len(responses)] ==
            IF n = 0 THEN [out |-> <<>>, matched |-> 0, past |-> FALSE,
                           max |-> ini.max, start |-> ini.start]
            ELSE FilterResponse(go[n - 1], responses[n])
    IN  go[Len(responses)]

\* A query that fails ends the request: no response here is a failed one.
GetPropertyValue_execute(spp, responses) ==
    LET st == add_responses(spp, responses)
    IN  Checked(<< <<spp.output_format = "debug", "OperationProcessingFailed">> >>,
                Ok([members |-> st.out, matched |-> st.matched, returned |-> Len(st.out),
                    past |-> st.past, status |-> 200]))
=============================================================================
