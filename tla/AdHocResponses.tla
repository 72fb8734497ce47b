--------------------------- MODULE AdHocResponses ---------------------------
(***************************************************************************)
(* Responses with the queries that AdHocQuery makes of a request, and what *)
(* a filter means: the queries it should become.                           *)
(***************************************************************************)
EXTENDS Responses, AdHocQuery

CONSTANT Server     \* configurations, type names and handlers

CreatedFromKvp(r) == AdHoc_create_from_kvp(Server, r)
CreatedFromXml(r) == AdHoc_create_from_xml(Server, r)
-----------------------------------------------------------------------------
(* What a filter means: the set of its alternatives, each a set of conditions *)

Combine(S, T) == {s \cup t : s \in S, t \in T}

RECURSIVE Alternatives(_)
Alternatives(el) ==
    LET kids == [i \in DOMAIN el.kids |-> Alternatives(el.kids[i])]
    IN  CASE el.kind = "param" -> {{<<el.name, el.texts[1].n>>}}
          [] el.kind = "cmp" -> {{<<<<"cmp", el.cmp.refs[1].type>>, 0>>}}
          [] el.kind = "or" -> UNION {kids[i] : i \in DOMAIN kids}
          [] OTHER -> FoldLeft(Combine, {{}}, kids)

OrKids(el) == {i \in DOMAIN el.kids : el.kids[i].kind = "or"}

\* No And is empty or below another one, and where several Or elements of an
\* And have to be combined none of them begins with an Or.
RECURSIVE Regular(_, _)
Regular(el, below) ==
    /\ el.kind = "and" =>
          /\ ~below /\ el.kids # <<>>
          /\ Cardinality(OrKids(el)) > 1 => \A i \in OrKids(el) : el.kids[i].kids[1].kind # "or"
    /\ \A i \in DOMAIN el.kids : Regular(el.kids[i], below \/ el.kind = "and")

Conditions(q) ==
    {<<q.params[i][1], q.params[i][2].n>> : i \in DOMAIN q.params}
    \cup {<<<<"cmp", q.filter[i].ref>>, 0>> : i \in DOMAIN q.filter}

FromFilter == phase = "created" /\ request.form = "xml" /\ request.r.has_filter /\ request.r.aliases = <<>>
Wanted == Alternatives([kind |-> "and", kids |-> request.r.filter])

AllWanted == {Conditions(queries[i]) : i \in DOMAIN queries} = Wanted
-----------------------------------------------------------------------------
(* Properties *)

\* The queries made of a filter are its alternatives: every choice of one
\* child from each Or, with all the conditions that hold for it.  The
\* bookkeeping of extract_filter_elements, the marks of the Or elements and
\* their pairwise combination (AdHocQuery.cpp:757 to :1063) amount to that for
\* regular filters.  Three kinds are left out, and for each the code is wrong
\* (FilterMeansItsAlternatives): an And below another And, an empty And, and an
\* Or that begins with an Or where it is to be combined with another Or.
FilterMeansAlternatives ==
    FromFilter /\ (\A i \in DOMAIN request.r.filter : Regular(request.r.filter[i], FALSE)) => AllWanted

\* The same for every filter.  It does not hold: the end of an inner And clears
\* the alternatives of the outer element (AdHocQuery.cpp:757), the query of an
\* empty And is erased with nothing in its place, and an Or that begins with an
\* Or is not marked as a set of alternatives (AdHocQuery.cpp:830).
FilterMeansItsAlternatives == FromFilter => AllWanted

\* The last of these on its own: no And is empty or nested.
RECURSIVE NoInnerAnd(_, _)
NoInnerAnd(el, below) ==
    /\ el.kind = "and" => ~below /\ el.kids # <<>>
    /\ \A i \in DOMAIN el.kids : NoInnerAnd(el.kids[i], below \/ el.kind = "and")
OrInOrMeansAlternatives ==
    FromFilter /\ (\A i \in DOMAIN request.r.filter : NoInnerAnd(request.r.filter[i], FALSE)) => AllWanted
=============================================================================
