-------------------------- MODULE MCStoredQueryMap --------------------------
(* Small instances of StoredQueryMap for TLC.                              *)
EXTENDS StoredQueryMap

MCFiles == 1..2
MCOneDir == [f \in MCFiles |-> "d"]
MCTwoDirs == [f \in MCFiles |-> IF f = 1 THEN "d" ELSE "e"]

MCIds == {"a", "b"}
MCLower == [i \in MCIds |-> i]

Conf(id, rev) == [id |-> id, rev |-> rev, marks |-> {}, defect |-> "none"]

\* Two revisions of one query and a second query.
MCPlain == {Conf("a", 0), Conf("a", 1), Conf("b", 0)}

\* Configurations that are not loaded: disabled, too long, unparsable,
\* refused by the handler's constructor.
MCBad == {[Conf("a", 2) EXCEPT !.marks = {"disabled"}],
          [Conf("b", 2) EXCEPT !.marks = {"test"}],
          [Conf("a", 3) EXCEPT !.defect = "oversize"],
          [Conf("b", 3) EXCEPT !.defect = "parse"],
          [Conf("a", 4) EXCEPT !.defect = "construct"]}
MCAll == MCPlain \cup MCBad
MCMost == MCPlain \cup
          {[Conf("a", 2) EXCEPT !.marks = {"disabled"}],
           [Conf("b", 3) EXCEPT !.defect = "parse"],
           [Conf("a", 4) EXCEPT !.defect = "construct"]}
=============================================================================
