------------------------------ MODULE Outcome ------------------------------
(***************************************************************************)
(* How a C++ function that may throw is written as an operator: its value  *)
(* is an outcome, either Ok(v) for what it returns or a failure for what   *)
(* it throws.  A failure has the kind of the exception and, for            *)
(* Fmi::Exception, the WFS exception code attached to it; "none" when no   *)
(* function on the way attaches one.                                       *)
(***************************************************************************)
EXTENDS Naturals, Sequences

Ok(v) == [ok |-> TRUE, val |-> v]

Throw(kind, code) == [ok |-> FALSE, kind |-> kind, code |-> code]

\* throw Fmi::Exception with WFS_EXCEPTION_CODE = code
Fail(code) == Throw("Fmi", code)

\* throw Fmi::Exception without a code
NoCode == Fail("none")

\* What follows a call: not reached when the call throws.
Then(r, Op(_)) == IF r.ok THEN Op(r.val) ELSE r

\* A block of tests that throw: checks is a sequence of pairs of a condition
\* that is refused and the code it is refused with, the first one counts.
Checked(checks, r) ==
    LET Hit(i) == checks[i][1] /\ \A j \in 1 .. i - 1 : ~checks[j][1]
    IN  IF \E i \in DOMAIN checks : Hit(i)
        THEN Fail(checks[CHOOSE i \in DOMAIN checks : Hit(i)][2])
        ELSE r

\* The outcomes of a loop body that may throw: the first failure, or all values.
All(rs) ==
    LET Hit(i) == ~rs[i].ok /\ \A j \in 1 .. i - 1 : rs[j].ok
    IN  IF \E i \in DOMAIN rs : Hit(i)
        THEN rs[CHOOSE i \in DOMAIN rs : Hit(i)]
        ELSE Ok([i \in DOMAIN rs |-> rs[i].val])

\* A catch (...) that adds a code unless one is attached already.
WithCode(r, code) ==
    IF r.ok \/ (r.kind = "Fmi" /\ r.code # "none") THEN r ELSE Fail(code)
=============================================================================
