--------------------------- MODULE RequestService ---------------------------
(***************************************************************************)
(* What GetFeature and GetPropertyValue promise their clients, with no     *)
(* word of redirects, cache and order of execution: a request is taken as  *)
(* a whole, and some time later it is answered in one step, each of its    *)
(* queries with an error or with the response to a query it stands for, or *)
(* it is refused.                                                          *)
(***************************************************************************)
EXTENDS Sequences

CONSTANTS
    Threads,
    Ids,            \* stored query ids
    Questions,      \* what may be asked: sequences of ids
    Leads(_, _),    \* the first id stands for the second
    Error

VARIABLES state, asked, answers

vars == <<state, asked, answers>>

Init ==
    /\ state = [t \in Threads |-> "free"]
    /\ asked = [t \in Threads |-> <<>>]
    /\ answers = [t \in Threads |-> <<>>]

Receive(t) ==
    /\ state[t] # "serving"
    /\ state' = [state EXCEPT ![t] = "serving"]
    /\ \E q \in Questions : asked' = [asked EXCEPT ![t] = q]
    /\ answers' = [answers EXCEPT ![t] = <<>>]

Reply(t) ==
    /\ state[t] = "serving"
    /\ \E outcome \in {"good", "bad"} :
        /\ state' = [state EXCEPT ![t] = outcome]
        /\ \E a \in [DOMAIN asked[t] -> Ids \cup {Error}] :
            /\ answers' = [answers EXCEPT ![t] = a]
            /\ \A i \in DOMAIN a : a[i] # Error => Leads(asked[t][i], a[i])
            \* Good as soon as one query is answered, or none was asked.
            /\ outcome = "good" <=> a = <<>> \/ \E i \in DOMAIN a : a[i] # Error
    /\ UNCHANGED asked

Refuse(t) ==
    /\ state[t] = "serving"
    /\ state' = [state EXCEPT ![t] = "refused"]
    /\ UNCHANGED <<asked, answers>>

Next == \E t \in Threads : Receive(t) \/ Reply(t) \/ Refuse(t)

Spec == Init /\ [][Next]_vars
=============================================================================
