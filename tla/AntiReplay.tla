----------------------------- MODULE AntiReplay -----------------------------
(***************************************************************************)
(* What the anti-replay window promises, whatever its representation: under *)
(* one session key a counter is accepted at most once, and a counter that  *)
(* was not yet accepted is refused only when a counter at least WindowSize *)
(* ahead of it has been.  `accepted' is the set of counters accepted under *)
(* the current key, `verdict' the answer to the last counter offered.      *)
(***************************************************************************)
EXTENDS Integers

CONSTANTS WindowSize, Counters

VARIABLES accepted, verdict

NoVerdict == [counter |-> -1, ok |-> FALSE]

Init == accepted = {} /\ verdict = NoVerdict

Accept(c) ==
    /\ c \notin accepted
    /\ accepted' = accepted \cup {c}
    /\ verdict' = [counter |-> c, ok |-> TRUE]

TooOld(c) == \E d \in accepted : d - c >= WindowSize

Refuse(c) ==
    /\ c \in accepted \/ TooOld(c)
    /\ verdict' = [counter |-> c, ok |-> FALSE]
    /\ UNCHANGED accepted

NewKey ==
    /\ accepted' = {}
    /\ verdict' = NoVerdict

Next == NewKey \/ \E c \in Counters : Accept(c) \/ Refuse(c)

Spec == Init /\ [][Next]_<<accepted, verdict>>
=============================================================================
