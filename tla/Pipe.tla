-------------------------------- MODULE Pipe --------------------------------
(***************************************************************************)
(* What a stream with one writer promises each of its readers, whatever    *)
(* carries it: a reader has taken a prefix of what was written, in order   *)
(* and each item once, and never gives one back.  Reading may stop at any  *)
(* point: the carrier may have lost the rest.                              *)
(***************************************************************************)
EXTENDS Integers, Sequences

CONSTANTS Items, Readers

VARIABLES sent, taken

Init ==
    /\ sent = << >>
    /\ taken = [r \in Readers |-> << >>]

Write(item) ==
    /\ sent' = Append(sent, item)
    /\ UNCHANGED taken

Read(r) ==
    /\ \E n \in Len(taken[r]) + 1 .. Len(sent) :
          taken' = [taken EXCEPT ![r] = SubSeq(sent, 1, n)]
    /\ UNCHANGED sent

Next ==
    \/ \E item \in Items : Write(item)
    \/ \E r \in Readers : Read(r)

Spec == Init /\ [][Next]_<<sent, taken>>
=============================================================================
