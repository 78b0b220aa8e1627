--------------------------- MODULE OrderedStream ----------------------------
(***************************************************************************)
(* What in-order delivery promises, whatever holds the frames back: at     *)
(* every moment the application has received exactly the frames before the *)
(* first one that has not arrived, each once and in the stream's order.    *)
(* `arrived' is the set of positions that have arrived, `delivered' the    *)
(* sequence of positions handed to the application.                        *)
(***************************************************************************)
EXTENDS Integers, Sequences

CONSTANT StreamLength

VARIABLES arrived, delivered

Stream == 0 .. StreamLength - 1

(* The first n positions of the stream, in order.                          *)
Prefix(n) == [i \in 1 .. n |-> i - 1]

(* n positions have arrived without a gap, and no more.                    *)
Contiguous(S, n) == n \notin S /\ \A i \in 0 .. n - 1 : i \in S

Init == arrived = {} /\ delivered = Prefix(0)

Arrive(i) ==
    /\ arrived' = arrived \cup {i}
    /\ \E n \in 0 .. StreamLength :
          Contiguous(arrived', n) /\ delivered' = Prefix(n)

Next == \E i \in Stream : Arrive(i)

Spec == Init /\ [][Next]_<<arrived, delivered>>
=============================================================================
