---------------------------- MODULE ReplayWindow ----------------------------
(***************************************************************************)
(* The sliding anti-replay window of transport/replay.go, as operators on  *)
(* a window value.  The 64-bit bitmap `seen' is the set of the offsets     *)
(* whose bit is 1: offset d stands for the counter highest - d.            *)
(***************************************************************************)
EXTENDS Integers

CONSTANTS
    WindowSize,     \* the field size (DefaultReplayWindowSize, 64)
    BitmapBits      \* the width of the bitmap (uint64)

ASSUME WindowAssumption ==
    /\ WindowSize \in Nat \ {0}
    /\ BitmapBits \in Nat
    /\ WindowSize <= BitmapBits

Offsets == 0 .. BitmapBits - 1

Windows == [initiated : BOOLEAN, highest : Nat, seen : SUBSET Offsets]

NewReplayWindow == [initiated |-> FALSE, highest |-> 0, seen |-> {}]

(* seen <<= n: what is shifted past the last bit is lost, and a shift of   *)
(* BitmapBits or more leaves nothing.                                      *)
ShiftLeft(seen, n) == {d + n : d \in seen} \cap Offsets

(* Mutant: a counter inside the window is taken without reading its bit.   *)
Acceptable_BitUnread(w, counter) ==
    \/ ~w.initiated
    \/ counter > w.highest
    \/ counter < w.highest /\ w.highest - counter < WindowSize

(* The verdict of CheckAndMark: the counter is neither a replay nor too    *)
(* old to be told from one.                                                *)
Acceptable(w, counter) ==
    \/ ~w.initiated
    \/ counter > w.highest
    \/ /\ counter < w.highest
       /\ w.highest - counter < WindowSize
       /\ w.highest - counter < BitmapBits
       /\ (w.highest - counter) \notin w.seen

(* Mutant: the high-water mark moves and the bitmap does not.              *)
Marked_Unshifted(w, counter) ==
    IF ~w.initiated
    THEN [initiated |-> TRUE, highest |-> counter, seen |-> {0}]
    ELSE IF counter > w.highest
    THEN [w EXCEPT !.highest = counter]
    ELSE [w EXCEPT !.seen = @ \cup {w.highest - counter}]

(* The window CheckAndMark leaves behind when it accepts the counter.      *)
Marked(w, counter) ==
    IF ~w.initiated
    THEN [initiated |-> TRUE, highest |-> counter, seen |-> {0}]
    ELSE IF counter > w.highest
    THEN [w EXCEPT !.highest = counter,
                   !.seen = ShiftLeft(@, counter - w.highest) \cup {0}]
    ELSE [w EXCEPT !.seen = @ \cup {w.highest - counter}]

CheckAndMark(w, counter) == IF Acceptable(w, counter) THEN Marked(w, counter) ELSE w

(* Mutant: the old key's counters stay in the window.                      *)
ResetWindow_Kept(w) == w

(* Reset, when the session key rotates.                                    *)
ResetWindow(w) == [w EXCEPT !.initiated = FALSE, !.highest = 0, !.seen = {}]
=============================================================================
