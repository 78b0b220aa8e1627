----------------------------- MODULE ReplaySpec -----------------------------
(***************************************************************************)
(* A receiver that checks every decrypted frame's nonce counter against    *)
(* its ReplayWindow: counters come in any order and any number of times    *)
(* (parallel HTTP transactions, retransmissions), and a handshake resets   *)
(* the window.  CheckAndMark holds the window's mutex, so one call is one  *)
(* step.  `accepted' and `verdict' are history: what was accepted since    *)
(* the last Reset and what the last call returned.                         *)
(***************************************************************************)
EXTENDS ReplayWindow

CONSTANT Counters       \* the counters that arrive

ASSUME CountersAssumption == Counters \subseteq Nat

VARIABLES window, accepted, verdict

vars == <<window, accepted, verdict>>

Promise == INSTANCE AntiReplay
    WITH WindowSize <- WindowSize, Counters <- Counters,
         accepted <- accepted, verdict <- verdict

Init ==
    /\ window = NewReplayWindow
    /\ accepted = {}
    /\ verdict = Promise!NoVerdict

Check(c) ==
    /\ window' = CheckAndMark(window, c)
    /\ \/ /\ Acceptable(window, c)
          /\ accepted' = accepted \cup {c}
          /\ verdict' = [counter |-> c, ok |-> TRUE]
       \/ /\ ~Acceptable(window, c)
          /\ verdict' = [counter |-> c, ok |-> FALSE]
          /\ UNCHANGED accepted

Rotate ==
    /\ window' = ResetWindow(window)
    /\ accepted' = {}
    /\ verdict' = Promise!NoVerdict

Next == Rotate \/ \E c \in Counters : Check(c)

Spec == Init /\ [][Next]_vars

-----------------------------------------------------------------------------
(* The window is a well-formed value and the history a set of counters     *)
(* (replay.go:17-23).                                                      *)
TypeOK ==
    /\ window \in Windows
    /\ accepted \in SUBSET Counters
    /\ verdict \in [counter : Counters \cup {-1}, ok : BOOLEAN]

(* highest is the greatest counter accepted under this key.                *)
HighestAccepted ==
    /\ window.initiated <=> accepted # {}
    /\ window.initiated => window.highest \in accepted
    /\ \A c \in accepted : c <= window.highest

(* An offset's bit is set exactly when its counter was accepted.           *)
BitmapExact ==
    \A d \in Offsets :
        d \in window.seen <=> (window.initiated /\ window.highest - d \in accepted)

(* The bitmap, the high-water mark and the flag together remember exactly  *)
(* the accepted counters that are still inside the window, through any     *)
(* number of shifts (replay.go:46-55), marks (:66-71) and resets (:78-84). *)
WindowRemembers == HighestAccepted /\ BitmapExact

(* The window keeps the promise of AntiReplay: no counter is accepted      *)
(* twice under one key, and none is refused that is neither a replay nor   *)
(* WindowSize or more behind (replay.go:13-15 and :31-34).                 *)
KeepsPromise == Promise!Spec
=============================================================================
