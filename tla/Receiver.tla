------------------------------ MODULE Receiver ------------------------------
(***************************************************************************)
(* Session.DecodeIncoming by one caller, as the composition of what it     *)
(* calls: the AEAD, which only passes frames of the session's key, the     *)
(* ReplayWindow of that key (ReplaySpec) and the ReorderBuffer, which all  *)
(* keys share (ReorderSpec).  Frame i of the peer's stream carries         *)
(* sequence number i; the peer rotates its key before frame `rekeyed', and *)
(* the nonce counter then restarts.  The network delivers every frame, in  *)
(* any order and any number of times.                                      *)
(***************************************************************************)
EXTENDS ReplaySpec, ReorderSpec

ASSUME ReceiverAssumption == Stream \subseteq Counters

VARIABLES
    guarded,        \* FALSE: frames go to the buffer unchecked, as racing
                    \* receivers (Session) and the buffer's own tests do
    rekeyed,        \* the first frame under the second key
    key,            \* SessionKey: the first or the second
    lost            \* history: a frame was dropped that never got in

receiverVars == <<vars, streamVars, guarded, rekeyed, key, lost>>

(* The key and the nonce counter that the peer's EncodeOutgoing gives      *)
(* frame i.                                                                *)
KeyOf(i) == IF i < rekeyed THEN 1 ELSE 2
CounterOf(i) == IF i < rekeyed THEN i ELSE i - rekeyed

ReceiverInit ==
    /\ Init
    /\ StreamInit
    /\ guarded \in BOOLEAN
    /\ rekeyed \in Stream \cup {StreamLength}
    /\ key = 1
    /\ lost = FALSE

Drop(i) ==
    /\ lost' = (lost \/ i \notin arrived)
    /\ UNCHANGED streamVars

(* The frame was sealed with the other key: an error.                      *)
DecodeError(i) ==
    /\ guarded /\ KeyOf(i) # key
    /\ Drop(i)
    /\ UNCHANGED <<vars, guarded, rekeyed, key>>

(* The frame decodes: the window's verdict decides whether the buffer is   *)
(* given it.                                                               *)
Decode(i) ==
    /\ guarded /\ KeyOf(i) = key
    /\ Check(CounterOf(i))
    /\ \/ Acceptable(window, CounterOf(i)) /\ Arrive(i) /\ UNCHANGED lost
       \/ ~Acceptable(window, CounterOf(i)) /\ Drop(i)
    /\ UNCHANGED <<guarded, rekeyed, key>>

InsertUnchecked(i) ==
    /\ ~guarded
    /\ Arrive(i)
    /\ UNCHANGED <<vars, guarded, rekeyed, key, lost>>

(* Mutant: the window outlives its key.                                    *)
CompleteHandshake_KeepsWindow ==
    /\ key = 1
    /\ key' = 2
    /\ UNCHANGED <<vars, streamVars, guarded, rekeyed, lost>>

(* The new key starts with an empty window; the buffer goes on.            *)
CompleteHandshake ==
    /\ key = 1
    /\ key' = 2
    /\ Rotate
    /\ UNCHANGED <<streamVars, guarded, rekeyed, lost>>

DecodeIncoming(i) == DecodeError(i) \/ Decode(i) \/ InsertUnchecked(i)

ReceiverNext == CompleteHandshake \/ \E i \in Stream : DecodeIncoming(i)

(* The network delivers every frame at least once.                         *)
ReceiverFairness == \A i \in Stream : WF_receiverVars(i \notin arrived /\ DecodeIncoming(i))

ReceiverSpec == ReceiverInit /\ [][ReceiverNext]_receiverVars /\ ReceiverFairness

-----------------------------------------------------------------------------
(* The two halves are well formed and the key is one of the two            *)
(* (session.go:43-68).                                                     *)
ReceiverTypeOK ==
    /\ TypeOK /\ StreamTypeOK
    /\ guarded \in BOOLEAN /\ lost \in BOOLEAN
    /\ rekeyed \in Stream \cup {StreamLength}
    /\ key \in {1, 2}

(* The window lets a frame through exactly when the stream has not had it  *)
(* and nothing WindowSize or more ahead of it has arrived under its key:   *)
(* no rotation lets an old frame back in or shuts a new one out, and a     *)
(* duplicate gets as far as the buffer only in the hands of racing         *)
(* receivers (session.go:152-165, :95-98).                                 *)
ExactlyTheFresh ==
    guarded => \A i \in Stream :
        KeyOf(i) = key =>
            (Acceptable(window, CounterOf(i)) <=>
                /\ i \notin arrived
                /\ \A j \in arrived : KeyOf(j) = key => j - i < WindowSize)

(* A gap, a burst of duplicates or a rotation does not block the stream    *)
(* for ever: if no frame is dropped before it got in, the application has  *)
(* all of them in the end (reorder.go:57-67).                              *)
EverythingDelivered ==
    []~lost => <>[](delivered = InOrder!Prefix(StreamLength))
=============================================================================
