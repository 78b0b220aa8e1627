------------------------------- MODULE Session ------------------------------
(***************************************************************************)
(* One transport.Session (transport/session.go) and the threads that use   *)
(* it: senders in EncodeOutgoing, receivers in DecodeIncoming, and a       *)
(* handshake in CompleteHandshake.  The session's mutex, the two atomic    *)
(* counters, the window's mutex and the buffer's mutex are separate, so    *)
(* each call is the sequence of steps between them.  The peer is another   *)
(* session, used by one thread; its frames reach this one in any order,    *)
(* any number of times, or never.                                          *)
(*                                                                         *)
(* Session keys are numbered by the handshake that derives them; a frame   *)
(* is authenticated by its key and decodes under no other.                 *)
(*                                                                         *)
(* Both ends seal under the same key and connection id, and both count     *)
(* from 0 (session.go:95-97, crypto.go:130-135), so frame n of one end has *)
(* the (key, counter) of frame n of the other: `out' is one direction, and *)
(* what is said of its nonces is said of this end's frames alone.          *)
(***************************************************************************)
EXTENDS ReplayWindow, ReorderBuffer, Sequences

CONSTANTS
    Senders,        \* threads that call EncodeOutgoing
    Receivers,      \* threads that call DecodeIncoming
    MaxKey,         \* bound: handshakes, the first one included
    MaxSent,        \* bound: no EncodeOutgoing begins after this many
    MaxPeerSent     \* bound: frames the peer encodes

ASSUME SessionAssumption ==
    /\ MaxKey \in Nat \ {0}
    /\ MaxSent \in Nat
    /\ MaxPeerSent \in Nat /\ MaxPeerSent < SeqSpace

VARIABLES
    exclusive,      \* every call is made under one mutex: SessionHandle.mu
    handshake,      \* where CompleteHandshake is; "none": the mutex is free
    key,            \* SessionKey
    sendCounter, sendSequence,
    replay,         \* the ReplayWindow
    reorder,        \* the ReorderBuffer
    encoder,        \* where each sender is, and its locals
    decoder,        \* where each receiver is, and its locals
    peer,           \* the peer's key and counters
    wire,           \* the frames the peer has sent
    out,            \* history: the frames this session has encoded
    marked,         \* history: the nonces that passed the replay check
    delivered       \* history: the payloads DecodeIncoming made ready

encoding == <<sendCounter, sendSequence, encoder, out>>
decoding == <<replay, reorder, decoder, marked, delivered>>
peering  == <<peer, wire>>
vars == <<exclusive, handshake, key, encoding, decoding, peering>>

Idle == [at |-> "idle"]
Nonce(frame) == [key |-> frame.key, counter |-> frame.counter]

Init ==
    /\ exclusive \in BOOLEAN
    /\ handshake = "none"
    /\ key = 1
    /\ sendCounter = 0 /\ sendSequence = 0
    /\ replay = NewReplayWindow
    /\ reorder = NewReorderBuffer(0)
    /\ encoder = [t \in Senders |-> Idle]
    /\ decoder = [r \in Receivers |-> Idle]
    /\ peer = [key |-> 1, counter |-> 0, sequence |-> 0]
    /\ wire = {} /\ out = {} /\ marked = {} /\ delivered = << >>

(* Mutant: the handle's mutex is not taken.                                *)
MayBegin_Unlocked == TRUE

(* SessionHandle's mutex lets a call begin only when none is under way.    *)
MayBegin ==
    exclusive => /\ handshake = "none"
                 /\ \A t \in Senders : encoder[t] = Idle
                 /\ \A r \in Receivers : decoder[r] = Idle

-----------------------------------------------------------------------------
(* Mutant: the key is read without RLock.                                  *)
EncodeReadKey_NoRLock(t) ==
    /\ encoder[t] = Idle /\ sendSequence < MaxSent /\ MayBegin
    /\ encoder' = [encoder EXCEPT ![t] = [at |-> "sequence", key |-> key]]
    /\ UNCHANGED <<exclusive, handshake, key, sendCounter, sendSequence, out,
                   decoding, peering>>

(* EncodeOutgoing: the key under RLock, then the sequence number, then the *)
(* nonce counter, each on its own.                                         *)
EncodeReadKey(t) ==
    /\ encoder[t] = Idle /\ sendSequence < MaxSent
    /\ MayBegin /\ handshake = "none"
    /\ encoder' = [encoder EXCEPT ![t] = [at |-> "sequence", key |-> key]]
    /\ UNCHANGED <<exclusive, handshake, key, sendCounter, sendSequence, out,
                   decoding, peering>>

EncodeTakeSequence(t) ==
    /\ encoder[t].at = "sequence"
    /\ encoder' = [encoder EXCEPT
                      ![t] = [at |-> "counter", key |-> @.key, sequence |-> sendSequence]]
    /\ sendSequence' = sendSequence + 1
    /\ UNCHANGED <<exclusive, handshake, key, sendCounter, out, decoding, peering>>

EncodeTakeCounter(t) ==
    /\ encoder[t].at = "counter"
    /\ out' = out \cup {[key |-> encoder[t].key, counter |-> sendCounter,
                         sequence |-> encoder[t].sequence]}
    /\ sendCounter' = sendCounter + 1
    /\ encoder' = [encoder EXCEPT ![t] = Idle]
    /\ UNCHANGED <<exclusive, handshake, key, sendSequence, decoding, peering>>

-----------------------------------------------------------------------------
(* CompleteHandshake, with the mutex held throughout: but threads that do  *)
(* not hold it use the counter and the window in between.  The two ends    *)
(* apply a handshake one after the other, so neither leads by more than    *)
(* one key.                                                                *)
HandshakeInstallKey ==
    /\ handshake = "none" /\ key < MaxKey /\ key <= peer.key
    /\ MayBegin
    /\ handshake' = "counter"
    /\ key' = key + 1
    /\ UNCHANGED <<exclusive, encoding, decoding, peering>>

(* Mutant: the handshake restarts the sequence numbers as well.            *)
HandshakeResetCounter_AndSequence ==
    /\ handshake = "counter"
    /\ handshake' = "window"
    /\ sendCounter' = 0 /\ sendSequence' = 0
    /\ UNCHANGED <<exclusive, key, encoder, out, decoding, peering>>

HandshakeResetCounter ==
    /\ handshake = "counter"
    /\ handshake' = "window"
    /\ sendCounter' = 0
    /\ UNCHANGED <<exclusive, key, sendSequence, encoder, out, decoding, peering>>

(* Mutants: the window is kept; the reorder buffer is reset as well.       *)
HandshakeResetWindow_Kept ==
    /\ handshake = "window"
    /\ handshake' = "none"
    /\ UNCHANGED <<exclusive, key, encoding, decoding, peering>>

HandshakeResetWindow_AndBuffer ==
    /\ handshake = "window"
    /\ handshake' = "none"
    /\ replay' = ResetWindow(replay) /\ reorder' = NewReorderBuffer(0)
    /\ UNCHANGED <<exclusive, key, encoding, decoder, marked, delivered, peering>>

HandshakeResetWindow ==
    /\ handshake = "window"
    /\ handshake' = "none"
    /\ replay' = ResetWindow(replay)
    /\ UNCHANGED <<exclusive, key, encoding, reorder, decoder, marked, delivered, peering>>

-----------------------------------------------------------------------------
(* DecodeIncoming: decode under the key read under RLock, then the replay  *)
(* check, then the reorder buffer.                                         *)
DecodeFrame(r, frame) ==
    /\ decoder[r] = Idle /\ frame.key = key
    /\ MayBegin /\ handshake = "none"
    /\ decoder' = [decoder EXCEPT ![r] = [at |-> "check", frame |-> frame]]
    /\ UNCHANGED <<exclusive, handshake, key, encoding, replay, reorder, marked,
                   delivered, peering>>

(* A frame of another key fails authentication and is dropped.             *)
DecodeError(r, frame) ==
    /\ decoder[r] = Idle /\ frame.key # key
    /\ MayBegin /\ handshake = "none"
    /\ UNCHANGED vars

DecodeCheckReplay(r) ==
    /\ decoder[r].at = "check"
    /\ LET frame == decoder[r].frame
           ok    == Acceptable(replay, frame.counter) IN
       /\ replay' = CheckAndMark(replay, frame.counter)
       /\ marked' = IF ok THEN marked \cup {Nonce(frame)} ELSE marked
       /\ decoder' = [decoder EXCEPT
                         ![r] = IF ok THEN [at |-> "insert", frame |-> frame] ELSE Idle]
    /\ UNCHANGED <<exclusive, handshake, key, encoding, reorder, delivered, peering>>

DecodeInsert(r) ==
    /\ decoder[r].at = "insert"
    /\ LET frame  == decoder[r].frame
           result == Insert(reorder, frame.sequence, frame.sequence) IN
       /\ reorder' = result.buffer
       /\ delivered' = delivered \o result.ready
    /\ decoder' = [decoder EXCEPT ![r] = Idle]
    /\ UNCHANGED <<exclusive, handshake, key, encoding, replay, marked, peering>>

-----------------------------------------------------------------------------
(* The peer's EncodeOutgoing and CompleteHandshake, one call at a time.    *)
PeerSend ==
    /\ peer.sequence < MaxPeerSent
    /\ wire' = wire \cup {peer}
    /\ peer' = [peer EXCEPT !.counter = @ + 1, !.sequence = @ + 1]
    /\ UNCHANGED <<exclusive, handshake, key, encoding, decoding>>

PeerHandshake ==
    /\ peer.key < MaxKey /\ peer.key <= key
    /\ peer' = [peer EXCEPT !.key = @ + 1, !.counter = 0]
    /\ UNCHANGED <<exclusive, handshake, key, encoding, decoding, wire>>

-----------------------------------------------------------------------------
Encode(t) == EncodeReadKey(t) \/ EncodeTakeSequence(t) \/ EncodeTakeCounter(t)
Handshake == HandshakeInstallKey \/ HandshakeResetCounter \/ HandshakeResetWindow
Decode(r) ==
    \/ \E frame \in wire : DecodeFrame(r, frame) \/ DecodeError(r, frame)
    \/ DecodeCheckReplay(r)
    \/ DecodeInsert(r)
Peer == PeerSend \/ PeerHandshake

Next ==
    \/ \E t \in Senders : Encode(t)
    \/ \E r \in Receivers : Decode(r)
    \/ Handshake
    \/ Peer

Spec == Init /\ [][Next]_vars

-----------------------------------------------------------------------------
(* Two frames of one end never share a (key, counter) nonce.               *)
NoncesDistinct(frames) ==
    \A f, g \in frames : Nonce(f) = Nonce(g) => f = g

(* session.go:51-53: the counter for outgoing frames "must never repeat    *)
(* for a given SessionKey".                                                *)
OwnNonceNeverRepeats == NoncesDistinct(out)

(* When every call goes through a SessionHandle (bridge.go:52-131), this   *)
(* end seals no two frames under one (key, counter), across any number of  *)
(* reconnects (session.go:95-100).                                         *)
OwnNonceNeverRepeatsExclusive == exclusive => OwnNonceNeverRepeats

(* Even with racing threads, the frames of the session's current key have  *)
(* distinct counters, all of them already passed by sendCounter: only a    *)
(* thread that read an earlier key can repeat a nonce (session.go:119-126).*)
CurrentKeyNonces ==
    LET current == {f \in out : f.key = key} IN
    /\ NoncesDistinct(current)
    /\ handshake # "counter" => \A f \in current : f.counter < sendCounter

(* A sequence number names one frame for the whole life of the session,    *)
(* reconnects included, and none is skipped: the peer's reorder buffer     *)
(* would drop the second frame, or wait for the missing one                *)
(* (session.go:112-114, :125).                                             *)
SequencesOnce ==
    LET taken == {f.sequence : f \in out}
                 \cup {encoder[t].sequence : t \in {u \in Senders : encoder[u].at = "counter"}}
    IN  /\ \A f, g \in out : f.sequence = g.sequence => f = g
        /\ taken = 0 .. sendSequence - 1

(* Whatever the interleaving of receivers and handshakes, and whatever the *)
(* network repeats, the payloads made ready are the peer's stream from its *)
(* start, each once (session.go:148-169).                                  *)
DeliveredInOrder ==
    /\ delivered = [i \in 1 .. reorder.nextExpected |-> i - 1]
    /\ reorder.nextExpected <= peer.sequence

(* Through a SessionHandle the window speaks of the current key only: a    *)
(* counter it calls seen is one that was accepted under this key           *)
(* (session.go:85-98).                                                     *)
WindowOfCurrentKey ==
    (exclusive /\ handshake = "none") =>
        \A d \in replay.seen : [key |-> key, counter |-> replay.highest - d] \in marked

(* Through a SessionHandle no nonce passes the replay check twice          *)
(* (replay.go:13-15).                                                      *)
AcceptedOnce ==
    [][exclusive =>
        \A r \in Receivers :
            (decoder[r].at = "check" /\ decoder'[r].at = "insert")
                => Nonce(decoder[r].frame) \notin marked]_vars
=============================================================================
