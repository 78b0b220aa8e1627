---------------------------- MODULE SessionProofs ---------------------------
(***************************************************************************)
(* Session, for any sets of threads and any number of handshakes.  The     *)
(* sending side comes first (SendInv): receivers and the peer touch none   *)
(* of its state.  The receiving side (ReceiveInv) looks at senders not at  *)
(* all; what one call does to the window and to the buffer is taken from   *)
(* the proofs about them as values (ReceiverProofs).                       *)
(***************************************************************************)
EXTENDS Session, TLAPS

Encoders ==
    {Idle} \cup [at : {"sequence"}, key : Nat]
           \cup [at : {"counter"}, key : Nat, sequence : Nat]

SendState == <<exclusive, handshake, key, sendCounter, sendSequence, encoder, out>>

SendTypeOK ==
    /\ exclusive \in BOOLEAN
    /\ handshake \in {"none", "counter", "window"}
    /\ key \in Nat /\ sendCounter \in Nat /\ sendSequence \in Nat
    /\ encoder \in [Senders -> Encoders]
    /\ out \subseteq [key : Nat, counter : Nat, sequence : Nat]

(* Keys come from the session and only from its past: while a handshake is *)
(* under way nobody has read the key it installed.                         *)
KeysRead ==
    LET Past(k) == k <= key /\ (handshake # "none" => k < key) IN
    /\ \A t \in Senders : encoder[t] # Idle => Past(encoder[t].key)
    /\ \A f \in out : Past(f.key)

(* What the handle's mutex gives: a call has the session to itself, and    *)
(* the key it has read is still the session's.                             *)
OneCall ==
    exclusive =>
        /\ \A t \in Senders : encoder[t] # Idle =>
              /\ encoder[t].key = key /\ handshake = "none"
              /\ \A u \in Senders \ {t} : encoder[u] = Idle

(* A sequence number that was taken is in one place.                       *)
SequencesPlaced ==
    /\ \A f \in out : f.sequence < sendSequence
    /\ \A f, g \in out : f.sequence = g.sequence => f = g
    /\ \A t \in Senders : encoder[t].at = "counter" =>
          /\ encoder[t].sequence < sendSequence
          /\ \A f \in out : f.sequence # encoder[t].sequence
          /\ \A u \in Senders \ {t} :
                encoder[u].at = "counter" => encoder[u].sequence # encoder[t].sequence
    /\ \A n \in 0 .. sendSequence - 1 :
          \/ \E f \in out : f.sequence = n
          \/ \E t \in Senders : encoder[t].at = "counter" /\ encoder[t].sequence = n

SendInv ==
    /\ SendTypeOK
    /\ KeysRead
    /\ OneCall
    /\ CurrentKeyNonces
    /\ OwnNonceNeverRepeatsExclusive
    /\ SequencesPlaced

-----------------------------------------------------------------------------
LEMMA EncoderShape ==
    ASSUME SendTypeOK, NEW t \in Senders
    PROVE  /\ encoder[t] # Idle => encoder[t].key \in Nat
           /\ encoder[t].at \in {"sequence", "counter"} => encoder[t] # Idle
           /\ encoder[t].at = "counter" => encoder[t].sequence \in Nat
BY DEF SendTypeOK, Encoders, Idle

LEMMA SendInit == Init => SendInv
PROOF
<1> SUFFICES ASSUME Init PROVE SendInv
    OBVIOUS
<1>1. SendTypeOK
    BY DEF Init, SendTypeOK, Encoders
<1>2. \A t \in Senders : encoder[t] = Idle /\ encoder[t].at # "counter"
    BY DEF Init, Idle
<1>3. out = {} /\ sendSequence = 0 /\ handshake = "none"
    BY DEF Init
<1>4. KeysRead /\ OneCall /\ SequencesPlaced
    BY <1>2, <1>3 DEF KeysRead, OneCall, SequencesPlaced
<1>5. CurrentKeyNonces /\ OwnNonceNeverRepeatsExclusive
    BY <1>3 DEF CurrentKeyNonces, OwnNonceNeverRepeatsExclusive, OwnNonceNeverRepeats,
                NoncesDistinct
<1> QED BY <1>1, <1>4, <1>5 DEF SendInv

(* What receivers and the peer do.                                         *)
LEMMA SendStutter == SendInv /\ UNCHANGED SendState => SendInv'
BY DEF SendInv, SendState, SendTypeOK, KeysRead, OneCall, CurrentKeyNonces,
       OwnNonceNeverRepeatsExclusive, OwnNonceNeverRepeats, NoncesDistinct, Nonce,
       SequencesPlaced

LEMMA ReadKeyKeeps ==
    ASSUME SendInv, NEW t \in Senders, EncodeReadKey(t)
    PROVE  SendInv'
PROOF
<1> DEFINE read == [at |-> "sequence", key |-> key]
<1>0. /\ encoder' = [encoder EXCEPT ![t] = read] /\ encoder[t] = Idle
      /\ handshake = "none" /\ MayBegin
      /\ UNCHANGED <<exclusive, handshake, key, sendCounter, sendSequence, out>>
    BY DEF EncodeReadKey
<1>1. SendTypeOK'
    BY <1>0 DEF SendInv, SendTypeOK, Encoders
<1>2. /\ encoder'[t] = read /\ read # Idle /\ read.at # "counter"
      /\ Idle.at # "counter"
      /\ \A u \in Senders \ {t} : encoder'[u] = encoder[u]
    BY <1>0 DEF SendInv, SendTypeOK, Idle
<1>3. KeysRead'
    BY <1>0, <1>2 DEF SendInv, SendTypeOK, KeysRead
<1>4. OneCall'
    BY <1>0, <1>2 DEF SendInv, OneCall, MayBegin
<1>5. CurrentKeyNonces' /\ OwnNonceNeverRepeatsExclusive'
    BY <1>0 DEF SendInv, CurrentKeyNonces, OwnNonceNeverRepeatsExclusive,
                OwnNonceNeverRepeats, NoncesDistinct, Nonce
<1>6. SequencesPlaced'
    BY <1>0, <1>2 DEF SendInv, SequencesPlaced
<1> QED BY <1>1, <1>3, <1>4, <1>5, <1>6 DEF SendInv

LEMMA TakeSequenceKeeps ==
    ASSUME SendInv, NEW t \in Senders, EncodeTakeSequence(t)
    PROVE  SendInv'
PROOF
<1> DEFINE taken == [at |-> "counter", key |-> encoder[t].key, sequence |-> sendSequence]
<1>0. /\ encoder' = [encoder EXCEPT ![t] = taken] /\ encoder[t].at = "sequence"
      /\ sendSequence' = sendSequence + 1
      /\ UNCHANGED <<exclusive, handshake, key, sendCounter, out>>
    BY DEF EncodeTakeSequence
<1>a. encoder[t] # Idle /\ encoder[t].key \in Nat /\ sendSequence \in Nat
    BY <1>0, EncoderShape DEF SendInv, SendTypeOK
<1>1. SendTypeOK'
    BY <1>0, <1>a DEF SendInv, SendTypeOK, Encoders
<1>2. /\ encoder'[t] = taken /\ taken # Idle /\ taken.key = encoder[t].key
      /\ taken.at = "counter" /\ taken.sequence = sendSequence
      /\ \A u \in Senders \ {t} : encoder'[u] = encoder[u]
    BY <1>0 DEF SendInv, SendTypeOK, Idle
<1>3. KeysRead'
    BY <1>0, <1>a, <1>2 DEF SendInv, KeysRead
<1>4. OneCall'
    BY <1>0, <1>a, <1>2 DEF SendInv, OneCall
<1>5. CurrentKeyNonces' /\ OwnNonceNeverRepeatsExclusive'
    BY <1>0 DEF SendInv, CurrentKeyNonces, OwnNonceNeverRepeatsExclusive,
                OwnNonceNeverRepeats, NoncesDistinct, Nonce
<1>6. SequencesPlaced'
    <2> USE DEF SequencesPlaced
    <2>1. \A u \in Senders : encoder[u].at = "counter" => encoder[u].sequence \in Nat
        BY EncoderShape DEF SendInv
    <2>2. \A f \in out : f.sequence \in Nat
        BY DEF SendInv, SendTypeOK
    <2>3. \A f \in out' : f.sequence < sendSequence'
        BY <1>0, <1>a, <2>2 DEF SendInv
    <2>4. \A u \in Senders : encoder'[u].at = "counter" =>
            /\ encoder'[u].sequence < sendSequence'
            /\ \A f \in out' : f.sequence # encoder'[u].sequence
            /\ \A v \in Senders \ {u} :
                  encoder'[v].at = "counter" => encoder'[v].sequence # encoder'[u].sequence
        BY <1>0, <1>a, <1>2, <2>1, <2>2 DEF SendInv
    <2>5. \A n \in 0 .. sendSequence' - 1 :
            \/ \E f \in out' : f.sequence = n
            \/ \E u \in Senders : encoder'[u].at = "counter" /\ encoder'[u].sequence = n
        <3> SUFFICES ASSUME NEW n \in 0 .. sendSequence' - 1
                     PROVE  \/ \E f \in out' : f.sequence = n
                            \/ \E u \in Senders :
                                  encoder'[u].at = "counter" /\ encoder'[u].sequence = n
            OBVIOUS
        <3>1. CASE n = sendSequence
            BY <3>1, <1>2
        <3>2. CASE n \in 0 .. sendSequence - 1
            BY <3>2, <1>0, <1>2 DEF SendInv
        <3> QED BY <3>1, <3>2, <1>0, <1>a
    <2> QED BY <1>0, <2>3, <2>4, <2>5 DEF SendInv
<1> QED BY <1>1, <1>3, <1>4, <1>5, <1>6 DEF SendInv

(* The new frame's sequence number moves from the encoder to out, and its  *)
(* counter, when its key is the current one, is past every other's.        *)
LEMMA TakeCounterKeeps ==
    ASSUME SendInv, NEW t \in Senders, EncodeTakeCounter(t)
    PROVE  SendInv'
PROOF
<1> DEFINE new == [key |-> encoder[t].key, counter |-> sendCounter,
                   sequence |-> encoder[t].sequence]
<1>0. /\ encoder' = [encoder EXCEPT ![t] = Idle] /\ encoder[t].at = "counter"
      /\ out' = out \cup {new}
      /\ sendCounter' = sendCounter + 1
      /\ UNCHANGED <<exclusive, handshake, key, sendSequence>>
    BY DEF EncodeTakeCounter
<1>a. /\ encoder[t] # Idle /\ encoder[t].key \in Nat
      /\ encoder[t].sequence \in Nat /\ sendCounter \in Nat /\ key \in Nat
      /\ handshake \in {"none", "counter", "window"}
    BY <1>0, EncoderShape DEF SendInv, SendTypeOK
<1>b. /\ new.key = encoder[t].key /\ new.counter = sendCounter
      /\ new.sequence = encoder[t].sequence
      /\ new \in [key : Nat, counter : Nat, sequence : Nat]
    BY <1>a
<1>c. \A f \in out : f.key \in Nat /\ f.counter \in Nat /\ f.sequence \in Nat
    BY DEF SendInv, SendTypeOK
<1>1. SendTypeOK'
    BY <1>0, <1>a, <1>b DEF SendInv, SendTypeOK, Encoders
<1>2. /\ encoder'[t] = Idle /\ Idle.at # "counter"
      /\ \A u \in Senders \ {t} : encoder'[u] = encoder[u]
    BY <1>0 DEF SendInv, SendTypeOK, Idle
<1>3. KeysRead'
    BY <1>0, <1>a, <1>b, <1>2 DEF SendInv, KeysRead
<1>4. OneCall'
    BY <1>0, <1>a, <1>2 DEF SendInv, OneCall
<1>5. new.key = key => handshake = "none"
    BY <1>a, <1>b DEF SendInv, KeysRead
<1>6. \A f \in out : f.key = key /\ new.key = key => f.counter < sendCounter
    BY <1>5 DEF SendInv, CurrentKeyNonces
<1>7. CurrentKeyNonces'
    <2>1. handshake = "counter" \/ \A f \in out : f.key = key => f.counter < sendCounter
        BY DEF SendInv, CurrentKeyNonces
    <2>2. \A f, g \in out : f.key = key /\ g.key = key /\ Nonce(f) = Nonce(g) => f = g
        BY DEF SendInv, CurrentKeyNonces, NoncesDistinct
    <2>3. \A f \in out : f.key = key /\ new.key = key => Nonce(f) # Nonce(new)
        BY <1>6, <1>a, <1>b, <1>c DEF Nonce
    <2>4. \A f, g \in out' : f.key = key' /\ g.key = key' /\ Nonce(f) = Nonce(g) => f = g
        BY <1>0, <2>2, <2>3
    <2>5. handshake' # "counter" => \A f \in out' : f.key = key' => f.counter < sendCounter'
        BY <1>0, <1>a, <1>b, <1>c, <2>1
    <2> QED BY <2>4, <2>5 DEF CurrentKeyNonces, NoncesDistinct, Nonce
<1>8. OwnNonceNeverRepeatsExclusive'
    <2> SUFFICES ASSUME exclusive' PROVE NoncesDistinct(out)'
        BY DEF OwnNonceNeverRepeatsExclusive, OwnNonceNeverRepeats
    <2>1. exclusive /\ new.key = key
        BY <1>0, <1>a, <1>b DEF SendInv, OneCall
    <2>2. \A f, g \in out : Nonce(f) = Nonce(g) => f = g
        BY <2>1 DEF SendInv, OwnNonceNeverRepeatsExclusive, OwnNonceNeverRepeats, NoncesDistinct
    <2>3. \A f \in out : Nonce(f) # Nonce(new)
        BY <1>6, <1>a, <1>b, <1>c, <2>1 DEF Nonce
    <2>4. \A f, g \in out' : Nonce(f) = Nonce(g) => f = g
        BY <1>0, <2>2, <2>3
    <2> QED BY <2>4 DEF NoncesDistinct, Nonce
<1>9. SequencesPlaced'
    <2> USE DEF SequencesPlaced
    <2>1. \A f \in out' : f.sequence < sendSequence'
        BY <1>0, <1>b DEF SendInv
    <2>2. \A f, g \in out' : f.sequence = g.sequence => f = g
        BY <1>0, <1>b DEF SendInv
    <2>3. \A u \in Senders : encoder'[u].at = "counter" =>
            /\ encoder'[u].sequence < sendSequence'
            /\ \A f \in out' : f.sequence # encoder'[u].sequence
            /\ \A v \in Senders \ {u} :
                  encoder'[v].at = "counter" => encoder'[v].sequence # encoder'[u].sequence
        BY <1>0, <1>b, <1>2 DEF SendInv
    <2>4. \A n \in 0 .. sendSequence' - 1 :
            \/ \E f \in out' : f.sequence = n
            \/ \E u \in Senders : encoder'[u].at = "counter" /\ encoder'[u].sequence = n
        <3> SUFFICES ASSUME NEW n \in 0 .. sendSequence - 1
                     PROVE  \/ \E f \in out' : f.sequence = n
                            \/ \E u \in Senders :
                                  encoder'[u].at = "counter" /\ encoder'[u].sequence = n
            BY <1>0
        <3>1. CASE \E f \in out : f.sequence = n
            BY <3>1, <1>0
        <3>2. CASE encoder[t].sequence = n
            BY <3>2, <1>0, <1>b
        <3>3. ASSUME NEW u \in Senders \ {t},
                     encoder[u].at = "counter", encoder[u].sequence = n
              PROVE  \E v \in Senders :
                        encoder'[v].at = "counter" /\ encoder'[v].sequence = n
            BY <3>3, <1>2
        <3> QED BY <3>1, <3>2, <3>3 DEF SendInv
    <2> QED BY <2>1, <2>2, <2>3, <2>4
<1> QED BY <1>1, <1>3, <1>4, <1>7, <1>8, <1>9 DEF SendInv

-----------------------------------------------------------------------------
(* The new key is in no frame and no encoder.                              *)
LEMMA InstallKeyKeeps == SendInv /\ HandshakeInstallKey => SendInv'
PROOF
<1> SUFFICES ASSUME SendInv, HandshakeInstallKey PROVE SendInv'
    OBVIOUS
<1>0. /\ handshake = "none" /\ handshake' = "counter" /\ key' = key + 1 /\ MayBegin
      /\ UNCHANGED <<exclusive, sendCounter, sendSequence, encoder, out>>
    BY DEF HandshakeInstallKey, encoding
<1>1. SendTypeOK'
    BY <1>0 DEF SendInv, SendTypeOK
<1>2. /\ \A t \in Senders : encoder[t] # Idle => encoder[t].key \in Nat
      /\ \A f \in out : f.key \in Nat
      /\ key \in Nat
    BY EncoderShape DEF SendInv, SendTypeOK
<1>3. KeysRead'
    BY <1>0, <1>2 DEF SendInv, KeysRead
<1>4. OneCall'
    BY <1>0 DEF OneCall, MayBegin
<1>5. \A f \in out : f.key # key'
    BY <1>0, <1>2 DEF SendInv, KeysRead
<1>6. CurrentKeyNonces'
    BY <1>0, <1>5 DEF CurrentKeyNonces, NoncesDistinct
<1>7. OwnNonceNeverRepeatsExclusive' /\ SequencesPlaced'
    BY <1>0 DEF SendInv, OwnNonceNeverRepeatsExclusive, OwnNonceNeverRepeats, NoncesDistinct,
                Nonce, SequencesPlaced
<1> QED BY <1>1, <1>3, <1>4, <1>6, <1>7 DEF SendInv

LEMMA ResetCounterKeeps == SendInv /\ HandshakeResetCounter => SendInv'
PROOF
<1> SUFFICES ASSUME SendInv, HandshakeResetCounter PROVE SendInv'
    OBVIOUS
<1>0. /\ handshake = "counter" /\ handshake' = "window" /\ sendCounter' = 0
      /\ UNCHANGED <<exclusive, key, sendSequence, encoder, out>>
    BY DEF HandshakeResetCounter
<1>1. SendTypeOK'
    BY <1>0 DEF SendInv, SendTypeOK
<1>2. KeysRead' /\ OneCall'
    BY <1>0 DEF SendInv, KeysRead, OneCall
<1>3. \A f \in out : f.key # key'
    BY <1>0 DEF SendInv, SendTypeOK, KeysRead
<1>4. CurrentKeyNonces'
    BY <1>0, <1>3 DEF CurrentKeyNonces, NoncesDistinct
<1>5. OwnNonceNeverRepeatsExclusive' /\ SequencesPlaced'
    BY <1>0 DEF SendInv, OwnNonceNeverRepeatsExclusive, OwnNonceNeverRepeats, NoncesDistinct,
                Nonce, SequencesPlaced
<1> QED BY <1>1, <1>2, <1>4, <1>5 DEF SendInv

LEMMA ResetWindowKeeps == SendInv /\ HandshakeResetWindow => SendInv'
PROOF
<1> SUFFICES ASSUME SendInv, HandshakeResetWindow PROVE SendInv'
    OBVIOUS
<1>0. /\ handshake = "window" /\ handshake' = "none"
      /\ UNCHANGED <<exclusive, key, sendCounter, sendSequence, encoder, out>>
    BY DEF HandshakeResetWindow, encoding
<1>1. SendTypeOK' /\ KeysRead'
    BY <1>0 DEF SendInv, SendTypeOK, KeysRead
<1>2. OneCall'
    BY <1>0 DEF SendInv, OneCall
<1>3. CurrentKeyNonces'
    BY <1>0 DEF SendInv, CurrentKeyNonces, NoncesDistinct, Nonce
<1>4. OwnNonceNeverRepeatsExclusive' /\ SequencesPlaced'
    BY <1>0 DEF SendInv, OwnNonceNeverRepeatsExclusive, OwnNonceNeverRepeats, NoncesDistinct,
                Nonce, SequencesPlaced
<1> QED BY <1>1, <1>2, <1>3, <1>4 DEF SendInv

-----------------------------------------------------------------------------
LEMMA SendNext == SendInv /\ [Next]_vars => SendInv'
PROOF
<1> SUFFICES ASSUME SendInv, [Next]_vars PROVE SendInv'
    OBVIOUS
<1>1. ASSUME NEW t \in Senders, Encode(t) PROVE SendInv'
    BY <1>1, ReadKeyKeeps, TakeSequenceKeeps, TakeCounterKeeps DEF Encode
<1>2. CASE Handshake
    BY <1>2, InstallKeyKeeps, ResetCounterKeeps, ResetWindowKeeps DEF Handshake
<1>3. ASSUME NEW r \in Receivers, Decode(r) PROVE SendInv'
    BY <1>3, SendStutter DEF Decode, DecodeFrame, DecodeError, DecodeCheckReplay,
                             DecodeInsert, SendState, encoding, vars
<1>4. CASE Peer
    BY <1>4, SendStutter DEF Peer, PeerSend, PeerHandshake, SendState, encoding
<1>5. CASE UNCHANGED vars
    BY <1>5, SendStutter DEF vars, SendState, encoding
<1> QED BY <1>1, <1>2, <1>3, <1>4, <1>5 DEF Next

LEMMA SendAlways == Spec => []SendInv
BY SendInit, SendNext, PTL DEF Spec

(* Through a SessionHandle this end seals no two frames under one nonce,   *)
(* however many reconnects there are (bridge.go:52-131, session.go:95-100).*)
(* The peer's frames have the same nonces: see the head of Session.        *)
THEOREM OwnNoncesOnceExclusive == Spec => []OwnNonceNeverRepeatsExclusive
PROOF
<1>1. SendInv => OwnNonceNeverRepeatsExclusive
    BY DEF SendInv
<1> QED BY <1>1, SendAlways, PTL

(* Without it, no two of its frames of the current key share a nonce       *)
(* (session.go:119-126).                                                   *)
THEOREM CurrentKeyNoncesOnce == Spec => []CurrentKeyNonces
PROOF
<1>1. SendInv => CurrentKeyNonces
    BY DEF SendInv
<1> QED BY <1>1, SendAlways, PTL

(* Every sequence number names one frame and none is skipped               *)
(* (session.go:112-114, :125).                                             *)
THEOREM SequencesAlwaysOnce == Spec => []SequencesOnce
PROOF
<1>1. SendInv => SequencesOnce
    <2> SUFFICES ASSUME SendInv PROVE SequencesOnce
        OBVIOUS
    <2> DEFINE taken == {f.sequence : f \in out}
                 \cup {encoder[t].sequence : t \in {u \in Senders : encoder[u].at = "counter"}}
    <2>1. /\ sendSequence \in Nat
          /\ \A f \in out : f.sequence \in Nat
          /\ \A t \in Senders : encoder[t].at = "counter" => encoder[t].sequence \in Nat
        BY EncoderShape DEF SendInv, SendTypeOK
    <2>2. taken \subseteq 0 .. sendSequence - 1
        BY <2>1 DEF SendInv, SequencesPlaced
    <2>3. 0 .. sendSequence - 1 \subseteq taken
        BY DEF SendInv, SequencesPlaced
    <2>4. taken = 0 .. sendSequence - 1
        BY <2>2, <2>3
    <2> QED BY <2>4 DEF SendInv, SequencesPlaced, SequencesOnce
<1> QED BY <1>1, SendAlways, PTL

-----------------------------------------------------------------------------
(* The lemmas about windows and buffers speak of no variable, so what the  *)
(* variables of Receiver stand for does not matter.                        *)
Value == INSTANCE ReceiverProofs
    WITH Counters <- Nat, StreamLength <- MaxPeerSent,
         window <- replay, accepted <- {}, verdict <- 0,
         buffer <- reorder, arrived <- {}, delivered <- delivered,
         guarded <- FALSE, rekeyed <- 0, key <- key, lost <- FALSE

Remembers(w, S) == Value!Remembers(w, S)
Buffered(r, n, got, done) == Value!Buffered(r, n, got, done)

Frames == [key : Nat, counter : Nat, sequence : 0 .. MaxPeerSent - 1]
Decoders == {Idle} \cup [at : {"check", "insert"}, frame : Frames]

ReceiveTypeOK ==
    /\ decoder \in [Receivers -> Decoders]
    /\ wire \subseteq Frames
    /\ peer \in [key : Nat, counter : Nat, sequence : 0 .. MaxPeerSent]

(* What a receiver has in hand the peer has sent, under a key of the past  *)
(* or the present; through a handle, under the present one.                *)
InHand ==
    /\ \A f \in wire : f.sequence < peer.sequence
    /\ \A r \in Receivers : decoder[r] # Idle =>
          LET frame == decoder[r].frame IN
          /\ frame.sequence < peer.sequence
          /\ frame.key <= key /\ (handshake # "none" => frame.key < key)
          /\ exclusive => frame.key = key /\ handshake = "none"

(* The buffer has what it was given of the frames that the peer has sent.  *)
Given == (0 .. reorder.nextExpected - 1) \cup DOMAIN reorder.pending

StreamKept == Buffered(reorder, peer.sequence, Given, delivered)

(* No nonce of a key that no receiver has read is marked; through a handle *)
(* the window remembers those of the current key.                          *)
MarkedUnder(k) == {c \in Nat : [key |-> k, counter |-> c] \in marked}

WindowKept ==
    /\ \A k \in Nat : k > key \/ (handshake # "none" /\ k = key) => MarkedUnder(k) = {}
    /\ exclusive => replay \in Windows /\ (handshake = "none" => Remembers(replay, MarkedUnder(key)))

ReceiveInv == ReceiveTypeOK /\ InHand /\ StreamKept /\ WindowKept

-----------------------------------------------------------------------------
LEMMA SameValues ==
    /\ \A r, n, payload : Value!Insert(r, n, payload) = Insert(r, n, payload)
    /\ \A w, c : Value!Acceptable(w, c) <=> Acceptable(w, c)
    /\ \A w, c : Value!Marked(w, c) = Marked(w, c)
    /\ \A w : Value!ResetWindow(w) = ResetWindow(w)
    /\ Value!NewReplayWindow = NewReplayWindow /\ Value!NewReorderBuffer(0) = NewReorderBuffer(0)
    /\ Value!Windows = Windows
PROOF
<1>1. \A r, n, payload : Value!Insert(r, n, payload) = Insert(r, n, payload)
    BY DEF Value!Insert, Insert, Value!Duplicate, Duplicate, Value!Store, Store, Value!Flush, Flush,
           Value!RunEnd, RunEnd, Value!Uint32, Uint32
<1>2. /\ \A w, c : Value!Acceptable(w, c) <=> Acceptable(w, c)
      /\ \A w, c : Value!Marked(w, c) = Marked(w, c)
      /\ \A w : Value!ResetWindow(w) = ResetWindow(w)
    BY DEF Value!Acceptable, Acceptable, Value!Marked, Marked, Value!ShiftLeft, ShiftLeft,
           Value!Offsets, Offsets, Value!ResetWindow, ResetWindow
<1>3. /\ Value!NewReplayWindow = NewReplayWindow /\ Value!NewReorderBuffer(0) = NewReorderBuffer(0)
      /\ Value!Windows = Windows
    BY DEF Value!NewReplayWindow, NewReplayWindow, Value!NewReorderBuffer, NewReorderBuffer,
           Value!NoPending, NoPending, Value!Windows, Windows, Value!Offsets, Offsets
<1> QED BY <1>1, <1>2, <1>3

(* What the lemmas of ReceiverProofs assume of its constants.              *)
LEMMA ValueAssumptions ==
    /\ MaxPeerSent \in Nat /\ MaxPeerSent < SeqSpace
    /\ 0 .. MaxPeerSent - 1 \subseteq Nat
BY SessionAssumption

LEMMA WindowMarks ==
    ASSUME NEW w, NEW S, Remembers(w, S), NEW c \in Nat, Acceptable(w, c)
    PROVE  c \notin S /\ Remembers(Marked(w, c), S \cup {c})
PROOF
<1>1. Value!Acceptable(w, c) /\ Value!Remembers(w, S)
    BY SameValues DEF Remembers
<1>2. Value!Remembers(Value!Marked(w, c), S \cup {c})
    BY <1>1, Value!MarkedRemembers, WindowAssumption, SeqSpaceAssumption, ValueAssumptions
    DEF Value!Stream, Value!InOrder!Stream
<1>3. c \notin S
    BY <1>1, Value!AcceptableRemembers, WindowAssumption, SeqSpaceAssumption, ValueAssumptions
    DEF Value!Stream, Value!InOrder!Stream
<1> QED BY <1>2, <1>3, SameValues DEF Remembers

LEMMA BufferInserts ==
    ASSUME NEW n \in 0 .. MaxPeerSent, NEW r, NEW got, NEW done, Buffered(r, n, got, done),
           NEW i \in 0 .. n - 1
    PROVE  Buffered(Insert(r, i, i).buffer, n, got \cup {i}, done \o Insert(r, i, i).ready)
PROOF
<1>1. n \in Nat /\ n < SeqSpace
    BY ValueAssumptions, SeqSpaceAssumption
<1>2. Value!Buffered(Value!Insert(r, i, i).buffer, n, got \cup {i},
                     done \o Value!Insert(r, i, i).ready)
    BY <1>1, Value!InsertKeeps, WindowAssumption, SeqSpaceAssumption, ValueAssumptions
    DEF Buffered, Value!Stream, Value!InOrder!Stream
<1> QED BY <1>2, SameValues DEF Buffered

LEMMA BothEmpty ==
    /\ Remembers(NewReplayWindow, {})
    /\ \A w \in Windows : Remembers(ResetWindow(w), {})
    /\ Buffered(NewReorderBuffer(0), 0, {}, << >>)
PROOF
<1>1. /\ Value!Remembers(Value!NewReplayWindow, {})
      /\ \A w \in Value!Windows : Value!Remembers(Value!ResetWindow(w), {})
    BY Value!EmptyRemembers, WindowAssumption, SeqSpaceAssumption, ValueAssumptions
    DEF Value!Stream, Value!InOrder!Stream
<1>2. Value!Buffered(Value!NewReorderBuffer(0), 0, {}, << >>)
    BY Value!EmptyBuffered, WindowAssumption, SeqSpaceAssumption, ValueAssumptions
    DEF Value!Stream, Value!InOrder!Stream
<1> QED BY <1>1, <1>2, SameValues DEF Remembers, Buffered

(* More frames of the stream exist than did.                               *)
LEMMA BufferedLonger ==
    ASSUME NEW n \in Nat, NEW r, NEW got, NEW done, Buffered(r, n, got, done)
    PROVE  Buffered(r, n + 1, got, done)
PROOF
<1>1. /\ \A k \in 0 .. n : k \in 0 .. n + 1
      /\ \A k \in 0 .. n - 1 : k \in 0 .. n + 1 - 1
    OBVIOUS
<1> QED BY <1>1 DEF Buffered, Value!Buffered

(* What the buffer was given can be read off the buffer.                   *)
LEMMA GivenExact ==
    ASSUME NEW n \in Nat, NEW r, NEW got, NEW done, Buffered(r, n, got, done)
    PROVE  got = (0 .. r.nextExpected - 1) \cup DOMAIN r.pending
PROOF
<1>1. /\ r.nextExpected \in 0 .. n /\ got \subseteq 0 .. n - 1
      /\ DOMAIN r.pending = {i \in got : i >= r.nextExpected}
      /\ \A i \in 0 .. r.nextExpected - 1 : i \in got
    BY DEF Buffered, Value!Buffered
<1>2. ASSUME NEW i \in got PROVE i \in 0 .. r.nextExpected - 1 \/ i \in DOMAIN r.pending
    BY <1>1
<1> QED BY <1>1, <1>2

LEMMA DecoderShape ==
    ASSUME ReceiveTypeOK, NEW r \in Receivers
    PROVE  /\ decoder[r] # Idle => decoder[r].frame \in Frames
           /\ decoder[r].at \in {"check", "insert"} => decoder[r] # Idle
BY DEF ReceiveTypeOK, Decoders, Idle

-----------------------------------------------------------------------------
LEMMA ReceiveInit == Init => ReceiveInv
PROOF
<1> SUFFICES ASSUME Init PROVE ReceiveInv
    OBVIOUS
<1>1. ReceiveTypeOK
    BY SessionAssumption DEF Init, ReceiveTypeOK, Decoders
<1>2. InHand
    BY DEF Init, InHand
<1>3. StreamKept
    <2>1. Given = {}
        BY DEF Init, Given, NewReorderBuffer, NoPending
    <2> QED BY <2>1, BothEmpty DEF Init, StreamKept
<1>4. WindowKept
    <2>1. \A k : MarkedUnder(k) = {}
        BY DEF Init, MarkedUnder
    <2> QED BY <2>1, BothEmpty DEF Init, WindowKept, Remembers, Value!Remembers, Value!Windows, Windows,
               Value!Offsets, Offsets
<1> QED BY <1>1, <1>2, <1>3, <1>4 DEF ReceiveInv

(* What senders do.                                                        *)
LEMMA ReceiveStutter ==
    ASSUME ReceiveInv, UNCHANGED <<exclusive, handshake, key, decoding, peering>>
    PROVE  ReceiveInv'
PROOF
<1>1. UNCHANGED <<exclusive, handshake, key, replay, reorder, decoder, marked, delivered, peer, wire>>
    BY DEF decoding, peering
<1>2. (ReceiveTypeOK /\ InHand)'
    BY <1>1 DEF ReceiveInv, ReceiveTypeOK, InHand
<1>3. StreamKept'
    BY <1>1 DEF ReceiveInv, StreamKept, Given, Buffered, Value!Buffered
<1>4. WindowKept'
    BY <1>1 DEF ReceiveInv, WindowKept, MarkedUnder, Remembers, Value!Remembers
<1> QED BY <1>2, <1>3, <1>4 DEF ReceiveInv

-----------------------------------------------------------------------------
LEMMA DecodeFrameKeeps ==
    ASSUME SendTypeOK, ReceiveInv, NEW r \in Receivers, NEW frame \in wire, DecodeFrame(r, frame)
    PROVE  ReceiveInv'
PROOF
<1> DEFINE place == [at |-> "check", frame |-> frame]
<1>1. /\ frame.key = key /\ handshake = "none" /\ MayBegin
      /\ decoder' = [decoder EXCEPT ![r] = place]
      /\ UNCHANGED <<exclusive, handshake, key, replay, reorder, marked, delivered, peer, wire>>
    BY DEF DecodeFrame, peering
<1>2. frame \in Frames /\ place \in Decoders
    BY DEF ReceiveInv, ReceiveTypeOK, Decoders
<1>3. /\ decoder'[r] = place /\ place.frame = frame
      /\ \A q \in Receivers \ {r} : decoder'[q] = decoder[q]
    BY <1>1 DEF ReceiveInv, ReceiveTypeOK
<1>4. ReceiveTypeOK'
    BY <1>1, <1>2 DEF ReceiveInv, ReceiveTypeOK
<1>5. InHand'
    <2>1. frame.sequence < peer.sequence /\ frame.key <= key
        BY <1>1 DEF ReceiveInv, InHand, SendTypeOK
    <2> HIDE DEF place
    <2> QED BY <1>1, <1>3, <2>1 DEF ReceiveInv, InHand
<1>6. StreamKept' /\ WindowKept'
    BY <1>1 DEF ReceiveInv, StreamKept, Given, WindowKept, MarkedUnder, Buffered, Value!Buffered,
                Remembers, Value!Remembers
<1> QED BY <1>4, <1>5, <1>6 DEF ReceiveInv

(* A receiver that is done, or has passed its frame on, has nothing in     *)
(* hand that it did not have before.                                       *)
LEMMA InHandKept ==
    ASSUME ReceiveTypeOK, InHand, NEW r \in Receivers, decoder[r] # Idle,
           NEW place, place = Idle \/ place = [at |-> "insert", frame |-> decoder[r].frame],
           decoder' = [decoder EXCEPT ![r] = place],
           UNCHANGED <<exclusive, handshake, key, peer, wire>>
    PROVE  ReceiveTypeOK' /\ InHand'
PROOF
<1>1. decoder[r].frame \in Frames
    BY DecoderShape
<1>2. place \in Decoders /\ (place # Idle => place.frame = decoder[r].frame)
    BY <1>1 DEF Decoders
<1>3. decoder'[r] = place /\ \A q \in Receivers \ {r} : decoder'[q] = decoder[q]
    BY DEF ReceiveTypeOK
<1>4. ReceiveTypeOK'
    BY <1>2 DEF ReceiveTypeOK
<1> QED BY <1>2, <1>3, <1>4 DEF InHand

(* The nonce of the frame in hand joins those of its key.                  *)
LEMMA MarkedJoins ==
    ASSUME NEW frame \in Frames, marked' = marked \cup {Nonce(frame)}
    PROVE  \A k \in Nat : MarkedUnder(k)' =
                IF k = frame.key THEN MarkedUnder(k) \cup {frame.counter} ELSE MarkedUnder(k)
BY DEF MarkedUnder, Nonce, Frames

LEMMA CheckKeeps ==
    ASSUME SendTypeOK, ReceiveInv, NEW r \in Receivers, DecodeCheckReplay(r)
    PROVE  /\ ReceiveInv'
           /\ exclusive /\ decoder'[r].at = "insert" => Nonce(decoder[r].frame) \notin marked
PROOF
<1>0. PICK frame : frame = decoder[r].frame
    OBVIOUS
<1>1. /\ frame \in Frames /\ decoder[r] # Idle
      /\ frame.key <= key /\ (handshake # "none" => frame.key < key)
      /\ exclusive => frame.key = key /\ handshake = "none"
    BY <1>0, DecoderShape DEF DecodeCheckReplay, ReceiveInv, InHand
<1>2. /\ frame.key \in Nat /\ frame.counter \in Nat /\ key \in Nat
      /\ frame.counter \in MarkedUnder(frame.key) <=> Nonce(frame) \in marked
    BY <1>1 DEF Frames, SendTypeOK, MarkedUnder, Nonce
<1>3. UNCHANGED <<exclusive, handshake, key, reorder, delivered, peer, wire>>
    BY DEF DecodeCheckReplay, peering
<1>4. StreamKept'
    BY <1>3 DEF ReceiveInv, StreamKept, Given, Buffered, Value!Buffered
<1>5. CASE Acceptable(replay, frame.counter)
    <2>1. /\ replay' = Marked(replay, frame.counter)
          /\ marked' = marked \cup {Nonce(frame)}
          /\ decoder' = [decoder EXCEPT ![r] = [at |-> "insert", frame |-> decoder[r].frame]]
        BY <1>0, <1>5 DEF DecodeCheckReplay, CheckAndMark
    <2>2. ReceiveTypeOK' /\ InHand'
        BY <1>1, <1>3, <2>1, InHandKept DEF ReceiveInv
    <2>3. ASSUME exclusive
          PROVE  frame.counter \notin MarkedUnder(key)
                 /\ Remembers(replay', MarkedUnder(key) \cup {frame.counter})
        <3>1. Remembers(replay, MarkedUnder(key))
            BY <1>1, <2>3 DEF ReceiveInv, WindowKept
        <3> QED BY <1>2, <1>5, <2>1, <3>1, WindowMarks
    <2>4. \A k \in Nat : MarkedUnder(k)' =
                IF k = frame.key THEN MarkedUnder(k) \cup {frame.counter} ELSE MarkedUnder(k)
        BY <1>1, <2>1, MarkedJoins
    <2>5. WindowKept'
        <3>1. ASSUME NEW k \in Nat, k > key \/ (handshake # "none" /\ k = key)
              PROVE  MarkedUnder(k)' = {}
            BY <1>1, <1>2, <2>4, <3>1 DEF ReceiveInv, WindowKept
        <3>2. ASSUME exclusive PROVE Remembers(replay', MarkedUnder(key)')
            <4>1. PICK k \in Nat : k = key
                BY <1>2
            <4>2. MarkedUnder(k)' = MarkedUnder(k) \cup {frame.counter}
                BY <1>1, <2>4, <3>2, <4>1
            <4>3. MarkedUnder(key)' = MarkedUnder(k)'
                BY <1>3, <4>1 DEF MarkedUnder
            <4> QED BY <2>3, <3>2, <4>1, <4>2, <4>3
        <3>3. ASSUME exclusive PROVE replay' \in Windows
            BY <3>2, <3>3, SameValues DEF Remembers, Value!Remembers
        <3>4. Remembers(replay', MarkedUnder(key)') => Remembers(replay, MarkedUnder(key))'
            BY <1>3 DEF Remembers, Value!Remembers, MarkedUnder
        <3> QED BY <1>3, <3>1, <3>2, <3>3, <3>4 DEF WindowKept
    <2>6. exclusive => Nonce(decoder[r].frame) \notin marked
        BY <1>0, <1>1, <1>2, <2>3
    <2> QED BY <1>4, <2>2, <2>5, <2>6 DEF ReceiveInv
<1>6. CASE ~Acceptable(replay, frame.counter)
    <2>1. /\ UNCHANGED <<replay, marked>>
          /\ decoder' = [decoder EXCEPT ![r] = Idle]
        BY <1>0, <1>6 DEF DecodeCheckReplay, CheckAndMark
    <2>2. ReceiveTypeOK' /\ InHand'
        BY <1>1, <1>3, <2>1, InHandKept DEF ReceiveInv
    <2>3. WindowKept'
        BY <1>3, <2>1 DEF ReceiveInv, WindowKept, MarkedUnder, Remembers, Value!Remembers
    <2>4. decoder'[r].at # "insert"
        BY <2>1 DEF ReceiveInv, ReceiveTypeOK, Idle
    <2> QED BY <1>4, <2>2, <2>3, <2>4 DEF ReceiveInv
<1> QED BY <1>5, <1>6

LEMMA InsertKeeps ==
    ASSUME ReceiveInv, NEW r \in Receivers, DecodeInsert(r)
    PROVE  ReceiveInv'
PROOF
<1>0. PICK i : i = decoder[r].frame.sequence
    OBVIOUS
<1>1. /\ reorder' = Insert(reorder, i, i).buffer
      /\ delivered' = delivered \o Insert(reorder, i, i).ready
      /\ decoder' = [decoder EXCEPT ![r] = Idle] /\ decoder[r] # Idle
      /\ UNCHANGED <<exclusive, handshake, key, replay, marked, peer, wire>>
    BY <1>0, DecoderShape DEF DecodeInsert, peering, ReceiveInv
<1>2. ReceiveTypeOK' /\ InHand'
    BY <1>1, InHandKept DEF ReceiveInv
<1>3. peer.sequence \in 0 .. MaxPeerSent /\ i \in 0 .. peer.sequence - 1
    <2>1. decoder[r].frame \in Frames
        BY <1>1, DecoderShape DEF ReceiveInv
    <2>2. i \in 0 .. MaxPeerSent - 1
        BY <1>0, <2>1 DEF Frames
    <2>3. i < peer.sequence /\ peer.sequence \in 0 .. MaxPeerSent
        BY <1>0, <1>1 DEF ReceiveInv, InHand, ReceiveTypeOK
    <2> QED BY <2>2, <2>3, ValueAssumptions
<1>4. Buffered(reorder', peer.sequence, Given \cup {i}, delivered')
    BY <1>1, <1>3, BufferInserts DEF ReceiveInv, StreamKept
<1>5. Given' = Given \cup {i}
    <2>1. peer.sequence \in Nat
        BY <1>3, ValueAssumptions
    <2> QED BY <1>4, <2>1, GivenExact DEF Given
<1>6. StreamKept'
    BY <1>1, <1>4, <1>5 DEF StreamKept, Buffered, Value!Buffered
<1>7. WindowKept'
    BY <1>1 DEF ReceiveInv, WindowKept, MarkedUnder, Remembers, Value!Remembers
<1> QED BY <1>2, <1>6, <1>7 DEF ReceiveInv

LEMMA HandshakeReceives ==
    ASSUME SendTypeOK, ReceiveInv, Handshake
    PROVE  ReceiveInv'
PROOF
<1>1. UNCHANGED <<exclusive, reorder, decoder, marked, delivered, peer, wire>>
    BY DEF Handshake, HandshakeInstallKey, HandshakeResetCounter, HandshakeResetWindow,
           decoding, peering
<1>2. StreamKept' /\ ReceiveTypeOK'
    BY <1>1 DEF ReceiveInv, StreamKept, Given, Buffered, Value!Buffered, ReceiveTypeOK
<1>3. \A k : MarkedUnder(k)' = MarkedUnder(k)
    BY <1>1 DEF MarkedUnder
<1>4. key \in Nat /\ \A r \in Receivers : decoder[r] # Idle => decoder[r].frame.key \in Nat
    BY DecoderShape DEF SendTypeOK, ReceiveInv, Frames
<1>5. CASE HandshakeInstallKey
    <2>1. /\ handshake = "none" /\ handshake' = "counter" /\ key' = key + 1 /\ MayBegin
          /\ replay' = replay
        BY <1>5 DEF HandshakeInstallKey, decoding
    <2>2. InHand'
        BY <1>1, <1>4, <2>1 DEF ReceiveInv, InHand, MayBegin
    <2>3. WindowKept'
        <3>1. \A k \in Nat : k >= key + 1 => MarkedUnder(k) = {}
            BY <1>4 DEF ReceiveInv, WindowKept
        <3>2. \A k \in Nat : k > key' \/ (handshake' # "none" /\ k = key') => MarkedUnder(k)' = {}
            BY <1>3, <1>4, <2>1, <3>1
        <3> QED BY <1>1, <2>1, <3>2 DEF ReceiveInv, WindowKept
    <2> QED BY <1>2, <2>2, <2>3 DEF ReceiveInv
<1>6. CASE HandshakeResetCounter
    <2>1. handshake = "counter" /\ handshake' = "window" /\ UNCHANGED <<key, replay>>
        BY <1>6 DEF HandshakeResetCounter, decoding
    <2> QED BY <1>1, <1>2, <1>3, <2>1 DEF ReceiveInv, InHand, WindowKept
<1>7. CASE HandshakeResetWindow
    <2>1. /\ handshake = "window" /\ handshake' = "none" /\ key' = key
          /\ replay' = ResetWindow(replay)
        BY <1>7 DEF HandshakeResetWindow
    <2>2. InHand'
        BY <1>1, <2>1 DEF ReceiveInv, InHand
    <2>3. MarkedUnder(key)' = {}
        <3>1. MarkedUnder(key) = {}
            BY <1>4, <2>1 DEF ReceiveInv, WindowKept
        <3> QED BY <1>1, <2>1, <3>1 DEF MarkedUnder
    <2>4. ASSUME exclusive PROVE Remembers(replay', MarkedUnder(key)') /\ replay' \in Windows
        <3>1. Remembers(replay', MarkedUnder(key)')
            BY <2>1, <2>3, <2>4, BothEmpty DEF ReceiveInv, WindowKept
        <3> QED BY <3>1, SameValues DEF Remembers, Value!Remembers
    <2>5. Remembers(replay', MarkedUnder(key)') => Remembers(replay, MarkedUnder(key))'
        BY DEF Remembers, Value!Remembers, MarkedUnder
    <2>6. \A k \in Nat : k > key' => MarkedUnder(k)' = {}
        BY <1>3, <2>1 DEF ReceiveInv, WindowKept
    <2>7. WindowKept'
        BY <1>1, <2>1, <2>4, <2>5, <2>6 DEF WindowKept
    <2> QED BY <1>2, <2>2, <2>7 DEF ReceiveInv
<1> QED BY <1>5, <1>6, <1>7 DEF Handshake

LEMMA PeerKeeps ==
    ASSUME ReceiveInv, Peer
    PROVE  ReceiveInv'
PROOF
<1>1. UNCHANGED <<exclusive, handshake, key, replay, reorder, decoder, marked, delivered>>
    BY DEF Peer, PeerSend, PeerHandshake, decoding
<1>2. WindowKept'
    BY <1>1 DEF ReceiveInv, WindowKept, MarkedUnder, Remembers, Value!Remembers
<1>3. CASE PeerSend
    <2>1. /\ peer.sequence < MaxPeerSent /\ wire' = wire \cup {peer}
          /\ peer' = [key |-> peer.key, counter |-> peer.counter + 1, sequence |-> peer.sequence + 1]
        BY <1>3 DEF PeerSend, ReceiveInv, ReceiveTypeOK
    <2>2. peer.sequence \in Nat /\ peer.sequence + 1 \in 0 .. MaxPeerSent
        BY <2>1, ValueAssumptions DEF ReceiveInv, ReceiveTypeOK
    <2>3. peer \in Frames
        <3>1. peer.sequence \in 0 .. MaxPeerSent - 1
            BY <2>1, <2>2, ValueAssumptions
        <3> QED BY <3>1 DEF ReceiveInv, ReceiveTypeOK, Frames
    <2>4. ReceiveTypeOK'
        BY <1>1, <2>1, <2>2, <2>3 DEF ReceiveInv, ReceiveTypeOK
    <2>5. InHand'
        <3>1. /\ \A f \in Frames : f.sequence \in Int
              /\ \A r \in Receivers : decoder[r] # Idle => decoder[r].frame.sequence \in Int
            BY DecoderShape DEF ReceiveInv, Frames
        <3>2. \A f \in wire' : f.sequence < peer.sequence + 1
            BY <2>1, <2>2, <3>1 DEF ReceiveInv, ReceiveTypeOK, InHand
        <3> QED BY <1>1, <2>1, <2>2, <3>1, <3>2 DEF ReceiveInv, InHand
    <2>6. StreamKept'
        <3>1. Buffered(reorder, peer.sequence + 1, Given, delivered)
            BY <2>2, BufferedLonger DEF ReceiveInv, StreamKept
        <3> QED BY <1>1, <2>1, <3>1 DEF StreamKept, Given, Buffered, Value!Buffered
    <2> QED BY <1>2, <2>4, <2>5, <2>6 DEF ReceiveInv
<1>4. CASE PeerHandshake
    <2>1. /\ peer' = [key |-> peer.key + 1, counter |-> 0, sequence |-> peer.sequence]
          /\ wire' = wire
        BY <1>4 DEF PeerHandshake, ReceiveInv, ReceiveTypeOK
    <2>2. ReceiveTypeOK' /\ peer'.sequence = peer.sequence
        BY <1>1, <2>1 DEF ReceiveInv, ReceiveTypeOK
    <2>3. InHand' /\ StreamKept'
        BY <1>1, <2>1, <2>2 DEF ReceiveInv, InHand, StreamKept, Given, Buffered, Value!Buffered
    <2> QED BY <1>2, <2>2, <2>3 DEF ReceiveInv
<1> QED BY <1>3, <1>4 DEF Peer

LEMMA ReceiveNext ==
    ASSUME SendTypeOK, ReceiveInv, [Next]_vars
    PROVE  ReceiveInv'
PROOF
<1>1. ASSUME NEW r \in Receivers, Decode(r) PROVE ReceiveInv'
    <2>1. ASSUME NEW frame \in wire, DecodeError(r, frame) PROVE ReceiveInv'
        BY <2>1, ReceiveStutter DEF DecodeError, vars
    <2> QED BY <1>1, <2>1, DecodeFrameKeeps, CheckKeeps, InsertKeeps DEF Decode
<1>2. CASE Handshake
    BY <1>2, HandshakeReceives
<1>3. CASE Peer
    BY <1>3, PeerKeeps
<1>4. ASSUME UNCHANGED vars \/ \E t \in Senders : Encode(t) PROVE ReceiveInv'
    BY <1>4, ReceiveStutter DEF vars, Encode, EncodeReadKey, EncodeTakeSequence, EncodeTakeCounter
<1> QED BY <1>1, <1>2, <1>3, <1>4 DEF Next

LEMMA ReceiveAlways == Spec => []ReceiveInv
PROOF
<1>1. SendInv => SendTypeOK
    BY DEF SendInv
<1> QED BY <1>1, SendAlways, ReceiveInit, ReceiveNext, PTL DEF Spec

(* Whatever the interleaving of receivers and handshakes, and whatever the *)
(* network repeats, reorders or loses, the payloads made ready are the     *)
(* peer's stream from its start, each once (session.go:148-169).           *)
THEOREM DeliveredAlwaysInOrder == Spec => []DeliveredInOrder
PROOF
<1>1. ReceiveInv => DeliveredInOrder
    BY ValueAssumptions
    DEF ReceiveInv, ReceiveTypeOK, StreamKept, DeliveredInOrder, Buffered, Value!Buffered
<1> QED BY <1>1, ReceiveAlways, PTL

(* Through a SessionHandle the window speaks of the session's current key  *)
(* only (session.go:85-98).                                                *)
THEOREM WindowAlwaysOfCurrentKey == Spec => []WindowOfCurrentKey
PROOF
<1>1. ASSUME ReceiveInv, exclusive, handshake = "none", NEW d \in replay.seen
      PROVE  [key |-> key, counter |-> replay.highest - d] \in marked
    <2>1. Remembers(replay, MarkedUnder(key)) /\ replay \in Windows
        BY <1>1 DEF ReceiveInv, WindowKept
    <2>2. d \in Offsets
        BY <2>1 DEF Windows
    <2>3. replay.highest - d \in MarkedUnder(key)
        BY <2>1, <2>2 DEF Remembers, Value!Remembers, Value!Offsets, Offsets
    <2> QED BY <2>3 DEF MarkedUnder
<1>2. ReceiveInv => WindowOfCurrentKey
    BY <1>1 DEF WindowOfCurrentKey
<1> QED BY <1>2, ReceiveAlways, PTL

(* Through a SessionHandle no nonce passes the replay check twice, for any *)
(* number of reconnects (replay.go:13-15, bridge.go:52-131).               *)
THEOREM AcceptedOnlyOnce == Spec => AcceptedOnce
PROOF
<1>1. ASSUME SendTypeOK, ReceiveInv, [Next]_vars, exclusive, NEW r \in Receivers,
             decoder[r].at = "check", decoder'[r].at = "insert"
      PROVE  Nonce(decoder[r].frame) \notin marked
    <2>1. ASSUME NEW q \in Receivers, Decode(q) PROVE DecodeCheckReplay(q)
        <3>1. ASSUME decoder[q].at # "check", \A k \in Receivers \ {q} : decoder'[k] = decoder[k]
              PROVE  FALSE
            BY <1>1, <3>1
        <3>2. ASSUME NEW frame \in wire, DecodeFrame(q, frame) PROVE FALSE
            BY <3>1, <3>2 DEF DecodeFrame, Idle, ReceiveInv, ReceiveTypeOK
        <3>3. ASSUME NEW frame \in wire, DecodeError(q, frame) PROVE FALSE
            BY <1>1, <3>3 DEF DecodeError, vars, decoding
        <3>4. ASSUME DecodeInsert(q) PROVE FALSE
            <4>1. decoder[q].at = "insert" /\ decoder' = [decoder EXCEPT ![q] = Idle]
                BY <3>4 DEF DecodeInsert
            <4> QED BY <1>1, <3>1, <4>1 DEF ReceiveInv, ReceiveTypeOK
        <3> QED BY <2>1, <3>2, <3>3, <3>4 DEF Decode
    <2>2. PICK q \in Receivers : DecodeCheckReplay(q)
        <3>1. ASSUME decoder' = decoder PROVE FALSE
            BY <1>1, <3>1
        <3>2. ASSUME NEW t \in Senders, Encode(t) PROVE FALSE
            BY <3>1, <3>2 DEF Encode, EncodeReadKey, EncodeTakeSequence, EncodeTakeCounter, decoding
        <3>3. ASSUME Handshake \/ Peer PROVE FALSE
            BY <3>1, <3>3 DEF Handshake, HandshakeInstallKey, HandshakeResetCounter,
               HandshakeResetWindow, Peer, PeerSend, PeerHandshake, decoding
        <3>4. ASSUME UNCHANGED vars PROVE FALSE
            BY <3>1, <3>4 DEF vars, decoding
        <3> QED BY <1>1, <2>1, <3>2, <3>3, <3>4 DEF Next
    <2>3. q = r
        <3>1. \A k \in Receivers \ {q} : decoder'[k] = decoder[k]
            BY <2>2 DEF DecodeCheckReplay, ReceiveInv, ReceiveTypeOK
        <3> QED BY <1>1, <3>1
    <2> QED BY <1>1, <2>2, <2>3, CheckKeeps
<1>2. SendInv /\ ReceiveInv /\ [Next]_vars => [exclusive =>
        \A r \in Receivers :
            (decoder[r].at = "check" /\ decoder'[r].at = "insert")
                => Nonce(decoder[r].frame) \notin marked]_vars
    BY <1>1 DEF SendInv
<1> QED BY <1>2, SendAlways, ReceiveAlways, PTL DEF Spec, AcceptedOnce
=============================================================================
