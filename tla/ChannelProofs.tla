---------------------------- MODULE ChannelProofs ---------------------------
(***************************************************************************)
(* Proofs about Channel, for every number of handshakes, pushes, chunks,   *)
(* failures and restarts.                                                  *)
(*                                                                         *)
(* Shape types the records and says what a request in flight is; it counts *)
(* the handshakes still to be served, so that there is a stream for every  *)
(* session they can make.  The rest builds on it:                          *)
(*   - Uploaded: a live session's reorder buffer holds what of the pushes  *)
(*     it was given and has not delivered; hence the refinement of Pipe;   *)
(*   - Agreement: where the server has the client's session, a handshake   *)
(*     in flight is for that session, and until its answer arrives it is   *)
(*     all that the two ends can differ by;                                *)
(*   - Passed: late frames have lower counters or older keys than the push *)
(*     in progress, so that the window of the client's session, as long as *)
(*     no handler has crossed a reconnect, lets that push pass;            *)
(*   - Downloaded: the client's buffer fits what PullOne has returned and  *)
(*     holds, and every frame on the way down is numbered by the session   *)
(*     that queued it.                                                     *)
(* What a buffer does with a frame is proved in ReceiverProofs.            *)
(***************************************************************************)
EXTENDS Channel, FiniteSetTheorems, SequenceTheorems, TLAPS

(* The fields of the client and of a session (client.go:28-36,             *)
(* session.go:43-62).                                                      *)
IsClient(e) ==
    DOMAIN e = {"conn", "key", "sendCounter", "sendSequence", "buffer", "inGrace",
                "keyConfirmed", "redundantSent"}

IsSession(s) ==
    DOMAIN s = {"stream", "key", "sendCounter", "sendSequence", "window", "buffer"}

(* Requests that the server has not handled, and those and the one that    *)
(* waits to be returned.                                                   *)
Unserved == IF call.at = "sent" THEN stray \cup {call.request} ELSE stray
InFlight == IF call.at = "idle" THEN stray ELSE stray \cup {call.request}

Ephemerals(requests) == {r.wire.ephemeral : r \in {q \in requests : q.kind = "open"}}

(* b sessions were made and o handshakes begun; each of those not yet      *)
(* served can make one session more.                                       *)
Outstanding(b, o, requests) ==
    /\ b \in Nat /\ o \in 0 .. MaxOpens
    /\ Ephemerals(requests) \subseteq 1 .. o
    /\ b + Cardinality(Ephemerals(requests)) <= o
    /\ \A q, r \in requests :
          q.kind = "open" /\ r.kind = "open" /\ q.wire.ephemeral = r.wire.ephemeral => q = r

OpensCounted ==
    /\ Outstanding(born, opens, Unserved)
    /\ call.at = "sent" /\ call.request.kind = "open" => call.request \notin stray

ClientShape ==
    /\ IsClient(client)
    /\ client.conn \in 0 .. born /\ client.key \in 0 .. opens
    /\ client.sendSequence \in 0 .. MaxPushes /\ client.sendCounter \in Nat
    /\ client.inGrace \in BOOLEAN /\ client.keyConfirmed \in BOOLEAN
    /\ client.redundantSent \in 0 .. RedundantTotal
    /\ ~(client.inGrace /\ client.keyConfirmed)
    /\ acked \subseteq 0 .. client.sendSequence - 1

CallShape ==
    /\ call.at \in {"idle", "sent", "handled", "answered"}
    /\ call.at = "idle" => call = NoCall
    /\ call.at = "handled" => call.request.kind = "push"
    /\ call.at # "idle" /\ call.request.kind # "open" =>
          call.request.conn = client.conn /\ client.conn # NoConn
    /\ call.at = "answered" /\ call.request.kind = "open" =>
          /\ call.response.status = "ok" /\ call.response.conn \in 1 .. born
          /\ call.response.keyConfirmed \in BOOLEAN

Requested(r) ==
    /\ r.kind \in {"open", "push", "pull"}
    /\ r.kind = "open" => r.wire.ephemeral \in 1 .. opens
    /\ r.kind = "push" => /\ Plaintext(r.wire).sequence \in 0 .. client.sendSequence - 1
                          /\ Plaintext(r.wire).payload = Plaintext(r.wire).sequence
                          /\ r.wire.counter \in Nat

HandlersShape ==
    \A h \in handlers :
       /\ h = [request |-> h.request, at |-> h.at] /\ h.at \in {"decoded", "accepted"}
       /\ h.request.kind = "push" /\ Requested(h.request) /\ h.request.conn \in DOMAIN conns

ServerShape ==
    /\ restarts \in Nat
    /\ nextConnID \in 1 .. born + 1
    /\ DOMAIN conns = 1 .. nextConnID - 1 /\ DOMAIN outbox = 1 .. nextConnID - 1
    /\ \A c \in DOMAIN conns :
          /\ IsSession(conns[c])
          /\ conns[c].stream \in 1 .. born /\ conns[c].sendSequence \in 0 .. MaxChunks
          /\ conns[c].window \in Windows
          /\ \A d \in DOMAIN conns : conns[c].stream = conns[d].stream => c = d

Shape ==
    /\ OpensCounted
    /\ ClientShape
    /\ CallShape
    /\ \A r \in InFlight : Requested(r)
    /\ HandlersShape
    /\ ServerShape

-----------------------------------------------------------------------------
LEMMA OutstandingBounds ==
    ASSUME NEW b, NEW o, NEW R, Outstanding(b, o, R)
    PROVE  IsFiniteSet(Ephemerals(R)) /\ Cardinality(Ephemerals(R)) \in Nat /\ b <= o
PROOF
<1> USE ChannelAssumption
<1>0. Ephemerals(R) \in SUBSET (1 .. o) /\ 1 \in Int /\ o \in Int /\ b \in Nat
    BY DEF Outstanding
<1>1. IsFiniteSet(1 .. o)
    BY <1>0, FS_Interval
<1>2. IsFiniteSet(Ephemerals(R))
    BY <1>0, <1>1, FS_Subset
<1>3. Cardinality(Ephemerals(R)) \in Nat
    BY <1>2, FS_CardinalityType
<1> QED BY <1>0, <1>2, <1>3 DEF Outstanding

LEMMA FewerOutstanding ==
    ASSUME NEW b, NEW o, NEW R, NEW S, Outstanding(b, o, R),
           \A q \in S : q.kind = "open" => q \in R
    PROVE  Outstanding(b, o, S)
PROOF
<1> USE ChannelAssumption
<1>0. IsFiniteSet(Ephemerals(R)) /\ Cardinality(Ephemerals(R)) \in Nat
    BY OutstandingBounds
<1>1. Ephemerals(S) \in SUBSET Ephemerals(R)
    BY DEF Ephemerals
<1>2. IsFiniteSet(Ephemerals(S)) /\ Cardinality(Ephemerals(S)) <= Cardinality(Ephemerals(R))
    BY <1>0, <1>1, FS_Subset
<1>3. Cardinality(Ephemerals(S)) \in Nat
    BY <1>2, FS_CardinalityType
<1>4. b + Cardinality(Ephemerals(S)) <= o
    BY <1>0, <1>2, <1>3 DEF Outstanding
<1> QED BY <1>1, <1>4 DEF Outstanding

LEMMA OneBegun ==
    ASSUME NEW b, NEW o, NEW R, Outstanding(b, o, R), o < MaxOpens,
           NEW r, r.kind = "open", r.wire.ephemeral = o + 1
    PROVE  Outstanding(b, o + 1, R \cup {r}) /\ r \notin R
PROOF
<1> USE ChannelAssumption
<1>0. IsFiniteSet(Ephemerals(R)) /\ Cardinality(Ephemerals(R)) \in Nat
    BY OutstandingBounds
<1>1. Ephemerals(R \cup {r}) = Ephemerals(R) \cup {o + 1}
    BY DEF Ephemerals
<1>2. o \in Nat /\ o + 1 \notin Ephemerals(R)
    BY DEF Outstanding
<1>3. \A q \in R : q.kind = "open" => q.wire.ephemeral # r.wire.ephemeral
    BY <1>2 DEF Ephemerals
<1>4. Cardinality(Ephemerals(R \cup {r})) = Cardinality(Ephemerals(R)) + 1
    BY <1>0, <1>1, <1>2, FS_AddElement
<1>5. Ephemerals(R \cup {r}) \subseteq 1 .. o + 1
    <2>1. \A e \in 1 .. o : e \in 1 .. o + 1
        BY <1>2
    <2>2. o + 1 \in 1 .. o + 1
        BY <1>2
    <2> QED BY <1>1, <2>1, <2>2 DEF Outstanding
<1>6. b + (Cardinality(Ephemerals(R)) + 1) <= o + 1
    BY <1>0, <1>2 DEF Outstanding
<1>7. o + 1 \in 0 .. MaxOpens /\ r \notin R
    BY <1>2, <1>3
<1>8. Outstanding(b, o + 1, R \cup {r})
    BY <1>3, <1>4, <1>5, <1>6, <1>7 DEF Outstanding
<1> QED BY <1>7, <1>8

LEMMA OneFewer ==
    ASSUME NEW S, IsFiniteSet(S), NEW x \in S
    PROVE  IsFiniteSet(S \ {x}) /\ Cardinality(S \ {x}) = Cardinality(S) - 1
PROOF
<1>1. IsFiniteSet(S \ {x})
    BY FS_RemoveElement, Zenon
<1>2. Cardinality(S \ {x}) = IF x \in S THEN Cardinality(S) - 1 ELSE Cardinality(S)
    BY FS_RemoveElement, Zenon
<1> QED BY <1>1, <1>2

LEMMA OneServed ==
    ASSUME NEW b, NEW o, NEW R, Outstanding(b, o, R), NEW r \in R, r.kind = "open"
    PROVE  Outstanding(b + 1, o, R \ {r}) /\ b < o
PROOF
<1> USE ChannelAssumption
<1>0. IsFiniteSet(Ephemerals(R)) /\ Cardinality(Ephemerals(R)) \in Nat
    BY OutstandingBounds
<1>1. PICK E, e : E = Ephemerals(R) /\ e = r.wire.ephemeral
    OBVIOUS
<1>2. Ephemerals(R \ {r}) = E \ {e} /\ e \in E
    BY <1>1 DEF Ephemerals, Outstanding
<1>3. /\ IsFiniteSet(E) /\ Cardinality(E) \in Nat
      /\ E \subseteq 1 .. o
    BY <1>0, <1>1 DEF Outstanding
<1>4. IsFiniteSet(E \ {e}) /\ Cardinality(E \ {e}) = Cardinality(E) - 1
    BY <1>2, <1>3, OneFewer
<1>5. Cardinality(E \ {e}) \in Nat
    BY <1>4, FS_CardinalityType
<1>6. E \ {e} \subseteq 1 .. o
    BY <1>3
<1>7. b \in Nat /\ o \in 0 .. MaxOpens /\ b + Cardinality(E) <= o
    BY <1>1 DEF Outstanding
<1>8. b + 1 \in Nat /\ b + 1 + Cardinality(E \ {e}) <= o /\ b < o
    BY <1>3, <1>4, <1>5, <1>7
<1>9. \A p, q \in R \ {r} :
          p.kind = "open" /\ q.kind = "open" /\ p.wire.ephemeral = q.wire.ephemeral => p = q
    BY DEF Outstanding
<1> QED BY <1>2, <1>6, <1>7, <1>8, <1>9 DEF Outstanding

LEMMA ShapeInit == Init => Shape
PROOF
<1> USE ChannelAssumption
<1> SUFFICES ASSUME Init PROVE Shape
    OBVIOUS
<1>1. call = NoCall /\ call.at = "idle" /\ Unserved = {} /\ InFlight = {}
    BY DEF Init, NoCall, Unserved, InFlight
<1>2. OpensCounted
    <2>1. Ephemerals({}) = {}
        BY DEF Ephemerals
    <2>2. born = 0 /\ opens = 0 /\ call.at = "idle" /\ Unserved = {}
        BY <1>1 DEF Init
    <2>3. Cardinality({}) = 0
        BY FS_EmptySet
    <2> QED BY <2>1, <2>2, <2>3 DEF OpensCounted, Outstanding
<1>3. ClientShape
    BY DEF Init, ClientShape, IsClient, NoConn
<1>4. CallShape
    BY <1>1 DEF CallShape
<1>5. ServerShape /\ HandlersShape
    BY DEF Init, ServerShape, HandlersShape
<1> QED BY <1>1, <1>2, <1>3, <1>4, <1>5 DEF Shape

LEMMA ShapeTypeOK == Shape => TypeOK
PROOF
<1> USE ChannelAssumption
<1> SUFFICES ASSUME Shape PROVE TypeOK
    OBVIOUS
<1>1. born <= opens /\ born \in Nat /\ opens \in Nat
    BY OutstandingBounds DEF Shape, OpensCounted, Outstanding
<1>2. ClientShape /\ CallShape /\ HandlersShape /\ ServerShape
    BY DEF Shape
<1>3. /\ client.conn \in 0 .. opens /\ client.key \in 0 .. opens
      /\ client.sendSequence \in 0 .. MaxPushes
      /\ acked \subseteq 0 .. client.sendSequence - 1
      /\ client.redundantSent \in 0 .. RedundantTotal
      /\ ~(client.inGrace /\ client.keyConfirmed)
    BY <1>1, <1>2 DEF ClientShape
<1>4. /\ call.at \in {"idle", "sent", "handled", "answered"}
      /\ \A h \in handlers : h.at \in {"decoded", "accepted"} /\ h.request.conn \in DOMAIN conns
    BY <1>2 DEF CallShape, HandlersShape
<1>5. /\ DOMAIN outbox = DOMAIN conns /\ DOMAIN conns = 1 .. nextConnID - 1
      /\ \A c \in DOMAIN conns :
            conns[c].sendSequence \in 0 .. MaxChunks /\ conns[c].window \in Windows
    BY <1>2 DEF ServerShape
<1> QED BY <1>3, <1>4, <1>5 DEF TypeOK

-----------------------------------------------------------------------------
(* What one request's handling leaves of the requests.                     *)
Serve(r, answer) ==
    /\ Handle(r, answer)
    /\ \/ answer = TRUE /\ call.at = "sent" /\ r = call.request /\ UNCHANGED stray
       \/ answer = FALSE /\ r \in stray /\ stray' = stray \ {r}
    /\ UNCHANGED <<client, opens, failures, restarts, lostOpen, acked, returned>>

LEMMA ServeSplit ==
    /\ ServeCall => Serve(call.request, TRUE)
    /\ \A r : ServeStray(r) => Serve(r, FALSE)
BY DEF ServeCall, ServeStray, Serve

LEMMA ServedCall ==
    ASSUME Shape, NEW r, NEW answer, NEW reply, call' = IF answer THEN reply ELSE call,
           answer = TRUE => reply.at # "sent" /\ reply.at # "idle" /\ reply.request = call.request,
           \/ answer = TRUE /\ call.at = "sent" /\ r = call.request /\ UNCHANGED stray
           \/ answer = FALSE /\ r \in stray /\ stray' = stray \ {r}
    PROVE  /\ r \in Unserved /\ Requested(r)
           /\ Unserved' \subseteq Unserved /\ InFlight' \subseteq InFlight
           /\ r.kind = "open" => Unserved' = Unserved \ {r}
           /\ \/ answer = FALSE /\ call' = call
              \/ answer = TRUE /\ call.at = "sent" /\ r = call.request /\ call' = reply
PROOF
<1>1. CASE answer = TRUE /\ call.at = "sent" /\ r = call.request /\ UNCHANGED stray
    <2>2. call' = reply /\ call'.at # "sent" /\ call'.at # "idle" /\ call'.request = r
        BY <1>1
    <2>3. r.kind = "open" => r \notin stray
        BY <1>1 DEF Shape, OpensCounted
    <2> QED BY <1>1, <2>2, <2>3 DEF Unserved, InFlight, Shape
<1>2. CASE answer = FALSE /\ r \in stray /\ stray' = stray \ {r}
    <2>1. call' = call
        BY <1>2
    <2>2. r.kind = "open" => (call.at = "sent" => call.request # r)
        BY <1>2 DEF Shape, OpensCounted
    <2>3. call.at \in {"idle", "sent", "handled", "answered"}
        BY DEF Shape, CallShape
    <2> QED BY <1>2, <2>1, <2>2, <2>3 DEF Unserved, InFlight, Shape
<1> QED BY <1>1, <1>2

LEMMA ServedRequest ==
    ASSUME Shape, NEW r, NEW answer, NEW response, Respond(answer, response),
           \/ answer = TRUE /\ call.at = "sent" /\ r = call.request /\ UNCHANGED stray
           \/ answer = FALSE /\ r \in stray /\ stray' = stray \ {r}
    PROVE  /\ r \in Unserved /\ Requested(r)
           /\ Unserved' \subseteq Unserved /\ InFlight' \subseteq InFlight
           /\ r.kind = "open" => Unserved' = Unserved \ {r}
           /\ \/ answer = FALSE /\ call' = call
              \/ /\ answer = TRUE /\ call.at = "sent" /\ r = call.request
                 /\ call' = [at |-> "answered", request |-> r, response |-> response]
PROOF
<1>1. PICK reply : reply = [at |-> "answered", request |-> call.request, response |-> response]
    OBVIOUS
<1>2. call' = (IF answer THEN reply ELSE call) /\ reply.at = "answered" /\ reply.request = call.request
    BY <1>1 DEF Respond
<1> QED BY <1>1, <1>2, ServedCall

(* What a handshake, a push's handler and a queued chunk leave of a        *)
(* session (session.go:95-98, :154-169, server.go:376-400).                *)
Rekeyed(s, key) == [s EXCEPT !.key = key, !.sendCounter = 0, !.window = ResetWindow(@)]
Rechecked(s, window) == [s EXCEPT !.window = window]
Rebuffered(s, buffer) == [s EXCEPT !.buffer = buffer]

LEMMA RekeyedFields ==
    ASSUME NEW s, IsSession(s), NEW key
    PROVE  /\ IsSession(Rekeyed(s, key)) /\ Rekeyed(s, key).key = key
           /\ Rekeyed(s, key).stream = s.stream /\ Rekeyed(s, key).buffer = s.buffer
           /\ Rekeyed(s, key).sendSequence = s.sendSequence
           /\ Rekeyed(s, key).sendCounter = 0
           /\ Rekeyed(s, key).window = ResetWindow(s.window)
BY DEF IsSession, Rekeyed

LEMMA RecheckedFields ==
    ASSUME NEW s, IsSession(s), NEW window
    PROVE  /\ IsSession(Rechecked(s, window)) /\ Rechecked(s, window).window = window
           /\ Rechecked(s, window).stream = s.stream /\ Rechecked(s, window).key = s.key
           /\ Rechecked(s, window).sendSequence = s.sendSequence
           /\ Rechecked(s, window).sendCounter = s.sendCounter
           /\ Rechecked(s, window).buffer = s.buffer
BY DEF IsSession, Rechecked

LEMMA RebufferedFields ==
    ASSUME NEW s, IsSession(s), NEW buffer
    PROVE  /\ IsSession(Rebuffered(s, buffer)) /\ Rebuffered(s, buffer).buffer = buffer
           /\ Rebuffered(s, buffer).stream = s.stream /\ Rebuffered(s, buffer).key = s.key
           /\ Rebuffered(s, buffer).sendSequence = s.sendSequence
           /\ Rebuffered(s, buffer).sendCounter = s.sendCounter
           /\ Rebuffered(s, buffer).window = s.window
BY DEF IsSession, Rebuffered

LEMMA CountedFields ==
    ASSUME NEW s, IsSession(s)
    PROVE  /\ IsSession(Counted(s)) /\ Counted(s).sendCounter = s.sendCounter + 1
           /\ Counted(s).sendSequence = s.sendSequence + 1
           /\ Counted(s).stream = s.stream /\ Counted(s).key = s.key
           /\ Counted(s).buffer = s.buffer /\ Counted(s).window = s.window
BY DEF IsSession, Counted

LEMMA NewSessionShape ==
    ASSUME NEW stream
    PROVE  /\ IsSession(NewSession(stream))
           /\ NewSession(stream).stream = stream /\ NewSession(stream).sendSequence = 0
           /\ NewSession(stream).buffer = NewReorderBuffer(0)
           /\ NewSession(stream).window = NewReplayWindow
BY DEF NewSession, IsSession

(* A window is one after a reset and after a counter it has accepted, and  *)
(* has then seen no counter, or none above the higher of the two.          *)
LEMMA NewWindow == NewReplayWindow \in Windows /\ ~NewReplayWindow.initiated
BY DEF NewReplayWindow, Windows

LEMMA ResetWindows ==
    ASSUME NEW w \in Windows
    PROVE  ResetWindow(w) \in Windows /\ ~ResetWindow(w).initiated
BY DEF ResetWindow, Windows

LEMMA MarkedWindows ==
    ASSUME NEW w \in Windows, NEW counter \in Nat, Acceptable(w, counter)
    PROVE  /\ Marked(w, counter) \in Windows
           /\ \/ Marked(w, counter).highest = counter
              \/ w.initiated /\ Marked(w, counter).highest = w.highest
PROOF
<1> USE WindowAssumption
<1>1. PICK i \in BOOLEAN, h \in Nat, S \in SUBSET Offsets :
          w = [initiated |-> i, highest |-> h, seen |-> S]
    BY DEF Windows
<1>2. 0 \in Offsets
    BY DEF Offsets
<1>3. CASE ~i
    BY <1>1, <1>2, <1>3 DEF Marked, Windows
<1>4. CASE i /\ counter > h
    <2>1. ShiftLeft(S, counter - h) \cup {0} \in SUBSET Offsets
        BY <1>2 DEF ShiftLeft
    <2>2. Marked(w, counter) = [initiated |-> i, highest |-> counter,
                                seen |-> ShiftLeft(S, counter - h) \cup {0}]
        BY <1>1, <1>4 DEF Marked
    <2> QED BY <1>1, <2>1, <2>2 DEF Windows
<1>5. CASE i /\ ~(counter > h)
    <2>1. h - counter \in Offsets
        BY <1>1, <1>5 DEF Acceptable, Offsets
    <2>2. Marked(w, counter) = [initiated |-> i, highest |-> h, seen |-> S \cup {h - counter}]
        BY <1>1, <1>5 DEF Marked
    <2>3. S \cup {h - counter} \in SUBSET Offsets
        BY <2>1
    <2>4. Marked(w, counter) \in Windows /\ Marked(w, counter).highest = h
        BY <1>1, <2>2, <2>3 DEF Windows
    <2>5. w.initiated /\ w.highest = h
        BY <1>1, <1>5
    <2> QED BY <2>4, <2>5
<1> QED BY <1>3, <1>4, <1>5

(* A handshake rekeys the session it names or makes the next one.          *)
LEMMA OpenServed ==
    ASSUME Shape, NEW r, NEW answer, HandleOpen(r, answer)
    PROVE  \E id \in DOMAIN conns', known \in BOOLEAN :
              /\ known <=> Plaintext(r.wire).conn \in DOMAIN conns
              /\ id = IF known THEN Plaintext(r.wire).conn ELSE nextConnID
              /\ known <=> id \in DOMAIN conns
              /\ DOMAIN conns' = DOMAIN conns \cup {id}
              /\ DOMAIN outbox' = DOMAIN outbox \cup {id}
              /\ \A c \in DOMAIN conns : c # id => conns'[c] = conns[c]
              /\ \A c \in DOMAIN conns : outbox'[c] = outbox[c]
              /\ known => conns'[id] = Rekeyed(conns[id], r.wire.ephemeral)
              /\ ~known => /\ conns'[id] = Rekeyed(NewSession(born + 1), r.wire.ephemeral)
                          /\ outbox'[id] = << >>
              /\ nextConnID' = IF known THEN nextConnID ELSE nextConnID + 1
              /\ born' = IF known THEN born ELSE born + 1
              /\ Respond(answer, [status |-> "ok", conn |-> id, keyConfirmed |-> known])
              /\ UNCHANGED <<handlers, delivered, crossed>>
PROOF
<1>1. PICK known \in BOOLEAN : known <=> Plaintext(r.wire).conn \in DOMAIN conns
    OBVIOUS
<1>2. PICK id : id = IF known THEN Plaintext(r.wire).conn ELSE nextConnID
    OBVIOUS
<1>3. PICK sess : sess = IF known THEN conns[id] ELSE NewSession(born + 1)
    OBVIOUS
<1>4. /\ conns' = [c \in DOMAIN conns \cup {id} |->
                      IF c = id
                      THEN [sess EXCEPT !.key = r.wire.ephemeral, !.sendCounter = 0,
                                        !.window = ResetWindow(@)]
                      ELSE conns[c]]
      /\ outbox' = IF id \in DOMAIN outbox THEN outbox
                   ELSE [c \in DOMAIN outbox \cup {id} |-> IF c = id THEN << >> ELSE outbox[c]]
      /\ nextConnID' = IF known THEN nextConnID ELSE nextConnID + 1
      /\ born' = IF known THEN born ELSE born + 1
      /\ Respond(answer, [status |-> "ok", conn |-> id, keyConfirmed |-> known])
      /\ UNCHANGED <<handlers, delivered, crossed>>
    BY <1>1, <1>2, <1>3 DEF HandleOpen
<1>5. DOMAIN outbox = DOMAIN conns /\ (known <=> id \in DOMAIN conns)
    BY <1>1, <1>2 DEF Shape, ServerShape
<1>8. /\ DOMAIN conns' = DOMAIN conns \cup {id}
      /\ conns'[id] = Rekeyed(sess, r.wire.ephemeral)
      /\ \A c \in DOMAIN conns : c # id => conns'[c] = conns[c]
    BY <1>4 DEF Rekeyed
<1>9. /\ DOMAIN outbox' = DOMAIN outbox \cup {id}
      /\ \A c \in DOMAIN conns : outbox'[c] = outbox[c]
      /\ ~known => outbox'[id] = << >>
    BY <1>4, <1>5
<1> QED BY <1>1, <1>2, <1>3, <1>4, <1>5, <1>8, <1>9

(* A handler stays one while its session lives.                            *)
LEMMA HandlersKeep ==
    ASSUME Shape, handlers' \subseteq handlers, DOMAIN conns \subseteq DOMAIN conns',
           client'.sendSequence \in Nat, client'.sendSequence >= client.sendSequence
    PROVE  HandlersShape'
PROOF
<1>1. client.sendSequence \in Nat
    BY ChannelAssumption DEF Shape, ClientShape
<1> SUFFICES ASSUME NEW h \in handlers'
             PROVE  /\ h = [request |-> h.request, at |-> h.at] /\ h.at \in {"decoded", "accepted"}
                    /\ h.request.kind = "push" /\ Requested(h.request)'
                    /\ h.request.conn \in DOMAIN conns'
    BY DEF HandlersShape
<1>2. /\ h = [request |-> h.request, at |-> h.at] /\ h.at \in {"decoded", "accepted"}
      /\ h.request.kind = "push" /\ Requested(h.request) /\ h.request.conn \in DOMAIN conns
    BY DEF Shape, HandlersShape
<1> QED BY <1>1, <1>2 DEF Requested

LEMMA ShapeServeOpen ==
    ASSUME Shape, NEW r, NEW answer, r.kind = "open", HandleOpen(r, answer),
           \/ answer = TRUE /\ call.at = "sent" /\ r = call.request /\ UNCHANGED stray
           \/ answer = FALSE /\ r \in stray /\ stray' = stray \ {r},
           UNCHANGED <<client, opens, failures, restarts, lostOpen, acked, returned>>
    PROVE  Shape'
PROOF
<1> USE ChannelAssumption
<1>1. PICK id \in DOMAIN conns', known \in BOOLEAN :
          /\ known <=> id \in DOMAIN conns
          /\ id = IF known THEN Plaintext(r.wire).conn ELSE nextConnID
          /\ DOMAIN conns' = DOMAIN conns \cup {id}
          /\ DOMAIN outbox' = DOMAIN outbox \cup {id}
          /\ \A c \in DOMAIN conns : c # id => conns'[c] = conns[c]
          /\ known => conns'[id] = Rekeyed(conns[id], r.wire.ephemeral)
          /\ ~known => conns'[id] = Rekeyed(NewSession(born + 1), r.wire.ephemeral)
          /\ nextConnID' = IF known THEN nextConnID ELSE nextConnID + 1
          /\ born' = IF known THEN born ELSE born + 1
          /\ Respond(answer, [status |-> "ok", conn |-> id, keyConfirmed |-> known])
          /\ UNCHANGED handlers
    BY OpenServed
<1>2. /\ r \in Unserved /\ Unserved' = Unserved \ {r} /\ InFlight' \subseteq InFlight
      /\ \/ answer = FALSE /\ call' = call
         \/ /\ answer = TRUE /\ call.at = "sent" /\ r = call.request
            /\ call' = [at |-> "answered", request |-> r,
                        response |-> [status |-> "ok", conn |-> id, keyConfirmed |-> known]]
    BY <1>1, ServedRequest
<1>3. /\ born \in Nat /\ born < opens /\ born' \in Nat /\ born <= born'
      /\ Outstanding(born', opens, Unserved')
    <2>1. Outstanding(born, opens, Unserved)
        BY DEF Shape, OpensCounted
    <2>2. Outstanding(born + 1, opens, Unserved \ {r}) /\ born < opens
        BY <1>2, <2>1, OneServed
    <2>3. Outstanding(born, opens, Unserved \ {r})
        BY <2>1, FewerOutstanding
    <2>4. born \in Nat
        BY <2>1 DEF Outstanding
    <2>5. CASE known
        BY <1>1, <1>2, <2>2, <2>3, <2>4, <2>5
    <2>6. CASE ~known
        BY <1>1, <1>2, <2>2, <2>4, <2>6
    <2> QED BY <2>5, <2>6
<1>4. OpensCounted'
    BY <1>2, <1>3 DEF Shape, OpensCounted
<1>5. ClientShape'
    BY <1>3 DEF Shape, ClientShape
<1>6. id \in 1 .. born'
    BY <1>1, <1>3 DEF Shape, ServerShape
<1>7. CallShape'
    BY <1>2, <1>3, <1>6 DEF Shape, CallShape
<1>8. \A q \in InFlight' : Requested(q)'
    BY <1>2 DEF Shape, Requested
<1>9. ServerShape'
    <2>1. /\ nextConnID' \in 1 .. born' + 1
          /\ DOMAIN conns' = 1 .. nextConnID' - 1 /\ DOMAIN outbox' = 1 .. nextConnID' - 1
        BY <1>1, <1>3 DEF Shape, ServerShape
    <2>2. /\ IsSession(conns'[id]) /\ conns'[id].sendSequence \in 0 .. MaxChunks
          /\ conns'[id].stream = (IF known THEN conns[id].stream ELSE born + 1)
          /\ conns'[id].window \in Windows
        <3>1. CASE known
            BY <1>1, <3>1, RekeyedFields, ResetWindows DEF Shape, ServerShape
        <3>2. CASE ~known
            BY <1>1, <3>2, NewSessionShape, RekeyedFields, NewWindow, ResetWindows, ChannelAssumption
        <3> QED BY <3>1, <3>2
    <2>3. \A c \in DOMAIN conns : /\ conns'[c].stream = conns[c].stream
                                  /\ IsSession(conns'[c]) /\ conns'[c].window \in Windows
                                  /\ conns'[c].sendSequence \in 0 .. MaxChunks
        BY <1>1, <2>2 DEF Shape, ServerShape
    <2>4. ASSUME NEW c \in DOMAIN conns' PROVE conns'[c].stream \in 1 .. born'
        <3>1. \A b \in DOMAIN conns : conns[b].stream \in 1 .. born
            BY DEF Shape, ServerShape
        <3>2. CASE c \in DOMAIN conns
            BY <1>3, <2>3, <3>1, <3>2
        <3>3. CASE c \notin DOMAIN conns
            BY <1>1, <1>3, <2>2, <3>3
        <3> QED BY <3>2, <3>3
    <2>5. ASSUME NEW c \in DOMAIN conns', NEW d \in DOMAIN conns',
                 conns'[c].stream = conns'[d].stream
          PROVE  c = d
        <3>1. \A b \in DOMAIN conns : conns[b].stream \in 1 .. born
            BY DEF Shape, ServerShape
        <3>2. CASE known
            BY <1>1, <2>3, <2>5, <3>2 DEF Shape, ServerShape
        <3>3. CASE ~known
            BY <1>1, <1>3, <2>2, <2>3, <2>5, <3>1, <3>3 DEF Shape, ServerShape
        <3> QED BY <3>2, <3>3
    <2>6. restarts' \in Nat
        BY DEF Shape, ServerShape
    <2> QED BY <1>1, <2>1, <2>2, <2>3, <2>4, <2>5, <2>6 DEF ServerShape
<1>10. HandlersShape'
    BY <1>1, HandlersKeep DEF Shape, ClientShape
<1> QED BY <1>4, <1>5, <1>7, <1>8, <1>9, <1>10 DEF Shape

(* A push is answered at once, or put into the hands of a handler.         *)
Reply(r) == [at |-> "handled", request |-> r]
Answer(r) == [at |-> "answered", request |-> r, response |-> [status |-> "ok"]]

LEMMA PushServed ==
    ASSUME Shape, NEW r, NEW answer, HandlePush(r, answer),
           \/ answer = TRUE /\ call.at = "sent" /\ r = call.request /\ UNCHANGED stray
           \/ answer = FALSE /\ r \in stray /\ stray' = stray \ {r}
    PROVE  /\ UNCHANGED <<conns, outbox, nextConnID, born, delivered, crossed>>
           /\ Requested(r) /\ r \in Unserved
           /\ Unserved' \subseteq Unserved /\ InFlight' \subseteq InFlight
           /\ \/ /\ ~DataFrameDecodes(conns[r.conn].key, r.conn, r.wire)
                 /\ Respond(answer, [status |-> "ok"]) /\ UNCHANGED handlers
              \/ /\ DataFrameDecodes(conns[r.conn].key, r.conn, r.wire)
                 /\ handlers' = handlers \cup {[request |-> r, at |-> "decoded"]}
                 /\ \/ answer = FALSE /\ call' = call
                    \/ answer = TRUE /\ call.at = "sent" /\ r = call.request /\ call' = Reply(r)
PROOF
<1>1. UNCHANGED <<conns, outbox, nextConnID, born, delivered, crossed>>
    BY DEF HandlePush
<1>2. CASE ~DataFrameDecodes(conns[r.conn].key, r.conn, r.wire)
    <2>1. PICK response : response = [status |-> "ok"]
        OBVIOUS
    <2>2. Respond(answer, response) /\ UNCHANGED handlers
        BY <1>2, <2>1 DEF HandlePush
    <2> QED BY <1>1, <1>2, <2>1, <2>2, ServedRequest
<1>3. CASE DataFrameDecodes(conns[r.conn].key, r.conn, r.wire)
    <2>1. PICK reply : reply = Reply(r)
        OBVIOUS
    <2>2. reply.at = "handled" /\ reply.request = r
        BY <2>1 DEF Reply
    <2>3. /\ handlers' = handlers \cup {[request |-> r, at |-> "decoded"]}
          /\ call' = IF answer THEN reply ELSE call
        BY <1>3, <2>1 DEF HandlePush, Reply
    <2> QED BY <1>1, <1>3, <2>1, <2>2, <2>3, ServedCall
<1> QED BY <1>2, <1>3

(* What is left to show once the sessions keep their streams.              *)
LEMMA ShapeServer ==
    ASSUME Shape, UNCHANGED <<nextConnID, born, opens, restarts>>,
           DOMAIN conns' = DOMAIN conns, DOMAIN outbox' = DOMAIN outbox,
           \A c \in DOMAIN conns :
              /\ IsSession(conns'[c]) /\ conns'[c].stream = conns[c].stream
              /\ conns'[c].sendSequence \in 0 .. MaxChunks /\ conns'[c].window \in Windows
    PROVE  ServerShape'
BY DEF Shape, ServerShape

(* What is left to show when the requests that are under way get fewer.    *)
LEMMA ShapeFewer ==
    ASSUME Shape, UNCHANGED <<client, opens, born, acked>>, stray' \subseteq stray,
           Unserved' \subseteq Unserved, InFlight' \subseteq InFlight,
           call'.at = "sent" => call' = call,
           CallShape', HandlersShape', ServerShape'
    PROVE  Shape'
PROOF
<1>1. Outstanding(born, opens, Unserved')
    BY FewerOutstanding DEF Shape, OpensCounted
<1>2. OpensCounted'
    BY <1>1 DEF Shape, OpensCounted
<1>3. ClientShape'
    BY DEF Shape, ClientShape
<1>4. \A q \in InFlight' : Requested(q)'
    BY DEF Shape, Requested
<1> QED BY <1>2, <1>3, <1>4 DEF Shape

LEMMA ShapeServe ==
    ASSUME Shape, NEW r, NEW answer, Serve(r, answer)
    PROVE  Shape'
PROOF
<1> USE ChannelAssumption
<1>1. CASE r.kind = "open"
    BY <1>1, ShapeServeOpen DEF Serve, Handle
<1>2. CASE r.kind # "open"
    <2>0. /\ UNCHANGED <<client, opens, restarts, acked>> /\ stray' \subseteq stray
          /\ \/ answer = TRUE /\ call.at = "sent" /\ r = call.request /\ UNCHANGED stray
             \/ answer = FALSE /\ r \in stray /\ stray' = stray \ {r}
        BY DEF Serve, returned
    <2>1. CASE NotFound(r, answer) \/ HandlePull(r, answer)
        <3>1. PICK response : Respond(answer, response)
            BY <2>1 DEF NotFound, HandlePull
        <3>2. /\ Unserved' \subseteq Unserved /\ InFlight' \subseteq InFlight
              /\ \/ answer = FALSE /\ call' = call
                 \/ /\ answer = TRUE /\ call.at = "sent" /\ r = call.request
                    /\ call' = [at |-> "answered", request |-> r, response |-> response]
            BY <2>0, <3>1, ServedRequest
        <3>3. UNCHANGED <<conns, nextConnID, born, handlers>> /\ DOMAIN outbox' = DOMAIN outbox
            BY <2>1 DEF NotFound, HandlePull, server
        <3>4. CallShape'
            BY <1>2, <2>0, <3>2, <3>3 DEF Shape, CallShape
        <3>5. ServerShape'
            BY <2>0, <3>3, ShapeServer DEF Shape, ServerShape
        <3>6. HandlersShape'
            BY <2>0, <3>3, HandlersKeep DEF Shape, ClientShape
        <3> QED BY <2>0, <3>2, <3>3, <3>4, <3>5, <3>6, ShapeFewer
    <2>2. CASE r.kind = "push" /\ r.conn \in DOMAIN conns /\ HandlePush(r, answer)
        <3>1. /\ UNCHANGED <<conns, outbox, nextConnID, born>> /\ Requested(r)
              /\ Unserved' \subseteq Unserved /\ InFlight' \subseteq InFlight
            BY <2>0, <2>2, PushServed
        <3>2. ServerShape'
            BY <2>0, <3>1, ShapeServer DEF Shape, ServerShape
        <3>3. CASE Respond(answer, [status |-> "ok"]) /\ UNCHANGED handlers
            <4>0. \/ answer = FALSE /\ call' = call
                  \/ answer = TRUE /\ call.at = "sent" /\ r = call.request /\ call' = Answer(r)
                BY <2>0, <3>3, ServedRequest DEF Answer
            <4>a. Answer(r).at = "answered" /\ Answer(r).request = r
                BY DEF Answer
            <4>1. CallShape'
                BY <1>2, <2>0, <3>1, <4>0, <4>a DEF Shape, CallShape
            <4>2. HandlersShape'
                BY <2>0, <3>1, <3>3, HandlersKeep DEF Shape, ClientShape
            <4>3. call'.at = "sent" => call' = call
                BY <4>0, <4>a
            <4> QED BY <2>0, <3>1, <3>2, <4>1, <4>2, <4>3, ShapeFewer
        <3>4. CASE /\ handlers' = handlers \cup {[request |-> r, at |-> "decoded"]}
                   /\ \/ answer = FALSE /\ call' = call
                      \/ answer = TRUE /\ call.at = "sent" /\ r = call.request /\ call' = Reply(r)
            <4>1. Reply(r).at = "handled" /\ Reply(r).request = r
                BY DEF Reply
            <4>2. CallShape'
                BY <1>2, <2>0, <2>2, <3>1, <3>4, <4>1 DEF Shape, CallShape
            <4>3. PICK h : h = [request |-> r, at |-> "decoded"]
                OBVIOUS
            <4>4. h.request = r /\ h.at = "decoded" /\ h = [request |-> h.request, at |-> h.at]
                BY <4>3
            <4>5. Requested(r)'
                BY <2>0, <3>1 DEF Requested
            <4>6. HandlersShape'
                <5>1. HandlersShape /\ handlers' = handlers \cup {h} /\ UNCHANGED <<client, opens, conns>>
                    BY <2>0, <3>1, <3>4, <4>3 DEF Shape
                <5>2. \A g \in handlers : Requested(g.request)'
                    BY <5>1 DEF HandlersShape, Requested
                <5> QED BY <2>2, <4>4, <4>5, <5>1, <5>2 DEF HandlersShape
            <4>7. call'.at = "sent" => call' = call
                BY <3>4, <4>1
            <4> QED BY <2>0, <3>1, <3>2, <4>2, <4>6, <4>7, ShapeFewer
        <3> QED BY <2>0, <2>2, <3>3, <3>4, PushServed
    <2> QED BY <1>2, <2>1, <2>2 DEF Serve, Handle
<1> QED BY <1>1, <1>2

(* A handler's step changes the window or the buffer of its session, and   *)
(* answers the call at most when that is the call it serves.               *)
LEMMA CheckServed ==
    ASSUME Shape, NEW h \in handlers, HandlerChecks(h)
    PROVE  \E c, w, n :
              /\ c = h.request.conn /\ w = conns[c].window /\ n = h.request.wire.counter
              /\ c \in DOMAIN conns /\ w \in Windows /\ n \in Nat /\ h.at = "decoded"
              /\ UNCHANGED <<outbox, nextConnID, born, delivered>>
              /\ \/ /\ ~Acceptable(w, n) /\ handlers' = handlers \ {h}
                    /\ HandlerEnds(h) /\ UNCHANGED <<conns, crossed>>
                 \/ /\ Acceptable(w, n)
                    /\ DOMAIN conns' = DOMAIN conns
                    /\ \A d \in DOMAIN conns : d # c => conns'[d] = conns[d]
                    /\ conns'[c] = Rechecked(conns[c], Marked(w, n))
                    /\ crossed' = (crossed \/ h.request.wire.sealed.key # conns[c].key)
                    /\ handlers' = (handlers \ {h}) \cup {[request |-> h.request, at |-> "accepted"]}
                    /\ UNCHANGED call
PROOF
<1>1. PICK c, w, n : c = h.request.conn /\ w = conns[c].window /\ n = h.request.wire.counter
    OBVIOUS
<1>2. /\ c \in DOMAIN conns /\ w \in Windows /\ n \in Nat
      /\ h = [request |-> h.request, at |-> h.at]
    BY <1>1 DEF Shape, HandlersShape, Requested, ServerShape
<1>3. h.at = "decoded" /\ UNCHANGED <<outbox, nextConnID, born, delivered>>
    BY DEF HandlerChecks
<1>4. CASE ~Acceptable(w, n)
    BY <1>1, <1>2, <1>3, <1>4 DEF HandlerChecks
<1>5. CASE Acceptable(w, n)
    <2>1. /\ conns' = [conns EXCEPT ![c].window = Marked(@, n)]
          /\ crossed' = (crossed \/ h.request.wire.sealed.key # conns[c].key)
          /\ handlers' = (handlers \ {h}) \cup {[h EXCEPT !.at = "accepted"]}
          /\ UNCHANGED call
        BY <1>1, <1>5 DEF HandlerChecks
    <2>2. [h EXCEPT !.at = "accepted"] = [request |-> h.request, at |-> "accepted"]
        BY <1>2
    <2>3. conns'[c] = Rechecked(conns[c], Marked(w, n))
        BY <1>1, <1>2, <2>1 DEF Rechecked
    <2>4. DOMAIN conns' = DOMAIN conns /\ \A d \in DOMAIN conns : d # c => conns'[d] = conns[d]
        BY <2>1
    <2> QED BY <1>1, <1>2, <1>3, <1>5, <2>1, <2>2, <2>3, <2>4
<1> QED BY <1>4, <1>5

LEMMA InsertServed ==
    ASSUME Shape, NEW h \in handlers, HandlerInserts(h)
    PROVE  \E c, result :
              /\ c = h.request.conn /\ result = Received(conns[c].buffer, h.request.wire)
              /\ c \in DOMAIN conns /\ h.at = "accepted"
              /\ UNCHANGED <<outbox, nextConnID, born, crossed>>
              /\ DOMAIN conns' = DOMAIN conns
              /\ \A d \in DOMAIN conns : d # c => conns'[d] = conns[d]
              /\ conns'[c] = Rebuffered(conns[c], result.buffer)
              /\ delivered' = [delivered EXCEPT ![conns[c].stream] = @ \o result.ready]
              /\ handlers' = handlers \ {h} /\ HandlerEnds(h)
PROOF
<1>1. PICK c : c = h.request.conn
    OBVIOUS
<1>2. c \in DOMAIN conns
    BY <1>1 DEF Shape, HandlersShape
<1>3. h.at = "accepted" /\ UNCHANGED <<outbox, nextConnID, born, crossed>>
      /\ handlers' = handlers \ {h} /\ HandlerEnds(h)
    BY DEF HandlerInserts
<1>4. PICK result : /\ result = Received(conns[c].buffer, h.request.wire)
                    /\ conns' = [conns EXCEPT ![c].buffer = result.buffer]
                    /\ delivered' = [delivered EXCEPT ![conns[c].stream] = @ \o result.ready]
    BY <1>1 DEF HandlerInserts
<1>5. PICK s, buffer : s = conns[c] /\ buffer = result.buffer
    OBVIOUS
<1>6. /\ DOMAIN conns' = DOMAIN conns
      /\ \A d \in DOMAIN conns : d # c => conns'[d] = conns[d]
      /\ conns'[c] = Rebuffered(s, buffer)
    BY <1>2, <1>4, <1>5 DEF Rebuffered
<1>7. conns'[c] = Rebuffered(conns[c], result.buffer)
    BY <1>5, <1>6
<1>8. /\ c = h.request.conn /\ result = Received(conns[c].buffer, h.request.wire)
      /\ c \in DOMAIN conns /\ h.at = "accepted"
      /\ UNCHANGED <<outbox, nextConnID, born, crossed>>
      /\ DOMAIN conns' = DOMAIN conns
      /\ \A d \in DOMAIN conns : d # c => conns'[d] = conns[d]
      /\ conns'[c] = Rebuffered(conns[c], result.buffer)
      /\ delivered' = [delivered EXCEPT ![conns[c].stream] = @ \o result.ready]
      /\ handlers' = handlers \ {h} /\ HandlerEnds(h)
    BY <1>1, <1>2, <1>3, <1>4, <1>6, <1>7
<1> QED BY <1>8, Zenon

LEMMA HandlerServed ==
    ASSUME Shape, NEW h, HandlerStep(h)
    PROVE  /\ h \in handlers
           /\ UNCHANGED <<client, stray, outbox, nextConnID, born, opens, failures, restarts,
                          lostOpen, acked, pending, received>>
           /\ DOMAIN conns' = DOMAIN conns
           /\ \A c \in DOMAIN conns :
                 /\ IsSession(conns'[c]) /\ conns'[c].window \in Windows
                 /\ conns'[c].key = conns[c].key /\ conns'[c].stream = conns[c].stream
                 /\ conns'[c].sendSequence = conns[c].sendSequence
                 /\ conns'[c].sendCounter = conns[c].sendCounter
           /\ handlers' \subseteq (handlers \ {h}) \cup {[request |-> h.request, at |-> "accepted"]}
           /\ \/ call' = call
              \/ /\ call.at = "handled" /\ call.request = h.request /\ call' = Answer(h.request)
                 /\ handlers' = handlers \ {h}
PROOF
<1>1. /\ h \in handlers
      /\ UNCHANGED <<client, stray, opens, failures, restarts, lostOpen, acked, pending, received>>
    BY DEF HandlerStep, returned
<1>2. \A c \in DOMAIN conns : IsSession(conns[c]) /\ conns[c].window \in Windows
    BY DEF Shape, ServerShape
<1>3. CASE HandlerChecks(h)
    <2>1. PICK c, w, n :
              /\ c \in DOMAIN conns /\ w \in Windows /\ n \in Nat
              /\ UNCHANGED <<outbox, nextConnID, born, delivered>>
              /\ \/ /\ ~Acceptable(w, n) /\ handlers' = handlers \ {h}
                    /\ HandlerEnds(h) /\ UNCHANGED <<conns, crossed>>
                 \/ /\ Acceptable(w, n)
                    /\ DOMAIN conns' = DOMAIN conns
                    /\ \A d \in DOMAIN conns : d # c => conns'[d] = conns[d]
                    /\ conns'[c] = Rechecked(conns[c], Marked(w, n))
                    /\ handlers' = (handlers \ {h}) \cup {[request |-> h.request, at |-> "accepted"]}
                    /\ UNCHANGED call
        BY <1>1, <1>3, CheckServed
    <2>2. CASE ~Acceptable(w, n) /\ handlers' = handlers \ {h} /\ HandlerEnds(h) /\ UNCHANGED conns
        BY <1>1, <1>2, <2>1, <2>2 DEF HandlerEnds, Answer
    <2>3. CASE /\ Acceptable(w, n) /\ DOMAIN conns' = DOMAIN conns
               /\ \A d \in DOMAIN conns : d # c => conns'[d] = conns[d]
               /\ conns'[c] = Rechecked(conns[c], Marked(w, n))
               /\ handlers' = (handlers \ {h}) \cup {[request |-> h.request, at |-> "accepted"]}
               /\ UNCHANGED call
        <3>1. PICK s, v : s = conns[c] /\ v = Marked(w, n)
            OBVIOUS
        <3>2. conns'[c] = Rechecked(s, v) /\ v \in Windows /\ IsSession(s)
            BY <1>2, <2>1, <2>3, <3>1, MarkedWindows
        <3>3. /\ IsSession(conns'[c]) /\ conns'[c].window \in Windows
              /\ conns'[c].key = s.key /\ conns'[c].stream = s.stream
              /\ conns'[c].sendSequence = s.sendSequence /\ conns'[c].sendCounter = s.sendCounter
            BY <3>2, RecheckedFields
        <3> QED BY <1>1, <1>2, <2>1, <2>3, <3>1, <3>3
    <2> QED BY <2>1, <2>2, <2>3
<1>4. CASE HandlerInserts(h)
    <2>1. PICK c, buffer :
              /\ c \in DOMAIN conns
              /\ UNCHANGED <<outbox, nextConnID, born, crossed>>
              /\ DOMAIN conns' = DOMAIN conns
              /\ \A d \in DOMAIN conns : d # c => conns'[d] = conns[d]
              /\ conns'[c] = Rebuffered(conns[c], buffer)
              /\ handlers' = handlers \ {h} /\ HandlerEnds(h)
        BY <1>1, <1>4, InsertServed
    <2>2. PICK s : s = conns[c]
        OBVIOUS
    <2>3. /\ IsSession(conns'[c]) /\ conns'[c].window \in Windows
          /\ conns'[c].key = s.key /\ conns'[c].stream = s.stream
          /\ conns'[c].sendSequence = s.sendSequence /\ conns'[c].sendCounter = s.sendCounter
        BY <1>2, <2>1, <2>2, RebufferedFields
    <2> QED BY <1>1, <1>2, <2>1, <2>2, <2>3 DEF HandlerEnds, Answer
<1> QED BY <1>3, <1>4 DEF HandlerStep

LEMMA ShapeHandler ==
    ASSUME Shape, NEW h, HandlerStep(h)
    PROVE  Shape'
PROOF
<1> USE ChannelAssumption
<1>1. /\ h \in handlers
      /\ UNCHANGED <<client, stray, outbox, nextConnID, born, opens, restarts, acked>>
      /\ DOMAIN conns' = DOMAIN conns
      /\ \A c \in DOMAIN conns :
            /\ IsSession(conns'[c]) /\ conns'[c].window \in Windows
            /\ conns'[c].stream = conns[c].stream /\ conns'[c].sendSequence = conns[c].sendSequence
      /\ handlers' \subseteq (handlers \ {h}) \cup {[request |-> h.request, at |-> "accepted"]}
      /\ \/ call' = call
         \/ call.at = "handled" /\ call.request = h.request /\ call' = Answer(h.request)
    BY HandlerServed
<1>2. ServerShape'
    BY <1>1, ShapeServer DEF Shape, ServerShape
<1>3. HandlersShape'
    <2>1. PICK g : g = [request |-> h.request, at |-> "accepted"]
        OBVIOUS
    <2>2. g.request = h.request /\ g.at = "accepted" /\ g = [request |-> g.request, at |-> g.at]
        BY <2>1
    <2>3. HandlersShape /\ handlers' \subseteq handlers \cup {g} /\ UNCHANGED <<client, opens>>
        BY <1>1, <2>1 DEF Shape
    <2>4. \A k \in handlers : Requested(k.request)'
        BY <2>3 DEF HandlersShape, Requested
    <2> QED BY <1>1, <2>2, <2>3, <2>4 DEF HandlersShape
<1>4. Answer(h.request).at = "answered" /\ Answer(h.request).request = h.request
    BY DEF Answer
<1>5. Unserved' \subseteq Unserved /\ InFlight' \subseteq InFlight
    BY <1>1, <1>4 DEF Unserved, InFlight
<1>6. CallShape'
    <2>1. CASE call' = call
        BY <1>1, <2>1 DEF Shape, CallShape
    <2>2. CASE call.at = "handled" /\ call.request = h.request /\ call' = Answer(h.request)
        BY <1>1, <1>4, <2>2 DEF Shape, CallShape
    <2> QED BY <1>1, <2>1, <2>2
<1>7. call'.at = "sent" => call' = call
    BY <1>1, <1>4
<1> QED BY <1>1, <1>2, <1>3, <1>5, <1>6, <1>7, ShapeFewer

LEMMA ShapeQueue ==
    ASSUME Shape, NEW c \in DOMAIN conns, QueueOutgoing(c)
    PROVE  Shape'
PROOF
<1> USE ChannelAssumption
<1>0. /\ UNCHANGED <<client, call, stray, handlers, nextConnID, born, opens, restarts, acked>>
      /\ DOMAIN outbox' = DOMAIN outbox
      /\ conns' = [conns EXCEPT ![c] = Counted(@)] /\ conns[c].sendSequence < MaxChunks
    BY DEF QueueOutgoing
<1>1. OpensCounted' /\ ClientShape' /\ CallShape' /\ \A q \in InFlight' : Requested(q)'
    BY <1>0 DEF Shape, OpensCounted, Unserved, ClientShape, CallShape, InFlight, Requested
<1>2. DOMAIN conns' = DOMAIN conns
    BY <1>0
<1>3. ASSUME NEW d \in DOMAIN conns
      PROVE  /\ IsSession(conns'[d]) /\ conns'[d].stream = conns[d].stream
             /\ conns'[d].sendSequence \in 0 .. MaxChunks /\ conns'[d].window \in Windows
    <2>1. CASE d # c
        BY <1>0, <2>1 DEF Shape, ServerShape
    <2>2. CASE d = c
        <3>1. PICK s : s = conns[c]
            OBVIOUS
        <3>2. conns'[c] = Counted(s) /\ IsSession(s)
              /\ s.sendSequence \in 0 .. MaxChunks /\ s.sendSequence < MaxChunks
              /\ s.window \in Windows
            BY <1>0, <3>1 DEF Shape, ServerShape
        <3> QED BY <2>2, <3>1, <3>2, CountedFields
    <2> QED BY <2>1, <2>2
<1>4. ServerShape'
    BY <1>0, <1>2, <1>3, ShapeServer
<1>5. HandlersShape'
    BY <1>0, <1>2, HandlersKeep DEF Shape, ClientShape
<1> QED BY <1>1, <1>4, <1>5 DEF Shape

LEMMA ShapeRestart == Shape /\ Restart => Shape'
PROOF
<1> SUFFICES ASSUME Shape, Restart PROVE Shape'
    OBVIOUS
<1>0. /\ UNCHANGED <<client, stray, born, opens, acked>> /\ handlers' = {}
      /\ restarts' = restarts + 1 /\ conns' = << >> /\ outbox' = << >> /\ nextConnID' = 1
      /\ call' = IF call.at = "handled" THEN NoCall ELSE call
    BY DEF Restart
<1>1. NoCall.at = "idle"
    BY DEF NoCall
<1>2. /\ Unserved' \subseteq Unserved /\ InFlight' \subseteq InFlight
      /\ call'.at = "sent" => call' = call
    BY <1>0, <1>1 DEF Unserved, InFlight
<1>3. CallShape' /\ HandlersShape'
    BY <1>0, <1>1 DEF Shape, CallShape, HandlersShape
<1>4. ServerShape'
    <2>1. DOMAIN conns' = {} /\ DOMAIN outbox' = {} /\ 1 .. nextConnID' - 1 = {}
        BY <1>0
    <2> QED BY <1>0, <2>1 DEF Shape, ServerShape, OpensCounted, Outstanding
<1> QED BY <1>0, <1>2, <1>3, <1>4, ShapeFewer

-----------------------------------------------------------------------------
(* The client's steps leave the server alone; most end the call.           *)
LEMMA ServerKeeps ==
    ASSUME Shape, UNCHANGED <<conns, outbox, handlers, nextConnID, born, restarts>>,
           client'.sendSequence \in Nat, client'.sendSequence >= client.sendSequence
    PROVE  ServerShape' /\ HandlersShape'
PROOF
<1>1. ServerShape'
    BY DEF Shape, ServerShape
<1> QED BY <1>1, HandlersKeep

LEMMA CallEnds ==
    ASSUME Shape, call' = NoCall, UNCHANGED <<born, opens>>,
           \A q \in stray' : q \in stray \/ (call.at = "sent" /\ q = call.request),
           client'.sendSequence = client.sendSequence
    PROVE  OpensCounted' /\ CallShape' /\ \A q \in InFlight' : Requested(q)'
PROOF
<1>1. call'.at = "idle"
    BY DEF NoCall
<1>2. Unserved' = stray' /\ InFlight' = stray'
    BY <1>1 DEF Unserved, InFlight
<1>3. stray' \subseteq Unserved /\ stray' \subseteq InFlight
    BY DEF Unserved, InFlight
<1>4. Outstanding(born, opens, Unserved')
    BY <1>2, <1>3, FewerOutstanding DEF Shape, OpensCounted
<1>5. OpensCounted'
    BY <1>1, <1>4 DEF OpensCounted
<1>6. CallShape'
    BY <1>1 DEF CallShape
<1>7. \A q \in InFlight' : Requested(q)'
    BY <1>2, <1>3 DEF Shape, Requested
<1> QED BY <1>5, <1>6, <1>7

(* A request is sent: a handshake with a new key pair, or another.         *)
LEMMA CallBegins ==
    ASSUME Shape, call = NoCall, NEW r, Send(r), UNCHANGED <<stray, born>>,
           client'.sendSequence >= client.sendSequence,
           client'.sendSequence \in Nat, client'.conn = client.conn,
           \/ /\ r.kind = "open" /\ r.wire.ephemeral = opens + 1
              /\ opens < MaxOpens /\ opens' = opens + 1
           \/ /\ r.kind \in {"push", "pull"} /\ r.conn = client.conn /\ client.conn # NoConn
              /\ UNCHANGED opens /\ Requested(r)'
    PROVE  OpensCounted' /\ CallShape' /\ \A q \in InFlight' : Requested(q)'
PROOF
<1> USE ChannelAssumption
<1>1. call'.at = "sent" /\ call'.request = r /\ call.at = "idle"
    BY DEF Send, NoCall
<1>2. Unserved' = stray \cup {r} /\ InFlight' = stray \cup {r} /\ Unserved = stray /\ InFlight = stray
    BY <1>1 DEF Unserved, InFlight
<1>3. Outstanding(born, opens, stray) /\ opens \in 0 .. MaxOpens
    BY <1>2 DEF Shape, OpensCounted, Outstanding
<1>4. CallShape'
    BY <1>1 DEF CallShape
<1>5. client.sendSequence \in Nat /\ \A q \in stray : Requested(q)
    BY <1>2 DEF Shape, ClientShape
<1>6. CASE r.kind = "open"
    <2>1. Outstanding(born, opens + 1, stray \cup {r}) /\ r \notin stray
        BY <1>3, <1>6, OneBegun
    <2>2. OpensCounted'
        BY <1>1, <1>2, <1>6, <2>1 DEF OpensCounted
    <2>3. ASSUME NEW q \in stray PROVE Requested(q)'
        BY <1>3, <1>5, <1>6 DEF Requested
    <2>4. Requested(r)'
        BY <1>3, <1>6 DEF Requested
    <2> QED BY <1>2, <1>4, <2>2, <2>3, <2>4
<1>7. CASE r.kind # "open"
    <2>1. Outstanding(born, opens, stray \cup {r})
        BY <1>3, <1>7, FewerOutstanding
    <2>2. OpensCounted'
        BY <1>1, <1>2, <1>7, <2>1 DEF OpensCounted
    <2>3. ASSUME NEW q \in stray PROVE Requested(q)'
        BY <1>3, <1>5, <1>7 DEF Requested
    <2> QED BY <1>2, <1>4, <1>7, <2>2, <2>3
<1> QED BY <1>6, <1>7

LEMMA ShapeOpen == Shape /\ Open => Shape'
PROOF
<1> USE ChannelAssumption
<1> SUFFICES ASSUME Shape, Open PROVE Shape'
    OBVIOUS
<1>0. /\ call = NoCall /\ opens < MaxOpens /\ opens' = opens + 1
      /\ client' = IF client.conn = NoConn THEN client ELSE GraceStarted
      /\ UNCHANGED <<stray, conns, outbox, handlers, nextConnID, born, restarts, acked>>
    BY DEF Open, server
<1>1. PICK r : /\ r = [kind |-> "open", wire |-> EncodeHandshake(opens + 1, [conn |-> client.conn])]
               /\ Send(r)
    BY DEF Open
<1>2. r.kind = "open" /\ r.wire.ephemeral = opens + 1
    BY <1>1 DEF EncodeHandshake
<1>3. /\ IsClient(client') /\ client'.conn = client.conn /\ client'.key = client.key
      /\ client'.sendSequence = client.sendSequence /\ client'.sendCounter \in Nat
      /\ client'.inGrace \in BOOLEAN /\ client'.keyConfirmed \in BOOLEAN
      /\ client'.redundantSent \in 0 .. RedundantTotal
      /\ ~(client'.inGrace /\ client'.keyConfirmed)
    <2>1. CASE client' = client
        BY <2>1 DEF Shape, ClientShape
    <2>2. CASE client' = GraceStarted
        BY <2>2 DEF GraceStarted, IsClient, Shape, ClientShape
    <2> QED BY <1>0, <2>1, <2>2
<1>4. client.sendSequence \in Nat /\ opens \in Nat
    BY DEF Shape, ClientShape, OpensCounted, Outstanding
<1>5. OpensCounted' /\ CallShape' /\ \A q \in InFlight' : Requested(q)'
    BY <1>0, <1>1, <1>2, <1>3, <1>4, CallBegins
<1>6. ClientShape'
    BY <1>0, <1>3, <1>4 DEF Shape, ClientShape
<1>7. ServerShape' /\ HandlersShape'
    BY <1>0, <1>3, <1>4, ServerKeeps
<1> QED BY <1>5, <1>6, <1>7 DEF Shape

LEMMA ShapePush == Shape /\ Push => Shape'
PROOF
<1> USE ChannelAssumption
<1> SUFFICES ASSUME Shape, Push PROVE Shape'
    OBVIOUS
<1>0. /\ call = NoCall /\ client.conn # NoConn /\ client.sendSequence < MaxPushes
      /\ client' = Counted(client)
      /\ UNCHANGED <<stray, conns, outbox, handlers, nextConnID, born, opens, restarts, acked>>
    BY DEF Push, server
<1>1. PICK r : /\ r = [kind |-> "push", conn |-> client.conn,
                       wire |-> Encoded(client, client.conn, client.sendSequence)]
               /\ Send(r)
    BY DEF Push
<1>2. /\ r.kind = "push" /\ r.conn = client.conn
      /\ Plaintext(r.wire).sequence = client.sendSequence
      /\ Plaintext(r.wire).payload = client.sendSequence /\ r.wire.counter = client.sendCounter
    BY <1>1 DEF Encoded, EncodeDataFrame, Seal, Plaintext
<1>3. /\ IsClient(client') /\ client'.conn = client.conn /\ client'.key = client.key
      /\ client'.sendSequence = client.sendSequence + 1 /\ client'.sendCounter \in Nat
      /\ client'.inGrace = client.inGrace /\ client'.keyConfirmed = client.keyConfirmed
      /\ client'.redundantSent = client.redundantSent
    BY <1>0 DEF Counted, IsClient, Shape, ClientShape
<1>4. client.sendSequence \in Nat /\ client.sendCounter \in Nat
    BY DEF Shape, ClientShape
<1>5. OpensCounted' /\ CallShape' /\ \A q \in InFlight' : Requested(q)'
    <2>1. Requested(r)'
        BY <1>2, <1>3, <1>4 DEF Requested
    <2> QED BY <1>0, <1>1, <1>2, <1>3, <1>4, <2>1, CallBegins
<1>6. ClientShape'
    BY <1>0, <1>3, <1>4 DEF Shape, ClientShape
<1>7. ServerShape' /\ HandlersShape'
    BY <1>0, <1>3, <1>4, ServerKeeps
<1> QED BY <1>5, <1>6, <1>7 DEF Shape

LEMMA ShapePull == Shape /\ Pull => Shape'
PROOF
<1> USE ChannelAssumption
<1> SUFFICES ASSUME Shape, Pull PROVE Shape'
    OBVIOUS
<1>0. /\ call = NoCall /\ client.conn # NoConn
      /\ UNCHANGED <<client, stray, conns, outbox, handlers, nextConnID, born, opens, restarts, acked>>
    BY DEF Pull, server
<1>1. PICK r : r = [kind |-> "pull", conn |-> client.conn] /\ Send(r)
    BY DEF Pull
<1>2. r.kind = "pull" /\ r.conn = client.conn
    BY <1>1
<1>3. client.sendSequence \in Nat /\ Requested(r)'
    BY <1>2 DEF Shape, ClientShape, Requested
<1>4. OpensCounted' /\ CallShape' /\ \A q \in InFlight' : Requested(q)'
    BY <1>0, <1>1, <1>2, <1>3, CallBegins
<1>5. ServerShape' /\ HandlersShape'
    BY <1>0, <1>3, ServerKeeps
<1> QED BY <1>0, <1>4, <1>5 DEF Shape, ClientShape

LEMMA ShapeOpenReturns == Shape /\ OpenReturns => Shape'
PROOF
<1> USE ChannelAssumption
<1> SUFFICES ASSUME Shape, OpenReturns PROVE Shape'
    OBVIOUS
<1>0. /\ call.at = "answered" /\ call.request.kind = "open" /\ call' = NoCall
      /\ UNCHANGED <<stray, conns, outbox, handlers, nextConnID, born, opens, restarts, acked>>
    BY DEF OpenReturns, Answered, Returns, server
<1>1. PICK conn \in 1 .. born, key \in 1 .. opens, confirmed \in BOOLEAN :
          client' = [client EXCEPT
              !.conn = conn, !.key = key, !.sendCounter = 0,
              !.keyConfirmed = @ \/ confirmed, !.inGrace = @ /\ ~confirmed]
    <2>1. call.response.conn \in 1 .. born /\ call.response.keyConfirmed \in BOOLEAN
        BY <1>0 DEF Shape, CallShape
    <2>2. call.request.wire.ephemeral \in 1 .. opens
        BY <1>0 DEF Shape, InFlight, Requested
    <2> QED BY <2>1, <2>2 DEF OpenReturns
<1>2. /\ IsClient(client') /\ client'.conn = conn /\ client'.key = key
      /\ client'.sendSequence = client.sendSequence /\ client'.sendCounter = 0
      /\ client'.inGrace = (client.inGrace /\ ~confirmed)
      /\ client'.keyConfirmed = (client.keyConfirmed \/ confirmed)
      /\ client'.redundantSent = client.redundantSent
    BY <1>1 DEF IsClient, Shape, ClientShape
<1>3. OpensCounted' /\ CallShape' /\ \A q \in InFlight' : Requested(q)'
    BY <1>0, <1>2, CallEnds
<1>4. ClientShape'
    BY <1>0, <1>2 DEF Shape, ClientShape
<1>5. ServerShape' /\ HandlersShape'
    BY <1>0, <1>2, <1>4, ServerKeeps DEF ClientShape
<1> QED BY <1>3, <1>4, <1>5 DEF Shape

LEMMA ShapePushReturns == Shape /\ PushReturns => Shape'
PROOF
<1> USE ChannelAssumption
<1> SUFFICES ASSUME Shape, PushReturns PROVE Shape'
    OBVIOUS
<1>0. /\ call.at = "answered" /\ call.request.kind = "push" /\ call' = NoCall
      /\ acked' = acked \cup {Plaintext(call.request.wire).payload}
      /\ client' = IF ShouldSendRedundant THEN [client EXCEPT !.redundantSent = @ + 1] ELSE client
      /\ UNCHANGED <<stray, conns, outbox, handlers, nextConnID, born, opens, restarts>>
    BY DEF PushReturns, Answered, Returns, server
<1>1. Plaintext(call.request.wire).payload \in 0 .. client.sendSequence - 1
    BY <1>0 DEF Shape, InFlight, Requested
<1>2. /\ IsClient(client') /\ client'.conn = client.conn /\ client'.key = client.key
      /\ client'.sendSequence = client.sendSequence /\ client'.sendCounter = client.sendCounter
      /\ client'.inGrace = client.inGrace /\ client'.keyConfirmed = client.keyConfirmed
      /\ client'.redundantSent \in 0 .. RedundantTotal
    <2>1. CASE ShouldSendRedundant
        <3>1. PICK n \in 0 .. RedundantTotal : n = client.redundantSent + 1
            BY <2>1 DEF ShouldSendRedundant, Shape, ClientShape
        <3>2. client' = [client EXCEPT !.redundantSent = n]
            BY <1>0, <2>1, <3>1
        <3> QED BY <3>1, <3>2 DEF IsClient, Shape, ClientShape
    <2>2. CASE ~ShouldSendRedundant
        BY <1>0, <2>2 DEF Shape, ClientShape
    <2> QED BY <2>1, <2>2
<1>3. OpensCounted' /\ CallShape' /\ \A q \in InFlight' : Requested(q)'
    BY <1>0, <1>2, CallEnds
<1>4. ClientShape'
    BY <1>0, <1>1, <1>2 DEF Shape, ClientShape
<1>5. ServerShape' /\ HandlersShape'
    BY <1>0, <1>2, <1>4, ServerKeeps DEF ClientShape
<1> QED BY <1>3, <1>4, <1>5 DEF Shape

(* A pull that returns, whole or cut, changes the client's buffer only.    *)
LEMMA ShapePullReturns == Shape /\ (PullReturns \/ PullCut) => Shape'
PROOF
<1> SUFFICES ASSUME Shape, PullReturns \/ PullCut PROVE Shape'
    OBVIOUS
<1>0. /\ call' = NoCall
      /\ \E buffer : client' = [client EXCEPT !.buffer = buffer]
      /\ UNCHANGED <<stray, conns, outbox, handlers, nextConnID, born, opens, restarts, acked>>
    BY DEF PullReturns, PullCut, PullTakes, server
<1>1. /\ IsClient(client') /\ client'.conn = client.conn /\ client'.key = client.key
      /\ client'.sendSequence = client.sendSequence /\ client'.sendCounter = client.sendCounter
      /\ client'.inGrace = client.inGrace /\ client'.keyConfirmed = client.keyConfirmed
      /\ client'.redundantSent = client.redundantSent
    BY <1>0 DEF IsClient, Shape, ClientShape
<1>2. OpensCounted' /\ CallShape' /\ \A q \in InFlight' : Requested(q)'
    BY <1>0, <1>1, CallEnds
<1>3. ClientShape'
    BY <1>0, <1>1 DEF Shape, ClientShape
<1>4. ServerShape' /\ HandlersShape'
    BY <1>0, <1>1, <1>3, ServerKeeps, ChannelAssumption DEF ClientShape
<1> QED BY <1>2, <1>3, <1>4 DEF Shape

(* A call that fails or is refused changes nothing; what of it may be      *)
(* still on its way has not been served.                                   *)
LEMMA ShapeCallFails == Shape /\ (CallFails \/ CallRejected) => Shape'
PROOF
<1> SUFFICES ASSUME Shape, CallFails \/ CallRejected PROVE Shape'
    OBVIOUS
<1>0. /\ call' = NoCall
      /\ \A q \in stray' : q \in stray \/ (call.at = "sent" /\ q = call.request)
      /\ UNCHANGED <<client, conns, outbox, handlers, nextConnID, born, opens, restarts, acked>>
    BY DEF CallFails, CallRejected, Returns, server
<1>1. OpensCounted' /\ CallShape' /\ \A q \in InFlight' : Requested(q)'
    BY <1>0, CallEnds
<1>2. client.sendSequence \in Nat
    BY ChannelAssumption DEF Shape, ClientShape
<1>3. ServerShape' /\ HandlersShape'
    BY <1>0, <1>2, ServerKeeps
<1> QED BY <1>0, <1>1, <1>3 DEF Shape, ClientShape

LEMMA ShapeStutter ==
    /\ Shape
    /\ UNCHANGED <<client, call, stray, conns, outbox, handlers, nextConnID, born, opens, restarts, acked>>
    => Shape'
BY DEF Shape, OpensCounted, Unserved, ClientShape, CallShape, InFlight, Requested, HandlersShape,
       ServerShape

LEMMA ShapeNext == Shape /\ [Next]_vars => Shape'
PROOF
<1> SUFFICES ASSUME Shape, [Next]_vars PROVE Shape'
    OBVIOUS
<1>1. CASE ServeCall
    BY <1>1, ServeSplit, ShapeServe
<1>2. ASSUME NEW r \in stray, ServeStray(r) PROVE Shape'
    BY <1>2, ServeSplit, ShapeServe
<1>3. ASSUME NEW c \in DOMAIN conns, QueueOutgoing(c) PROVE Shape'
    BY <1>3, ShapeQueue
<1>4. CASE PullPending
    BY <1>4, ShapeStutter DEF PullPending, server
<1>5. CASE UNCHANGED vars
    BY <1>5, ShapeStutter DEF vars, server
<1>6. ASSUME NEW h \in handlers, HandlerStep(h) PROVE Shape'
    BY <1>6, ShapeHandler
<1> QED
    BY <1>1, <1>2, <1>3, <1>4, <1>5, <1>6, ShapeOpen, ShapePush, ShapePull, ShapeOpenReturns,
       ShapePushReturns, ShapePullReturns, ShapeCallFails, ShapeRestart
    DEF Next, ClientStep, ServerStep, Fault

LEMMA ShapeInvariance == Spec => []Shape
PROOF BY ShapeInit, ShapeNext, PTL DEF Spec

(* Ids and counters stay in their ranges, every session has an outbox, and *)
(* only what was sent is acknowledged (server.go:55-58, :164-167,          *)
(* :376-400, client.go:125-145).                                           *)
THEOREM ChannelTypeCorrect == Spec => []TypeOK
PROOF BY ShapeInvariance, ShapeTypeOK, PTL

-----------------------------------------------------------------------------
(* Steps other than Push send nothing.                                     *)
LEMMA SendsOnly ==
    ASSUME Shape, [Next]_vars
    PROVE  client'.sendSequence = client.sendSequence \/ Push
PROOF
<1>0. IsClient(client)
    BY DEF Shape, ClientShape
<1>1. CASE UNCHANGED client
    BY <1>1
<1>2. CASE Open
    BY <1>0, <1>2 DEF Open, GraceStarted, IsClient
<1>3. CASE OpenReturns
    BY <1>0, <1>3 DEF OpenReturns, IsClient
<1>4. CASE PushReturns
    <2>1. CASE ShouldSendRedundant
        <3>1. PICK n : client' = [client EXCEPT !.redundantSent = n]
            BY <1>4, <2>1 DEF PushReturns
        <3> QED BY <1>0, <3>1 DEF IsClient
    <2> QED BY <1>4, <2>1 DEF PushReturns
<1>5. CASE PullReturns \/ PullCut
    <2>1. \E buffer : client' = [client EXCEPT !.buffer = buffer]
        BY <1>5 DEF PullReturns, PullCut, PullTakes
    <2> QED BY <1>0, <2>1 DEF IsClient
<1>6. CASE Push
    BY <1>6
<1>7. CASE Pull \/ CallRejected \/ PullPending \/ ServerStep \/ CallFails \/ Restart \/ UNCHANGED vars
    BY <1>1, <1>7 DEF Pull, CallRejected, PullPending, ServerStep, ServeCall, ServeStray, HandlerStep,
                QueueOutgoing, CallFails, Restart, vars
<1> QED BY <1>2, <1>3, <1>4, <1>5, <1>6, <1>7 DEF Next, ClientStep, Fault

-----------------------------------------------------------------------------
(* The lemmas about buffers speak of no variable and of no window, so what *)
(* those of Receiver stand for does not matter.                            *)
Value == INSTANCE ReceiverProofs
    WITH WindowSize <- 1, BitmapBits <- 1, Counters <- Nat, StreamLength <- 0,
         window <- 0, accepted <- {}, verdict <- 0,
         buffer <- 0, arrived <- {}, delivered <- << >>,
         guarded <- FALSE, rekeyed <- 0, key <- 0, lost <- FALSE

Given(buffer) == Value!Given(buffer)
Buffered(r, n, done) == Value!Buffered(r, n, Given(r), done)

LEMMA ValueAssumptions ==
    /\ SeqSpace \in Nat \ {0} /\ 0 \in Nat /\ 0 < SeqSpace
    /\ 1 \in Nat \ {0} /\ 1 \in Nat /\ 1 <= 1
    /\ 0 .. 0 - 1 \subseteq Nat
BY SeqSpaceAssumption

LEMMA SameInsert ==
    /\ \A r, n, payload : Value!Insert(r, n, payload) = Insert(r, n, payload)
    /\ Value!NewReorderBuffer(0) = NewReorderBuffer(0)
PROOF
<1>1. \A r, n, payload : Value!Insert(r, n, payload) = Insert(r, n, payload)
    BY DEF Value!Insert, Insert, Value!Duplicate, Duplicate, Value!Store, Store, Value!Flush, Flush,
           Value!RunEnd, RunEnd, Value!Uint32, Uint32
<1>2. Value!NewReorderBuffer(0) = NewReorderBuffer(0)
    BY DEF Value!NewReorderBuffer, NewReorderBuffer, Value!NoPending, NoPending
<1> QED BY <1>1, <1>2

LEMMA BufferInserts ==
    ASSUME NEW n \in 0 .. MaxPushes, NEW r, NEW done, Buffered(r, n, done), NEW i \in 0 .. n - 1
    PROVE  /\ Buffered(Insert(r, i, i).buffer, n, done \o Insert(r, i, i).ready)
           /\ Given(Insert(r, i, i).buffer) = Given(r) \cup {i}
           /\ Insert(r, i, i).ready \in Seq(Nat)
PROOF
<1>1. n \in Nat /\ n < SeqSpace
    BY ChannelAssumption, SeqSpaceAssumption
<1>2. Value!Buffered(Value!Insert(r, i, i).buffer, n, Given(r) \cup {i},
                     done \o Value!Insert(r, i, i).ready)
    BY <1>1, Value!InsertKeeps, ValueAssumptions
    DEF Buffered, Value!Stream, Value!InOrder!Stream
<1>3. Given(Insert(r, i, i).buffer) = Given(r) \cup {i}
    BY <1>1, <1>2, SameInsert, Value!BufferedFilled, ValueAssumptions
    DEF Given, Value!Stream, Value!InOrder!Stream
<1>4. Value!Insert(r, i, i).ready \in Seq(Nat)
    BY <1>1, Value!ReadyNumbers, ValueAssumptions
    DEF Buffered, Value!Stream, Value!InOrder!Stream
<1> QED BY <1>2, <1>3, <1>4, SameInsert DEF Buffered

LEMMA BufferEmpty == \A n \in Nat : Buffered(NewReorderBuffer(0), n, << >>)
PROOF
<1>1. \A n \in Nat : Value!Buffered(Value!NewReorderBuffer(0), n, {}, << >>)
    BY Value!EmptyBuffered, ValueAssumptions DEF Value!Stream, Value!InOrder!Stream
<1>2. Value!Given(NewReorderBuffer(0)) = {}
    BY DEF Value!Given, NewReorderBuffer, NoPending
<1> QED BY <1>1, <1>2, SameInsert DEF Buffered, Given

(* More of the stream was sent than had been.                              *)
LEMMA BufferedLonger ==
    ASSUME NEW n \in Nat, NEW r, NEW done, Buffered(r, n, done)
    PROVE  Buffered(r, n + 1, done)
PROOF
<1>1. /\ \A k \in 0 .. n : k \in 0 .. n + 1
      /\ \A k \in 0 .. n - 1 : k \in 0 .. n + 1 - 1
    OBVIOUS
<1> QED BY <1>1 DEF Buffered, Value!Buffered

-----------------------------------------------------------------------------
(* What every session delivered is a prefix of what the client sent, and a *)
(* live session's buffer goes on from there.                               *)
Prefix(n) == [k \in 1 .. n |-> k - 1]

Uploaded ==
    /\ delivered \in [1 .. MaxOpens -> Seq(Nat)]
    /\ \A s \in 1 .. MaxOpens :
          /\ Len(delivered[s]) <= client.sendSequence
          /\ delivered[s] = Prefix(Len(delivered[s]))
          /\ s > born => delivered[s] = << >>
    /\ \A c \in DOMAIN conns :
          Buffered(conns[c].buffer, client.sendSequence, delivered[conns[c].stream])

LEMMA UploadedInit == Init => Uploaded
PROOF
<1> SUFFICES ASSUME Init PROVE Uploaded
    OBVIOUS
<1>1. /\ client.sendSequence = 0 /\ conns = << >> /\ DOMAIN conns = {}
      /\ delivered = [stream \in 1 .. MaxOpens |-> << >>]
    BY DEF Init
<1>2. Prefix(0) = << >> /\ Len(<< >>) = 0 /\ << >> \in Seq(Nat)
    BY DEF Prefix
<1> QED BY <1>1, <1>2 DEF Uploaded

LEMMA UploadedStutter ==
    ASSUME Uploaded, UNCHANGED <<delivered, conns, born>>,
           client'.sendSequence = client.sendSequence
    PROVE  Uploaded'
BY DEF Uploaded

LEMMA UploadedPush ==
    ASSUME Shape, Uploaded, Push
    PROVE  Uploaded'
PROOF
<1>1. /\ client.sendSequence \in Nat /\ client'.sendSequence = client.sendSequence + 1
      /\ UNCHANGED <<delivered, conns, born>>
    BY DEF Push, Counted, server, Shape, ClientShape, IsClient
<1>2. \A s \in 1 .. MaxOpens : Len(delivered[s]) \in Nat
    BY DEF Uploaded
<1>3. \A s \in 1 .. MaxOpens : Len(delivered[s]) <= client'.sendSequence
    BY <1>1, <1>2 DEF Uploaded
<1>4. ASSUME NEW c \in DOMAIN conns
      PROVE  Buffered(conns[c].buffer, client'.sendSequence, delivered[conns[c].stream])
    <2>1. Buffered(conns[c].buffer, client.sendSequence, delivered[conns[c].stream])
        BY DEF Uploaded
    <2> QED BY <1>1, <2>1, BufferedLonger
<1> QED BY <1>1, <1>3, <1>4 DEF Uploaded

LEMMA UploadedOpen ==
    ASSUME Shape, Uploaded, NEW r, NEW answer, r \in Unserved, r.kind = "open",
           HandleOpen(r, answer), UNCHANGED client
    PROVE  Uploaded'
PROOF
<1> USE ChannelAssumption
<1>1. PICK id \in DOMAIN conns', known \in BOOLEAN :
          /\ known <=> id \in DOMAIN conns
          /\ DOMAIN conns' = DOMAIN conns \cup {id}
          /\ \A c \in DOMAIN conns : c # id => conns'[c] = conns[c]
          /\ known => conns'[id] = Rekeyed(conns[id], r.wire.ephemeral)
          /\ ~known => conns'[id] = Rekeyed(NewSession(born + 1), r.wire.ephemeral)
          /\ born' = IF known THEN born ELSE born + 1
          /\ UNCHANGED delivered
    BY OpenServed
<1>2. born \in Nat /\ born + 1 \in 1 .. MaxOpens
    <2>1. Outstanding(born, opens, Unserved)
        BY DEF Shape, OpensCounted
    <2>2. born \in Nat /\ opens \in 0 .. MaxOpens /\ born < opens
        BY <2>1, OneServed DEF Outstanding
    <2> QED BY <2>2
<1>3. \A s \in 1 .. MaxOpens : s > born' => s > born
    BY <1>1, <1>2
<1>4. ASSUME NEW c \in DOMAIN conns
      PROVE  Buffered(conns'[c].buffer, client.sendSequence, delivered[conns'[c].stream])
    <2>1. conns'[c].buffer = conns[c].buffer /\ conns'[c].stream = conns[c].stream
        BY <1>1, RekeyedFields DEF Shape, ServerShape
    <2> QED BY <2>1 DEF Uploaded
<1>5. ASSUME ~known
      PROVE  Buffered(conns'[id].buffer, client.sendSequence, delivered[conns'[id].stream])
    <2>1. conns'[id].buffer = NewReorderBuffer(0) /\ conns'[id].stream = born + 1
        BY <1>1, <1>5, NewSessionShape, RekeyedFields
    <2>2. delivered[born + 1] = << >>
        BY <1>2 DEF Uploaded
    <2>3. client.sendSequence \in Nat
        BY DEF Shape, ClientShape
    <2> QED BY <2>1, <2>2, <2>3, BufferEmpty
<1>6. \A c \in DOMAIN conns' :
          Buffered(conns'[c].buffer, client.sendSequence, delivered[conns'[c].stream])
    BY <1>1, <1>4, <1>5
<1> QED BY <1>1, <1>3, <1>6 DEF Uploaded

(* A frame that a session decodes is one that the client sent.             *)
LEMMA PushBuffered ==
    ASSUME Shape, Uploaded, NEW r, Requested(r), r.kind = "push", NEW c \in DOMAIN conns
    PROVE  LET s == conns[c]
               result == Received(s.buffer, r.wire)
           IN  /\ s.stream \in 1 .. MaxOpens
               /\ Buffered(result.buffer, client.sendSequence, delivered[s.stream] \o result.ready)
               /\ Given(result.buffer) = Given(s.buffer) \cup {Plaintext(r.wire).sequence}
               /\ result.ready \in Seq(Nat)
PROOF
<1> USE ChannelAssumption
<1>1. PICK s, i : s = conns[c] /\ i = Plaintext(r.wire).sequence
    OBVIOUS
<1>2. i \in 0 .. client.sendSequence - 1 /\ Received(s.buffer, r.wire) = Insert(s.buffer, i, i)
    BY <1>1 DEF Requested, Received
<1>3. /\ Buffered(s.buffer, client.sendSequence, delivered[s.stream])
      /\ client.sendSequence \in 0 .. MaxPushes
    BY <1>1 DEF Uploaded, Shape, ClientShape
<1>4. s.stream \in 1 .. MaxOpens
    <2>1. born <= opens /\ born \in Nat /\ opens \in 0 .. MaxOpens
        BY OutstandingBounds DEF Shape, OpensCounted, Outstanding
    <2> QED BY <1>1, <2>1 DEF Shape, ServerShape
<1>5. PICK old, done, n : old = s.buffer /\ done = delivered[s.stream] /\ n = client.sendSequence
    OBVIOUS
<1>6. Buffered(old, n, done) /\ n \in 0 .. MaxPushes /\ i \in 0 .. n - 1
    BY <1>2, <1>3, <1>5
<1>7. Buffered(Insert(old, i, i).buffer, n, done \o Insert(old, i, i).ready)
    BY <1>6, BufferInserts
<1>8. Given(Insert(old, i, i).buffer) = Given(old) \cup {i} /\ Insert(old, i, i).ready \in Seq(Nat)
    BY <1>6, BufferInserts
<1> QED BY <1>1, <1>2, <1>4, <1>5, <1>7, <1>8

LEMMA UploadedInsert ==
    ASSUME Shape, Uploaded, NEW h \in handlers, HandlerInserts(h), UNCHANGED client
    PROVE  Uploaded'
PROOF
<1> USE ChannelAssumption
<1>1. PICK r : r = h.request /\ Requested(r) /\ r.kind = "push" /\ r.conn \in DOMAIN conns
    BY DEF Shape, HandlersShape
<1>2. Uploaded'
    <2>1. PICK s, buffer, ready : /\ s = conns[r.conn]
                                  /\ buffer = Received(s.buffer, r.wire).buffer
                                  /\ ready = Received(s.buffer, r.wire).ready
        OBVIOUS
    <2>2. /\ UNCHANGED born /\ DOMAIN conns' = DOMAIN conns
          /\ \A c \in DOMAIN conns : c # r.conn => conns'[c] = conns[c]
          /\ conns'[r.conn] = Rebuffered(s, buffer)
          /\ delivered' = [delivered EXCEPT ![s.stream] = @ \o ready]
        <3>1. PICK c, result :
                  /\ c = h.request.conn /\ result = Received(conns[c].buffer, h.request.wire)
                  /\ c \in DOMAIN conns /\ h.at = "accepted"
                  /\ UNCHANGED <<outbox, nextConnID, born, crossed>>
                  /\ DOMAIN conns' = DOMAIN conns
                  /\ \A d \in DOMAIN conns : d # c => conns'[d] = conns[d]
                  /\ conns'[c] = Rebuffered(conns[c], result.buffer)
                  /\ delivered' = [delivered EXCEPT ![conns[c].stream] = @ \o result.ready]
                  /\ handlers' = handlers \ {h} /\ HandlerEnds(h)
            BY InsertServed
        <3>2. c = r.conn /\ conns[c] = s /\ result.buffer = buffer /\ result.ready = ready
            BY <1>1, <2>1, <3>1
        <3>3. delivered' = [delivered EXCEPT ![s.stream] = @ \o ready]
            BY <3>1, <3>2, Zenon
        <3>4. /\ DOMAIN conns' = DOMAIN conns
              /\ \A d \in DOMAIN conns : d # c => conns'[d] = conns[d]
              /\ conns'[c] = Rebuffered(s, buffer) /\ UNCHANGED born
            BY <3>1, <3>2
        <3> QED BY <3>2, <3>3, <3>4
    <2>3. PICK n \in 0 .. MaxPushes : n = client.sendSequence
        BY DEF Shape, ClientShape
    <2>4. PICK whole : whole = delivered[s.stream] \o ready
        OBVIOUS
    <2>5. s.stream \in 1 .. MaxOpens /\ Buffered(buffer, n, whole)
        BY <1>1, <2>1, <2>3, <2>4, PushBuffered
    <2>6. PICK m \in 0 .. n : whole = Prefix(m)
        <3>1. buffer.nextExpected \in 0 .. n /\ whole = Prefix(buffer.nextExpected)
            BY <2>5 DEF Buffered, Value!Buffered, Prefix
        <3> QED BY <3>1
    <2>7. whole \in Seq(Nat) /\ Len(whole) = m /\ m <= n
        BY <2>6 DEF Prefix
    <2>8. /\ delivered' \in [1 .. MaxOpens -> Seq(Nat)]
          /\ delivered'[s.stream] = whole
          /\ \A t \in 1 .. MaxOpens : t # s.stream => delivered'[t] = delivered[t]
        BY <2>2, <2>4, <2>5, <2>7 DEF Uploaded
    <2>9. /\ IsSession(s) /\ s.stream \in 1 .. born /\ born \in Nat
          /\ \A c \in DOMAIN conns : conns[c].stream = s.stream => c = r.conn
          /\ \A c \in DOMAIN conns : conns[c].stream \in 1 .. born
        BY <1>1, <2>1 DEF Shape, ServerShape, OpensCounted, Outstanding
    <2>10. ASSUME NEW t \in 1 .. MaxOpens
           PROVE  /\ Len(delivered'[t]) <= n /\ delivered'[t] = Prefix(Len(delivered'[t]))
                  /\ t > born => delivered'[t] = << >>
        <3>1. CASE t = s.stream
            BY <2>6, <2>7, <2>8, <2>9, <3>1
        <3>2. CASE t # s.stream
            BY <2>3, <2>8, <3>2 DEF Uploaded
        <3> QED BY <3>1, <3>2
    <2>11. ASSUME NEW c \in DOMAIN conns
           PROVE  Buffered(conns'[c].buffer, n, delivered'[conns'[c].stream])
        <3>1. CASE c = r.conn
            <4>1. conns'[c].buffer = buffer /\ conns'[c].stream = s.stream
                BY <2>2, <2>9, <3>1, RebufferedFields
            <4> QED BY <2>5, <2>8, <4>1
        <3>2. CASE c # r.conn
            <4>1. conns'[c] = conns[c] /\ conns[c].stream # s.stream /\ conns[c].stream \in 1 .. MaxOpens
                <5>1. born <= opens /\ opens \in 0 .. MaxOpens
                    BY OutstandingBounds DEF Shape, OpensCounted, Outstanding
                <5> QED BY <2>2, <2>9, <3>2, <5>1
            <4> QED BY <2>3, <2>8, <4>1 DEF Uploaded
        <3> QED BY <3>1, <3>2
    <2> QED BY <2>2, <2>3, <2>8, <2>10, <2>11 DEF Uploaded
<1> QED BY <1>2

(* A check changes no buffer.                                              *)
LEMMA ChecksOnly ==
    ASSUME Shape, NEW h \in handlers, HandlerChecks(h)
    PROVE  /\ UNCHANGED <<delivered, born>> /\ DOMAIN conns' = DOMAIN conns
           /\ \A c \in DOMAIN conns :
                 conns'[c].buffer = conns[c].buffer /\ conns'[c].stream = conns[c].stream
PROOF
<1>1. PICK c, v :
          /\ UNCHANGED <<born, delivered>>
          /\ \/ UNCHANGED conns
             \/ /\ DOMAIN conns' = DOMAIN conns /\ c \in DOMAIN conns
                /\ \A d \in DOMAIN conns : d # c => conns'[d] = conns[d]
                /\ conns'[c] = Rechecked(conns[c], v)
    BY CheckServed
<1>2. \A d \in DOMAIN conns : IsSession(conns[d])
    BY DEF Shape, ServerShape
<1>3. CASE UNCHANGED conns
    BY <1>1, <1>3
<1>4. CASE ~UNCHANGED conns
    <2>1. PICK s : s = conns[c] /\ IsSession(s)
        BY <1>1, <1>2, <1>4
    <2>2. conns'[c].buffer = s.buffer /\ conns'[c].stream = s.stream
        BY <1>1, <1>4, <2>1, RecheckedFields
    <2> QED BY <1>1, <1>4, <2>1, <2>2
<1> QED BY <1>3, <1>4

LEMMA UploadedHandler ==
    ASSUME Shape, Uploaded, NEW h, HandlerStep(h)
    PROVE  Uploaded'
PROOF
<1>1. h \in handlers /\ UNCHANGED client
    BY DEF HandlerStep
<1>2. CASE HandlerInserts(h)
    BY <1>1, <1>2, UploadedInsert
<1>3. CASE HandlerChecks(h)
    BY <1>1, <1>3, ChecksOnly DEF Uploaded
<1> QED BY <1>2, <1>3 DEF HandlerStep

LEMMA UploadedNext == Shape /\ Uploaded /\ [Next]_vars => Uploaded'
PROOF
<1> SUFFICES ASSUME Shape, Uploaded, [Next]_vars PROVE Uploaded'
    OBVIOUS
<1>1. CASE Push
    BY <1>1, UploadedPush
<1>2. ASSUME NEW r, NEW answer, Serve(r, answer) PROVE Uploaded'
    <2>1. UNCHANGED client
        BY <1>2 DEF Serve
    <2>2. ASSUME NEW response, Respond(answer, response) PROVE r \in Unserved
        BY <1>2, <2>2, ServedRequest DEF Serve
    <2>3. CASE r.kind = "open" /\ HandleOpen(r, answer)
        <3>1. r \in Unserved
            BY <2>2, <2>3, OpenServed
        <3> QED BY <2>1, <2>3, <3>1, UploadedOpen
    <2>4. CASE NotFound(r, answer)
        BY <2>1, <2>4, UploadedStutter DEF NotFound, server
    <2>5. CASE HandlePush(r, answer)
        BY <2>1, <2>5, UploadedStutter DEF HandlePush
    <2>6. CASE HandlePull(r, answer)
        BY <2>1, <2>6, UploadedStutter DEF HandlePull
    <2> QED BY <1>2, <2>3, <2>4, <2>5, <2>6 DEF Serve, Handle
<1>3. ASSUME NEW c \in DOMAIN conns, QueueOutgoing(c) PROVE Uploaded'
    <2>1. /\ UNCHANGED <<client, delivered, born>> /\ DOMAIN conns' = DOMAIN conns
          /\ conns' = [conns EXCEPT ![c] = Counted(@)]
        BY <1>3 DEF QueueOutgoing
    <2>2. ASSUME NEW d \in DOMAIN conns
          PROVE  conns'[d].buffer = conns[d].buffer /\ conns'[d].stream = conns[d].stream
        BY <2>1, CountedFields DEF Shape, ServerShape
    <2> QED BY <2>1, <2>2 DEF Uploaded
<1>4. CASE Restart
    <2>1. UNCHANGED <<client, delivered, born>> /\ DOMAIN conns' = {}
        BY <1>4 DEF Restart
    <2> QED BY <2>1 DEF Uploaded
<1>5. CASE \/ Open \/ OpenReturns \/ PushReturns \/ PullReturns \/ CallRejected \/ PullPending
           \/ Pull \/ CallFails \/ PullCut \/ UNCHANGED vars
    <2>1. UNCHANGED <<delivered, conns, born>>
        BY <1>5 DEF Open, OpenReturns, PushReturns, PullReturns, CallRejected, PullPending, Pull,
                    CallFails, PullCut, PullTakes, Returns, server, vars
    <2>2. CASE Push
        BY <2>2, UploadedPush
    <2> QED BY <2>1, <2>2, SendsOnly, UploadedStutter
<1> QED BY <1>1, <1>2, <1>3, <1>4, <1>5, ServeSplit, UploadedHandler
        DEF Next, ClientStep, ServerStep, Fault

LEMMA UploadedInvariance == Spec => []Uploaded
PROOF BY ShapeInvariance, UploadedInit, UploadedNext, PTL DEF Spec

-----------------------------------------------------------------------------
(* The refinement: Push is a write; a handler that inserts its frame is a  *)
(* read by the session it is for, or changes nothing that is seen.         *)
Sent == [i \in 1 .. client.sendSequence |-> i - 1]

LEMMA PushWrites ==
    ASSUME Shape, Push
    PROVE  Upload!Next
PROOF
<1> USE ChannelAssumption
<1>1. PICK n \in 0 .. MaxPushes - 1 : n = client.sendSequence
    BY DEF Push, Shape, ClientShape
<1>2. client'.sendSequence = n + 1 /\ UNCHANGED delivered
    BY <1>1 DEF Push, Counted, server, Shape, ClientShape, IsClient
<1>3. [i \in 1 .. n + 1 |-> i - 1] = Append([i \in 1 .. n |-> i - 1], n)
    OBVIOUS
<1>4. Upload!Write(n)
    BY <1>1, <1>2, <1>3 DEF Upload!Write
<1> QED BY <1>4 DEF Upload!Next

LEMMA InsertReads ==
    ASSUME Shape, Uploaded, Uploaded', NEW h \in handlers, HandlerInserts(h), UNCHANGED client
    PROVE  Upload!Next \/ UNCHANGED delivered
PROOF
<1> USE ChannelAssumption
<1>1. PICK r : r = h.request /\ Requested(r) /\ r.kind = "push" /\ r.conn \in DOMAIN conns
    BY DEF Shape, HandlersShape
<1>2. Upload!Next \/ UNCHANGED delivered
    <2>1. PICK stream, ready : /\ stream = conns[r.conn].stream
                               /\ ready = Received(conns[r.conn].buffer, r.wire).ready
        OBVIOUS
    <2>2. /\ delivered' = [delivered EXCEPT ![stream] = @ \o ready]
          /\ stream \in 1 .. MaxOpens /\ ready \in Seq(Nat)
        <3>1. PICK c, result :
                  /\ c = h.request.conn /\ result = Received(conns[c].buffer, h.request.wire)
                  /\ c \in DOMAIN conns /\ h.at = "accepted"
                  /\ UNCHANGED <<outbox, nextConnID, born, crossed>>
                  /\ DOMAIN conns' = DOMAIN conns
                  /\ \A d \in DOMAIN conns : d # c => conns'[d] = conns[d]
                  /\ conns'[c] = Rebuffered(conns[c], result.buffer)
                  /\ delivered' = [delivered EXCEPT ![conns[c].stream] = @ \o result.ready]
                  /\ handlers' = handlers \ {h} /\ HandlerEnds(h)
            BY InsertServed
        <3>2. stream \in 1 .. MaxOpens /\ ready \in Seq(Nat)
            BY <1>1, <2>1, PushBuffered
        <3>3. conns[c].stream = stream /\ result.ready = ready
            BY <1>1, <2>1, <3>1
        <3> QED BY <3>1, <3>2, <3>3
    <2>3. PICK old \in Seq(Nat), new \in Seq(Nat) : old = delivered[stream] /\ new = delivered'[stream]
        BY <2>2 DEF Uploaded
    <2>4. new = old \o ready /\ delivered' = [delivered EXCEPT ![stream] = new]
        BY <2>2, <2>3 DEF Uploaded
    <2>5. CASE ready = << >>
        <3>1. new = old
            BY <2>4, <2>5
        <3> QED BY <2>2, <2>3, <2>4, <3>1 DEF Uploaded
    <2>6. CASE ready # << >>
        <3>1. PICK n \in 0 .. MaxPushes : n = client.sendSequence
            BY DEF Shape, ClientShape
        <3>2. PICK m : m = Len(new)
            OBVIOUS
        <3>3. m \in Len(old) + 1 .. n /\ new = Prefix(m)
            <4>1. Len(new) = Len(old) + Len(ready) /\ Len(ready) \in Nat \ {0} /\ Len(old) \in Nat
                BY <2>2, <2>3, <2>4, <2>6, EmptySeq, LenProperties, ConcatProperties
            <4>2. m <= n /\ new = Prefix(m)
                BY <2>2, <2>3, <3>1, <3>2 DEF Uploaded
            <4>3. m \in Nat /\ m >= Len(old) + 1 /\ n \in Nat
                BY <3>1, <3>2, <4>1
            <4> QED BY <4>1, <4>2, <4>3
        <3>4. SubSeq([i \in 1 .. n |-> i - 1], 1, m) = Prefix(m)
            <4>1. [i \in 1 .. n |-> i - 1] \in Seq(Nat) /\ m \in 1 .. n
                BY <2>3, <3>3
            <4> QED BY <4>1 DEF Prefix
        <3>5. Sent = [i \in 1 .. n |-> i - 1] /\ Len([i \in 1 .. n |-> i - 1]) = n
            BY <3>1 DEF Sent
        <3>6. m \in Len(delivered[stream]) + 1 .. Len(Sent)
              /\ delivered' = [delivered EXCEPT ![stream] = SubSeq(Sent, 1, m)]
            BY <2>3, <2>4, <3>3, <3>4, <3>5
        <3>7. Upload!Read(stream)
            BY <3>6 DEF Upload!Read, Sent
        <3> QED BY <2>2, <3>7 DEF Upload!Next
    <2> QED BY <2>5, <2>6
<1> QED BY <1>2

(* Any other step sends nothing and delivers nothing.                      *)
LEMMA UploadStep ==
    ASSUME Shape, Uploaded, Uploaded', [Next]_vars
    PROVE  Upload!Next \/ UNCHANGED <<Sent, delivered>>
PROOF
<1>1. CASE Push
    BY <1>1, PushWrites
<1>2. CASE ~Push
    <2>1. client'.sendSequence = client.sendSequence
        BY <1>2, SendsOnly
    <2>2. UNCHANGED Sent
        BY <2>1 DEF Sent
    <2>3. ASSUME NEW r, NEW answer, Serve(r, answer)
          PROVE  Upload!Next \/ UNCHANGED delivered
        <3>1. CASE HandleOpen(r, answer) \/ NotFound(r, answer) \/ HandlePush(r, answer)
                   \/ HandlePull(r, answer)
            BY <3>1 DEF HandleOpen, NotFound, HandlePush, HandlePull, server
        <3> QED BY <2>3, <3>1 DEF Serve, Handle
    <2>4. CASE \/ Open \/ OpenReturns \/ PushReturns \/ PullReturns \/ CallRejected \/ PullPending
               \/ Pull \/ CallFails \/ PullCut \/ Restart \/ UNCHANGED vars
               \/ \E c \in DOMAIN conns : QueueOutgoing(c)
        BY <2>2, <2>4 DEF Open, OpenReturns, PushReturns, PullReturns, CallRejected, PullPending, Pull,
                          CallFails, PullCut, PullTakes, Restart, QueueOutgoing, Returns, server, vars
    <2>5. ASSUME NEW h \in handlers, HandlerStep(h)
          PROVE  Upload!Next \/ UNCHANGED delivered
        <3>1. UNCHANGED client
            BY <2>5 DEF HandlerStep
        <3>2. CASE HandlerChecks(h)
            BY <3>2 DEF HandlerChecks
        <3>3. CASE HandlerInserts(h)
            BY <3>1, <3>3, InsertReads
        <3> QED BY <2>5, <3>2, <3>3 DEF HandlerStep
    <2> QED BY <1>2, <2>2, <2>3, <2>4, <2>5, ServeSplit DEF Next, ClientStep, ServerStep, Fault
<1> QED BY <1>1, <1>2

(* Whatever is lost, late or restarted, and however handlers overlap, what *)
(* a session's reorder buffer releases is a prefix of what the client      *)
(* pushed (session.go:149-169).                                            *)
THEOREM UploadsInOrder == Spec => UploadInOrder
PROOF
<1>1. Init => Upload!Init
    <2> SUFFICES ASSUME Init PROVE Upload!Init
        OBVIOUS
    <2>1. client.sendSequence = 0
        BY DEF Init
    <2> QED BY <2>1 DEF Init, Upload!Init
<1>2. Shape /\ Uploaded /\ Uploaded' /\ [Next]_vars
        => [Upload!Next]_<<[i \in 1 .. client.sendSequence |-> i - 1], delivered>>
    BY UploadStep DEF Sent
<1> QED BY <1>1, <1>2, ShapeInvariance, UploadedInvariance, PTL
        DEF Spec, UploadInOrder, Upload!Spec

-----------------------------------------------------------------------------
(* Agreement.  While the server has the client's session and has answered  *)
(* every handshake, a handshake in progress names that session; until it   *)
(* is served the keys agree, from then on they differ by the answer that   *)
(* is on its way.                                                          *)
Opening == call.at # "idle" /\ call.request.kind = "open"
Pushing == call.at # "idle" /\ call.request.kind = "push"

Named ==
    /\ Opening => Plaintext(call.request.wire).conn = client.conn
    /\ client.conn = NoConn => ~client.inGrace /\ acked = {}

Present ==
    restarts = 0 =>
        /\ client.conn # NoConn => client.conn \in DOMAIN conns
        /\ Opening /\ call.at = "answered" =>
              /\ call.response.conn \in DOMAIN conns
              /\ client.conn # NoConn =>
                    call.response.conn = client.conn /\ call.response.keyConfirmed

Agreed ==
    restarts = 0 /\ ~lostOpen =>
        /\ \A r \in stray : r.kind # "open"
        /\ client.conn # NoConn /\ ~Opening =>
              conns[client.conn].key = client.key /\ ~client.inGrace
        /\ Opening /\ call.at = "answered" =>
              conns[call.response.conn].key = call.request.wire.ephemeral
        /\ Pushing /\ call.at = "sent" =>
              DataFrameDecodes(client.key, client.conn, call.request.wire)

Agreement == Named /\ Present /\ Agreed

LEMMA AgreementInit == Init => Agreement
PROOF
<1> SUFFICES ASSUME Init PROVE Agreement
    OBVIOUS
<1>1. /\ client.conn = NoConn /\ ~client.inGrace /\ acked = {}
      /\ call.at = "idle" /\ stray = {}
    BY DEF Init, NoCall
<1> QED BY <1>1 DEF Agreement, Named, Present, Agreed, Opening, Pushing

LEMMA AgreementOpen == Shape /\ Agreement /\ Open => Agreement'
PROOF
<1> SUFFICES ASSUME Shape, Agreement, Open PROVE Agreement'
    OBVIOUS
<1>0. /\ call = NoCall /\ UNCHANGED <<stray, conns, restarts, lostOpen, acked>>
      /\ client' = IF client.conn = NoConn THEN client ELSE GraceStarted
    BY DEF Open, server
<1>1. PICK r : /\ r = [kind |-> "open", wire |-> EncodeHandshake(opens + 1, [conn |-> client.conn])]
               /\ Send(r)
    BY DEF Open
<1>2. /\ r.kind = "open" /\ Plaintext(r.wire).conn = client.conn
      /\ call'.at = "sent" /\ call'.request = r /\ call.at = "idle"
    BY <1>0, <1>1 DEF EncodeHandshake, Plaintext, Seal, Send, NoCall
<1>3. client'.conn = client.conn /\ (client.conn = NoConn => client' = client)
    BY <1>0 DEF GraceStarted, IsClient, Shape, ClientShape
<1> QED BY <1>0, <1>2, <1>3 DEF Agreement, Named, Present, Agreed, Opening, Pushing

LEMMA AgreementPush == Shape /\ Agreement /\ Push => Agreement'
PROOF
<1> SUFFICES ASSUME Shape, Agreement, Push PROVE Agreement'
    OBVIOUS
<1>0. /\ call = NoCall /\ client.conn # NoConn /\ client' = Counted(client)
      /\ UNCHANGED <<stray, conns, restarts, lostOpen, acked>>
    BY DEF Push, server
<1>1. PICK r : /\ r = [kind |-> "push", conn |-> client.conn,
                       wire |-> Encoded(client, client.conn, client.sendSequence)]
               /\ Send(r)
    BY DEF Push
<1>2. /\ r.kind = "push" /\ DataFrameDecodes(client.key, client.conn, r.wire)
      /\ call'.at = "sent" /\ call'.request = r /\ call.at = "idle"
    BY <1>0, <1>1 DEF Encoded, EncodeDataFrame, DataFrameDecodes, Opens, Seal, Send, NoCall
<1>3. client'.conn = client.conn /\ client'.key = client.key /\ client'.inGrace = client.inGrace
    BY <1>0 DEF Counted, IsClient, Shape, ClientShape
<1> QED BY <1>0, <1>2, <1>3 DEF Agreement, Named, Present, Agreed, Opening, Pushing

LEMMA AgreementPull == Agreement /\ Pull => Agreement'
PROOF
<1> SUFFICES ASSUME Agreement, Pull PROVE Agreement'
    OBVIOUS
<1>1. /\ call.at = "idle" /\ call'.request.kind = "pull"
      /\ UNCHANGED <<client, stray, conns, restarts, lostOpen, acked>>
    BY DEF Pull, Send, NoCall, server
<1> QED BY <1>1 DEF Agreement, Named, Present, Agreed, Opening, Pushing

(* The response of a handshake ends it: the client adopts the key that the *)
(* server has had since it answered.                                       *)
LEMMA AgreementOpenReturns == Shape /\ Agreement /\ OpenReturns => Agreement'
PROOF
<1> SUFFICES ASSUME Shape, Agreement, OpenReturns PROVE Agreement'
    OBVIOUS
<1>0. /\ call.at = "answered" /\ Opening /\ call' = NoCall /\ call'.at = "idle"
      /\ UNCHANGED <<stray, conns, restarts, lostOpen, acked>>
    BY DEF OpenReturns, Answered, Returns, server, NoCall, Opening
<1>a. call.response.conn \in 1 .. born /\ call.response.keyConfirmed \in BOOLEAN
    BY <1>0 DEF Shape, CallShape, Opening
<1>b. PICK key : key = call.request.wire.ephemeral
    OBVIOUS
<1>1. PICK conn \in 1 .. born, confirmed \in BOOLEAN :
          conn = call.response.conn /\ confirmed = call.response.keyConfirmed
    BY <1>a
<1>2. client' = [client EXCEPT
          !.conn = conn, !.key = key, !.sendCounter = 0,
          !.keyConfirmed = @ \/ confirmed, !.inGrace = @ /\ ~confirmed]
    BY <1>1, <1>b DEF OpenReturns
<1>3. /\ client'.conn = conn /\ client'.key = key
      /\ client'.inGrace = (client.inGrace /\ ~confirmed)
    BY <1>2 DEF IsClient, Shape, ClientShape
<1>4. conn # NoConn
    BY <1>1 DEF NoConn, Shape, OpensCounted, Outstanding
<1>5. Named'
    BY <1>0, <1>3, <1>4 DEF Named, Opening
<1>6. Present'
    BY <1>0, <1>1, <1>3 DEF Agreement, Present, Opening
<1>7. restarts = 0 => (client.conn # NoConn => conn = client.conn /\ confirmed)
    BY <1>0, <1>1 DEF Agreement, Present
<1>8. Agreed'
    BY <1>0, <1>1, <1>3, <1>7, <1>b DEF Agreement, Named, Agreed, Opening, Pushing
<1> QED BY <1>5, <1>6, <1>8 DEF Agreement

LEMMA AgreementPushReturns == Shape /\ Agreement /\ PushReturns => Agreement'
PROOF
<1> SUFFICES ASSUME Shape, Agreement, PushReturns PROVE Agreement'
    OBVIOUS
<1>0. /\ call.at = "answered" /\ Pushing /\ ~Opening /\ call' = NoCall /\ call'.at = "idle"
      /\ acked' = acked \cup {Plaintext(call.request.wire).payload}
      /\ client' = IF ShouldSendRedundant THEN [client EXCEPT !.redundantSent = @ + 1] ELSE client
      /\ UNCHANGED <<stray, conns, restarts, lostOpen>>
    BY DEF PushReturns, Answered, Returns, server, NoCall, Opening, Pushing
<1>1. client'.conn = client.conn /\ client'.key = client.key /\ client'.inGrace = client.inGrace
    <2>1. PICK n : client' = IF ShouldSendRedundant THEN [client EXCEPT !.redundantSent = n] ELSE client
        BY <1>0
    <2> QED BY <2>1 DEF IsClient, Shape, ClientShape
<1>2. client.conn # NoConn
    BY <1>0 DEF Shape, CallShape, Opening
<1> QED BY <1>0, <1>1, <1>2 DEF Agreement, Named, Present, Agreed, Opening, Pushing

(* A call that ends without effect; one that fails before it is served may *)
(* be served yet, which only matters of a handshake.                       *)
LEMMA AgreementCallEnds ==
    ASSUME Shape, Agreement, call.at # "idle", call' = NoCall, UNCHANGED <<conns, restarts, acked>>,
           client'.conn = client.conn, client'.key = client.key, client'.inGrace = client.inGrace,
           \A q \in stray' : q \in stray \/ q = call.request,
           lostOpen' = (lostOpen \/ Opening)
    PROVE  Agreement'
BY DEF Agreement, Named, Present, Agreed, Opening, Pushing, NoCall

LEMMA AgreementPullReturns == Shape /\ Agreement /\ (PullReturns \/ PullCut) => Agreement'
PROOF
<1> SUFFICES ASSUME Shape, Agreement, PullReturns \/ PullCut PROVE Agreement'
    OBVIOUS
<1>1. /\ call.at = "answered" /\ ~Opening /\ call' = NoCall
      /\ \E buffer : client' = [client EXCEPT !.buffer = buffer]
      /\ UNCHANGED <<stray, conns, restarts, lostOpen, acked>>
    BY DEF PullReturns, PullCut, PullAnswered, Answered, PullTakes, server, Opening
<1>2. client'.conn = client.conn /\ client'.key = client.key /\ client'.inGrace = client.inGrace
    BY <1>1 DEF IsClient, Shape, ClientShape
<1> QED BY <1>1, <1>2 DEF Agreement, Named, Present, Agreed, Opening, Pushing, NoCall

LEMMA AgreementCallFails == Shape /\ Agreement /\ (CallFails \/ CallRejected) => Agreement'
PROOF
<1> SUFFICES ASSUME Shape, Agreement, CallFails \/ CallRejected PROVE Agreement'
    OBVIOUS
<1>1. CASE CallFails
    <2>1. /\ call.at # "idle" /\ call' = NoCall
          /\ UNCHANGED <<client, conns, restarts, acked>>
          /\ \A q \in stray' : q \in stray \/ q = call.request
          /\ lostOpen' = (lostOpen \/ Opening)
        BY <1>1 DEF CallFails, server, Opening
    <2> QED BY <2>1, AgreementCallEnds
<1>2. CASE CallRejected
    <2>1. /\ call.at = "answered" /\ ~Opening /\ call' = NoCall
          /\ UNCHANGED <<client, stray, conns, restarts, lostOpen, acked>>
        BY <1>2 DEF CallRejected, Returns, server, Opening, Shape, CallShape
    <2> QED BY <2>1 DEF Agreement, Named, Present, Agreed, Opening, Pushing, NoCall
<1> QED BY <1>1, <1>2

LEMMA AgreementRestart == Shape /\ Agreement /\ Restart => Agreement'
PROOF
<1> SUFFICES ASSUME Shape, Agreement, Restart PROVE Agreement'
    OBVIOUS
<1>1. /\ restarts' # 0 /\ UNCHANGED <<client, acked>>
      /\ call' = call \/ call'.at = "idle"
    BY DEF Restart, NoCall, Shape, ServerShape
<1> QED BY <1>1 DEF Agreement, Named, Present, Agreed, Opening

LEMMA AgreementStutter ==
    Agreement /\ UNCHANGED <<client, call, stray, conns, restarts, lostOpen, acked>> => Agreement'
BY DEF Agreement, Named, Present, Agreed, Opening, Pushing

(* A handshake that is served gives the session it names the key that the  *)
(* client will adopt when the answer arrives.                              *)
LEMMA AgreementServeOpen ==
    ASSUME Shape, Agreement, NEW r, NEW answer, r.kind = "open", HandleOpen(r, answer),
           Serve(r, answer)
    PROVE  Agreement'
PROOF
<1>1. PICK id \in DOMAIN conns', known \in BOOLEAN :
          /\ known <=> Plaintext(r.wire).conn \in DOMAIN conns
          /\ id = IF known THEN Plaintext(r.wire).conn ELSE nextConnID
          /\ known <=> id \in DOMAIN conns
          /\ DOMAIN conns' = DOMAIN conns \cup {id}
          /\ \A c \in DOMAIN conns : c # id => conns'[c] = conns[c]
          /\ known => conns'[id] = Rekeyed(conns[id], r.wire.ephemeral)
          /\ ~known => conns'[id] = Rekeyed(NewSession(born + 1), r.wire.ephemeral)
          /\ Respond(answer, [status |-> "ok", conn |-> id, keyConfirmed |-> known])
          /\ UNCHANGED handlers
    BY OpenServed
<1>2. \/ answer = FALSE /\ r \in stray /\ call' = call
      \/ /\ answer = TRUE /\ call.at = "sent" /\ r = call.request
         /\ call' = [at |-> "answered", request |-> r,
                     response |-> [status |-> "ok", conn |-> id, keyConfirmed |-> known]]
    BY <1>1, ServedRequest DEF Serve
<1>3. UNCHANGED <<client, restarts, lostOpen, acked>> /\ stray' \subseteq stray
    BY DEF Serve
<1>4. conns'[id].key = r.wire.ephemeral
    <2>1. CASE known
        BY <1>1, <2>1, RekeyedFields DEF Shape, ServerShape
    <2>2. CASE ~known
        BY <1>1, <2>2, RekeyedFields, NewSessionShape
    <2> QED BY <2>1, <2>2
<1>6. CASE answer = FALSE
    BY <1>1, <1>2, <1>3, <1>6 DEF Agreement, Named, Present, Agreed, Opening, Pushing
<1>7. CASE answer = TRUE
    <2>1. /\ Opening /\ ~Pushing /\ call'.at = "answered" /\ call'.request = r
          /\ call'.response.conn = id /\ call'.response.keyConfirmed = known
          /\ Plaintext(r.wire).conn = client.conn
        BY <1>2, <1>7 DEF Opening, Pushing, Agreement, Named
    <2>2. Named'
        BY <1>3, <2>1 DEF Agreement, Named, Opening
    <2>3. Present'
        BY <1>1, <1>3, <2>1 DEF Agreement, Present, Opening
    <2>4. Agreed'
        BY <1>3, <1>4, <2>1 DEF Agreement, Agreed, Opening, Pushing
    <2> QED BY <2>2, <2>3, <2>4 DEF Agreement
<1> QED BY <1>2, <1>6, <1>7

LEMMA AgreementServePush ==
    ASSUME Shape, Agreement, NEW r, NEW answer, r.kind = "push", HandlePush(r, answer),
           Serve(r, answer)
    PROVE  Agreement'
PROOF
<1>1. /\ UNCHANGED <<client, conns, restarts, lostOpen, acked>> /\ stray' \subseteq stray
    BY DEF Serve, HandlePush
<1>2. \/ call' = call
      \/ /\ call.at = "sent" /\ r = call.request /\ call'.at # "sent" /\ call'.at # "idle"
         /\ call'.request = r
    <2>1. CASE Respond(answer, [status |-> "ok"])
        <3>1. PICK response : response = [status |-> "ok"]
            OBVIOUS
        <3>2. Respond(answer, response)
            BY <2>1, <3>1
        <3>3. \/ answer = FALSE /\ call' = call
              \/ /\ answer = TRUE /\ call.at = "sent" /\ r = call.request
                 /\ call' = [at |-> "answered", request |-> r, response |-> response]
            BY <3>2, ServedRequest DEF Serve
        <3> QED BY <3>3
    <2>2. CASE \/ answer = FALSE /\ call' = call
               \/ answer = TRUE /\ call.at = "sent" /\ r = call.request /\ call' = Reply(r)
        BY <2>2 DEF Reply
    <2> QED BY <2>1, <2>2, PushServed DEF Serve
<1> QED BY <1>1, <1>2 DEF Agreement, Named, Present, Agreed, Opening, Pushing

LEMMA AgreementServe ==
    ASSUME Shape, Agreement, NEW r, NEW answer, Serve(r, answer)
    PROVE  Agreement'
PROOF
<1>1. CASE r.kind = "open" /\ HandleOpen(r, answer)
    BY <1>1, AgreementServeOpen
<1>2. CASE r.kind = "push" /\ r.conn \in DOMAIN conns /\ HandlePush(r, answer)
    BY <1>2, AgreementServePush
<1>3. CASE \/ r.kind # "open" /\ r.conn \notin DOMAIN conns /\ NotFound(r, answer)
           \/ r.kind = "pull" /\ HandlePull(r, answer)
    <2>1. PICK response : Respond(answer, response)
        BY <1>3 DEF NotFound, HandlePull
    <2>2. /\ UNCHANGED <<client, conns, restarts, lostOpen, acked>> /\ stray' \subseteq stray
        BY <1>3 DEF Serve, NotFound, HandlePull, server
    <2>3. \/ call' = call
          \/ /\ call.at = "sent" /\ r = call.request /\ call'.at = "answered"
             /\ call'.request = r
        <3>1. \/ answer = FALSE /\ call' = call
              \/ /\ answer = TRUE /\ call.at = "sent" /\ r = call.request
                 /\ call' = [at |-> "answered", request |-> r, response |-> response]
            BY <2>1, ServedRequest DEF Serve
        <3> QED BY <3>1
    <2>4. CASE call' = call
        BY <2>2, <2>4 DEF Agreement, Named, Present, Agreed, Opening, Pushing
    <2>5. CASE /\ call.at = "sent" /\ r = call.request /\ call'.at = "answered"
               /\ call'.request = r
        <3>1. r.conn = client.conn /\ client.conn # NoConn /\ ~Opening
            BY <1>3, <2>5 DEF Shape, CallShape, Opening
        <3>2. restarts = 0 => r.kind # "push"
            BY <1>3, <3>1 DEF Agreement, Present
        <3> QED BY <2>2, <2>5, <3>1, <3>2
                DEF Agreement, Named, Present, Agreed, Opening, Pushing
    <2> QED BY <2>3, <2>4, <2>5
<1> QED BY <1>1, <1>2, <1>3 DEF Serve, Handle

LEMMA AgreementQueue ==
    ASSUME Shape, Agreement, NEW c \in DOMAIN conns, QueueOutgoing(c)
    PROVE  Agreement'
PROOF
<1>1. /\ UNCHANGED <<client, call, stray, restarts, lostOpen, acked>>
      /\ conns' = [conns EXCEPT ![c] = Counted(@)]
    BY DEF QueueOutgoing
<1>2. ASSUME NEW d \in DOMAIN conns
      PROVE  conns'[d].key = conns[d].key
    BY <1>1, CountedFields DEF Shape, ServerShape
<1> QED BY <1>1, <1>2 DEF Agreement, Named, Present, Agreed, Opening, Pushing

LEMMA AgreementHandler ==
    ASSUME Shape, Agreement, NEW h, HandlerStep(h)
    PROVE  Agreement'
PROOF
<1>1. /\ UNCHANGED <<client, stray, restarts, lostOpen, acked>> /\ DOMAIN conns' = DOMAIN conns
      /\ \A c \in DOMAIN conns : conns'[c].key = conns[c].key
      /\ \/ call' = call
         \/ call.at = "handled" /\ call.request = h.request /\ call' = Answer(h.request)
    BY HandlerServed
<1>2. \/ call' = call
      \/ call.at = "handled" /\ call'.at = "answered" /\ call'.request = call.request
    BY <1>1 DEF Answer
<1>3. call.at = "handled" => call.request.kind = "push"
    BY DEF Shape, CallShape
<1> QED BY <1>1, <1>2, <1>3 DEF Agreement, Named, Present, Agreed, Opening, Pushing

LEMMA AgreementNext == Shape /\ Agreement /\ [Next]_vars => Agreement'
PROOF
<1> SUFFICES ASSUME Shape, Agreement, [Next]_vars PROVE Agreement'
    OBVIOUS
<1>1. CASE ServeCall
    BY <1>1, ServeSplit, AgreementServe
<1>2. ASSUME NEW r \in stray, ServeStray(r) PROVE Agreement'
    BY <1>2, ServeSplit, AgreementServe
<1>3. ASSUME NEW c \in DOMAIN conns, QueueOutgoing(c) PROVE Agreement'
    BY <1>3, AgreementQueue
<1>4. CASE PullPending
    BY <1>4, AgreementStutter DEF PullPending, server
<1>5. CASE UNCHANGED vars
    BY <1>5, AgreementStutter DEF vars, server
<1>6. ASSUME NEW h \in handlers, HandlerStep(h) PROVE Agreement'
    BY <1>6, AgreementHandler
<1> QED
    BY <1>1, <1>2, <1>3, <1>4, <1>5, <1>6, AgreementOpen, AgreementPush, AgreementPull,
       AgreementOpenReturns, AgreementPushReturns, AgreementPullReturns, AgreementCallFails,
       AgreementRestart
    DEF Next, ClientStep, ServerStep, Fault

LEMMA AgreementInvariance == Spec => []Agreement
PROOF BY ShapeInvariance, AgreementInit, AgreementNext, PTL DEF Spec

(* While the server has the client's session and no handshake is open or   *)
(* failed, both hold the same key (server.go:152-178, client.go:62,        *)
(* :105-112).                                                              *)
THEOREM KeysAlwaysAgree == Spec => []KeysAgree
PROOF
<1>1. Shape /\ Agreement => KeysAgree
    BY DEF Agreement, Agreed, KeysAgree, InStep, Opening, Shape, CallShape
<1> QED BY <1>1, ShapeInvariance, AgreementInvariance, PTL

-----------------------------------------------------------------------------
(* The counters.  A frame that is late has a lower one than the push in    *)
(* progress, or an old key, and the push in progress the last that was     *)
(* given.                                                                  *)
Newest == IF Pushing THEN client.sendCounter - 1 ELSE client.sendCounter

Older(r) ==
    /\ r.wire.sealed.key \in Nat /\ r.wire.sealed.key <= client.key
    /\ r.wire.sealed.key = client.key => r.wire.counter < Newest

Framed ==
    /\ Opening => call.request.wire.ephemeral > client.key
    /\ Pushing => /\ call.request.wire.sealed.key = client.key
                  /\ call.request.wire.counter = client.sendCounter - 1
    /\ \A r \in stray : r.kind = "push" => Older(r)
    /\ \A h \in handlers :
          Older(h.request) \/ (Pushing /\ call.at # "sent" /\ h.request = call.request)

(* The window of the client's session has marked nothing that the push in  *)
(* progress could be taken for, as long as no handler has crossed a        *)
(* reconnect.                                                              *)
Unchecked ==
    \/ Pushing /\ call.at = "sent"
    \/ call.at = "handled" /\ [request |-> call.request, at |-> "decoded"] \in handlers

FirstFresh == IF Unchecked THEN client.sendCounter - 1 ELSE client.sendCounter

Behind ==
    restarts = 0 /\ ~lostOpen /\ ~crossed =>
        /\ Opening /\ call.at = "answered" => ~conns[call.response.conn].window.initiated
        /\ client.conn # NoConn /\ ~Opening =>
              (conns[client.conn].window.initiated =>
                   conns[client.conn].window.highest < FirstFresh)

(* The session's buffer was given then what was acknowledged, and the push *)
(* that is about to be.                                                    *)
Taken ==
    restarts = 0 /\ ~lostOpen /\ ~crossed /\ client.conn # NoConn =>
        /\ acked \subseteq Given(conns[client.conn].buffer)
        /\ Pushing /\ call.at = "answered" =>
              Plaintext(call.request.wire).payload \in Given(conns[client.conn].buffer)

Passed == Framed /\ Behind /\ Taken

LEMMA PassedInit == Init => Passed
PROOF
<1> SUFFICES ASSUME Init PROVE Passed
    OBVIOUS
<1>1. client.conn = NoConn /\ call.at = "idle" /\ stray = {} /\ handlers = {}
    BY DEF Init, NoCall
<1> QED BY <1>1 DEF Passed, Framed, Behind, Taken, Opening, Pushing

(* Steps that leave the client's key and counter as they are.              *)
LEMMA FramedKeeps ==
    ASSUME Shape, Framed,
           client'.key = client.key, client'.sendCounter = client.sendCounter,
           \/ call' = call
           \/ call'.at = "idle"
           \/ call.at = "sent" /\ call'.at \in {"handled", "answered"} /\ call'.request = call.request
           \/ call.at = "handled" /\ call'.at = "answered" /\ call'.request = call.request,
           \A q \in stray' : q \in stray \/ (call.at # "idle" /\ q = call.request /\ call'.at = "idle"),
           \A h \in handlers' :
              \/ \E g \in handlers : g.request = h.request
              \/ h.request \in stray /\ h.request.kind = "push"
              \/ Pushing /\ h.request = call.request /\ call'.at # "sent"
    PROVE  Framed'
PROOF
<1>1. client.key \in Nat /\ client.sendCounter \in Nat
    BY DEF Shape, ClientShape, OpensCounted, Outstanding
<1>2. \/ Opening' = Opening /\ Pushing' = Pushing /\ call'.request = call.request
      \/ call'.at = "idle" /\ ~Opening' /\ ~Pushing'
    BY DEF Opening, Pushing
<1>3. Newest' >= Newest /\ Newest \in Int /\ Newest' \in Int
    BY <1>1, <1>2 DEF Newest
<1>4. ASSUME NEW q, Older(q), Requested(q), q.kind = "push" PROVE Older(q)'
    BY <1>1, <1>3, <1>4 DEF Older, Requested
<1>5. ASSUME NEW q, Pushing, call'.at = "idle", q = call.request PROVE Older(q)'
    BY <1>1, <1>2, <1>5 DEF Framed, Older, Newest, Pushing
<1>6. ASSUME NEW q \in stray', q.kind = "push" PROVE Older(q)'
    <2>1. CASE q \in stray
        BY <1>4, <1>6, <2>1 DEF Framed, Shape, InFlight
    <2>2. CASE call.at # "idle" /\ q = call.request /\ call'.at = "idle"
        BY <1>5, <1>6, <2>2 DEF Pushing
    <2> QED BY <2>1, <2>2
<1>7. ASSUME NEW h \in handlers'
      PROVE  Older(h.request)' \/ (Pushing' /\ call'.at # "sent" /\ h.request = call'.request)
    <2>1. CASE \E g \in handlers : g.request = h.request
        <3>1. PICK g \in handlers : g.request = h.request
            BY <2>1
        <3>2. Requested(g.request) /\ g.request.kind = "push"
            BY DEF Shape, HandlersShape
        <3>3. CASE Older(g.request)
            BY <1>4, <3>1, <3>2, <3>3
        <3>4. CASE Pushing /\ call.at # "sent" /\ g.request = call.request
            BY <1>2, <1>5, <3>1, <3>4
        <3> QED BY <3>3, <3>4 DEF Framed
    <2>2. CASE h.request \in stray /\ h.request.kind = "push"
        BY <1>4, <2>2 DEF Framed, Shape, InFlight
    <2>3. CASE Pushing /\ h.request = call.request /\ call'.at # "sent"
        BY <1>2, <1>5, <2>3
    <2> QED BY <1>7, <2>1, <2>2, <2>3
<1>8. Opening' => call'.request.wire.ephemeral > client'.key
    BY <1>2 DEF Framed
<1>9. Pushing' => /\ call'.request.wire.sealed.key = client'.key
                  /\ call'.request.wire.counter = client'.sendCounter - 1
    BY <1>2 DEF Framed
<1> QED BY <1>6, <1>7, <1>8, <1>9 DEF Framed

(* Steps that change no window and no buffer.                              *)
LEMMA PassedKeeps ==
    ASSUME Shape, Agreement, Passed, Framed',
           client'.conn = client.conn, client'.sendCounter = client.sendCounter,
           UNCHANGED acked,
           restarts' = 0 =>
              /\ restarts = 0 /\ DOMAIN conns \subseteq DOMAIN conns'
              /\ \A c \in DOMAIN conns :
                    conns'[c].window = conns[c].window /\ conns'[c].buffer = conns[c].buffer,
           lostOpen => lostOpen', crossed => crossed',
           \/ call' = call
           \/ call'.at = "idle" /\ (Opening => lostOpen')
           \/ /\ call.at \in {"sent", "handled"} /\ call'.at \in {"handled", "answered"}
              /\ call'.request = call.request /\ ~Opening
              /\ Pushing /\ call'.at = "answered" => restarts # 0 \/ lostOpen \/ crossed,
           Unchecked' => Unchecked
    PROVE  Passed'
PROOF
<1>1. /\ client.sendCounter \in Nat
      /\ FirstFresh \in Int /\ FirstFresh' \in Int /\ FirstFresh <= FirstFresh'
    BY DEF Shape, ClientShape, FirstFresh
<1>2. \/ call' = call /\ Opening' = Opening /\ Pushing' = Pushing
      \/ call'.at = "idle" /\ ~Opening' /\ ~Pushing' /\ (Opening => lostOpen')
      \/ /\ ~Opening /\ ~Opening' /\ Pushing' = Pushing
         /\ Pushing /\ call'.at = "answered" => restarts # 0 \/ lostOpen \/ crossed
    BY DEF Opening, Pushing
<1>3. ASSUME restarts' = 0, ~lostOpen', ~crossed'
      PROVE  restarts = 0 /\ ~lostOpen /\ ~crossed
    BY <1>3
<1>4. Behind'
    <2> SUFFICES ASSUME restarts' = 0, ~lostOpen', ~crossed'
                 PROVE  /\ Opening' /\ call'.at = "answered" =>
                              ~conns'[call'.response.conn].window.initiated
                        /\ client'.conn # NoConn /\ ~Opening' =>
                              (conns'[client'.conn].window.initiated =>
                                   conns'[client'.conn].window.highest < FirstFresh')
        BY DEF Behind
    <2>1. ASSUME Opening', call'.at = "answered"
          PROVE  ~conns'[call'.response.conn].window.initiated
        <3>1. call' = call /\ Opening
            BY <1>2, <2>1
        <3>2. call.response.conn \in DOMAIN conns
            BY <1>3, <2>1, <3>1 DEF Agreement, Present
        <3> QED BY <1>3, <2>1, <3>1, <3>2 DEF Passed, Behind
    <2>2. ASSUME client'.conn # NoConn, ~Opening', conns'[client'.conn].window.initiated
          PROVE  conns'[client'.conn].window.highest < FirstFresh'
        <3>1. client.conn \in DOMAIN conns /\ ~Opening
            BY <1>2, <1>3, <2>2 DEF Agreement, Present
        <3>2. conns[client.conn].window \in Windows
            BY <3>1 DEF Shape, ServerShape
        <3>3. conns[client.conn].window.highest \in Nat
            BY <3>2 DEF Windows
        <3>4. conns[client.conn].window.highest < FirstFresh
            BY <1>3, <2>2, <3>1 DEF Passed, Behind
        <3>5. conns'[client'.conn].window = conns[client.conn].window
            BY <3>1
        <3> QED BY <1>1, <3>3, <3>4, <3>5
    <2> QED BY <2>1, <2>2
<1>5. Taken'
    <2> SUFFICES ASSUME restarts' = 0, ~lostOpen', ~crossed', client'.conn # NoConn
                 PROVE  /\ acked' \subseteq Given(conns'[client'.conn].buffer)
                        /\ Pushing' /\ call'.at = "answered" =>
                              Plaintext(call'.request.wire).payload
                                  \in Given(conns'[client'.conn].buffer)
        BY DEF Taken
    <2>1. client.conn \in DOMAIN conns
        BY <1>3 DEF Agreement, Present
    <2>2. conns'[client'.conn].buffer = conns[client.conn].buffer
        BY <2>1
    <2>3. Pushing' /\ call'.at = "answered" => call' = call /\ Pushing
        BY <1>2, <1>3
    <2> QED BY <1>3, <2>2, <2>3 DEF Passed, Taken
<1> QED BY <1>4, <1>5 DEF Passed

(* The client's own steps.                                                 *)
LEMMA PassedOpen == Shape /\ Agreement /\ Passed /\ Open => Passed'
PROOF
<1> SUFFICES ASSUME Shape, Agreement, Passed, Open PROVE Passed'
    OBVIOUS
<1>1. /\ call = NoCall /\ UNCHANGED <<stray, handlers, conns, restarts, lostOpen, crossed, acked>>
      /\ client' = IF client.conn = NoConn THEN client ELSE GraceStarted
    BY DEF Open, server
<1>2. PICK r : /\ r = [kind |-> "open", wire |-> EncodeHandshake(opens + 1, [conn |-> client.conn])]
               /\ Send(r)
    BY DEF Open
<1>3. /\ r.kind = "open" /\ r.wire.ephemeral = opens + 1
      /\ call'.at = "sent" /\ call'.request = r /\ call.at = "idle"
    BY <1>1, <1>2 DEF EncodeHandshake, Send, NoCall
<1>4. /\ client'.conn = client.conn /\ client'.key = client.key
      /\ client'.sendCounter = client.sendCounter
    BY <1>1 DEF GraceStarted, IsClient, Shape, ClientShape
<1>5. client.key \in Nat /\ client.key <= opens /\ opens \in Nat
    BY DEF Shape, ClientShape, OpensCounted, Outstanding
<1>6. ~Pushing /\ ~Pushing' /\ Opening'
    BY <1>3 DEF Pushing, Opening
<1>7. Framed'
    BY <1>1, <1>3, <1>4, <1>5, <1>6 DEF Passed, Framed, Older, Newest
<1>8. Behind' /\ Taken'
    BY <1>1, <1>3, <1>4, <1>6 DEF Passed, Behind, Taken
<1> QED BY <1>7, <1>8 DEF Passed

LEMMA PassedPush == Shape /\ Agreement /\ Passed /\ Push => Passed'
PROOF
<1> SUFFICES ASSUME Shape, Agreement, Passed, Push PROVE Passed'
    OBVIOUS
<1>1. /\ call = NoCall /\ client.conn # NoConn /\ client' = Counted(client)
      /\ UNCHANGED <<stray, handlers, conns, restarts, lostOpen, crossed, acked>>
    BY DEF Push, server
<1>2. PICK r : /\ r = [kind |-> "push", conn |-> client.conn,
                       wire |-> Encoded(client, client.conn, client.sendSequence)]
               /\ Send(r)
    BY DEF Push
<1>3. /\ r.kind = "push" /\ r.wire.sealed.key = client.key /\ r.wire.counter = client.sendCounter
      /\ call'.at = "sent" /\ call'.request = r /\ call.at = "idle"
    BY <1>1, <1>2 DEF Encoded, EncodeDataFrame, Seal, Send, NoCall
<1>4. /\ client'.conn = client.conn /\ client'.key = client.key
      /\ client'.sendCounter = client.sendCounter + 1 /\ client.sendCounter \in Nat
    BY <1>1 DEF Counted, IsClient, Shape, ClientShape
<1>5. ~Pushing /\ Pushing' /\ ~Opening /\ ~Opening' /\ ~Unchecked /\ Unchecked'
    BY <1>3 DEF Pushing, Opening, Unchecked
<1>6. Newest' = Newest /\ FirstFresh' = FirstFresh
    BY <1>4, <1>5 DEF Newest, FirstFresh
<1>7. Framed'
    <2>1. \A q : Older(q)' <=> Older(q)
        BY <1>4, <1>6 DEF Older
    <2> QED BY <1>1, <1>3, <1>4, <1>5, <2>1 DEF Passed, Framed
<1>8. Behind'
    BY <1>1, <1>4, <1>5, <1>6 DEF Passed, Behind
<1>9. Taken'
    BY <1>1, <1>3, <1>4 DEF Passed, Taken
<1> QED BY <1>7, <1>8, <1>9 DEF Passed

LEMMA PassedPull == Shape /\ Agreement /\ Passed /\ Pull => Passed'
PROOF
<1> SUFFICES ASSUME Shape, Agreement, Passed, Pull PROVE Passed'
    OBVIOUS
<1>1. /\ call.at = "idle" /\ call'.at = "sent" /\ call'.request.kind = "pull"
      /\ UNCHANGED <<client, stray, handlers, conns, restarts, lostOpen, crossed, acked>>
    BY DEF Pull, Send, NoCall, server
<1>2. ~Pushing /\ ~Pushing' /\ ~Opening /\ ~Opening' /\ ~Unchecked /\ ~Unchecked'
    BY <1>1 DEF Pushing, Opening, Unchecked
<1>3. \A q : Older(q)' <=> Older(q)
    BY <1>1, <1>2 DEF Older, Newest
<1>4. Framed'
    BY <1>1, <1>2, <1>3 DEF Passed, Framed
<1>5. Behind'
    BY <1>1, <1>2 DEF Passed, Behind, FirstFresh
<1>6. Taken'
    BY <1>1, <1>2 DEF Passed, Taken
<1> QED BY <1>4, <1>5, <1>6 DEF Passed

(* A new key: whatever is late was sealed with an older one, and the       *)
(* window that the handshake reset has marked nothing yet.                 *)
LEMMA PassedOpenReturns == Shape /\ Agreement /\ Passed /\ OpenReturns => Passed'
PROOF
<1> SUFFICES ASSUME Shape, Agreement, Passed, OpenReturns PROVE Passed'
    OBVIOUS
<1>1. /\ call.at = "answered" /\ Opening /\ ~Pushing /\ call'.at = "idle"
      /\ UNCHANGED <<stray, handlers, conns, restarts, lostOpen, crossed, acked>>
    BY DEF OpenReturns, Answered, Returns, server, NoCall, Opening, Pushing
<1>2. PICK conn, key, confirmed :
          conn = call.response.conn /\ key = call.request.wire.ephemeral
          /\ confirmed = call.response.keyConfirmed
    OBVIOUS
<1>3. client' = [client EXCEPT
          !.conn = conn, !.key = key, !.sendCounter = 0,
          !.keyConfirmed = @ \/ confirmed, !.inGrace = @ /\ ~confirmed]
    BY <1>2 DEF OpenReturns
<1>4. client'.conn = conn /\ client'.key = key /\ client'.sendCounter = 0
    BY <1>3 DEF IsClient, Shape, ClientShape
<1>5. key > client.key /\ client.key \in Nat /\ key \in Nat
    <2>1. Requested(call.request) /\ opens \in Nat /\ client.key \in 0 .. opens
        BY <1>1 DEF Shape, InFlight, ClientShape, OpensCounted, Outstanding
    <2>2. key \in 1 .. opens
        BY <1>1, <1>2, <2>1 DEF Requested, Opening
    <2> QED BY <1>1, <1>2, <2>1, <2>2 DEF Passed, Framed
<1>6. ~Opening' /\ ~Pushing'
    BY <1>1 DEF Opening, Pushing
<1>7. ASSUME NEW q, Older(q) PROVE Older(q)'
    BY <1>4, <1>5, <1>7 DEF Older
<1>8. Framed'
    BY <1>1, <1>6, <1>7 DEF Passed, Framed
<1>9. Behind'
    BY <1>1, <1>2, <1>4 DEF Passed, Behind
<1>10. Taken'
    <2>1. restarts = 0 /\ client.conn # NoConn => conn = client.conn
        BY <1>1, <1>2 DEF Agreement, Present
    <2>2. client.conn = NoConn => acked = {}
        BY DEF Agreement, Named
    <2> QED BY <1>1, <1>4, <1>6, <2>1, <2>2 DEF Passed, Taken
<1> QED BY <1>8, <1>9, <1>10 DEF Passed

LEMMA PassedPushReturns == Shape /\ Agreement /\ Passed /\ PushReturns => Passed'
PROOF
<1> SUFFICES ASSUME Shape, Agreement, Passed, PushReturns PROVE Passed'
    OBVIOUS
<1>1. /\ call.at = "answered" /\ Pushing /\ ~Opening /\ call'.at = "idle"
      /\ acked' = acked \cup {Plaintext(call.request.wire).payload}
      /\ client' = IF ShouldSendRedundant THEN [client EXCEPT !.redundantSent = @ + 1] ELSE client
      /\ UNCHANGED <<stray, handlers, conns, restarts, lostOpen, crossed>>
    BY DEF PushReturns, Answered, Returns, server, NoCall, Opening, Pushing
<1>2. /\ client'.conn = client.conn /\ client'.key = client.key
      /\ client'.sendCounter = client.sendCounter /\ client.sendCounter \in Nat
    <2>1. PICK n : client' = IF ShouldSendRedundant THEN [client EXCEPT !.redundantSent = n] ELSE client
        BY <1>1
    <2> QED BY <2>1 DEF IsClient, Shape, ClientShape
<1>3. ~Pushing' /\ ~Opening' /\ ~Unchecked /\ ~Unchecked'
    BY <1>1 DEF Pushing, Opening, Unchecked
<1>4. Framed'
    BY <1>1, <1>2, FramedKeeps DEF Passed
<1>5. Behind'
    BY <1>1, <1>2, <1>3 DEF Passed, Behind, FirstFresh
<1>6. Taken'
    BY <1>1, <1>2, <1>3 DEF Passed, Taken
<1> QED BY <1>4, <1>5, <1>6 DEF Passed

LEMMA PassedPullReturns == Shape /\ Agreement /\ Passed /\ (PullReturns \/ PullCut) => Passed'
PROOF
<1> SUFFICES ASSUME Shape, Agreement, Passed, PullReturns \/ PullCut PROVE Passed'
    OBVIOUS
<1>1. /\ call.at = "answered" /\ ~Opening /\ call'.at = "idle"
      /\ \E buffer : client' = [client EXCEPT !.buffer = buffer]
      /\ UNCHANGED <<stray, handlers, conns, restarts, lostOpen, crossed, acked>>
    BY DEF PullReturns, PullCut, PullAnswered, Answered, PullTakes, server, Opening, NoCall
<1>2. /\ client'.conn = client.conn /\ client'.key = client.key
      /\ client'.sendCounter = client.sendCounter
    BY <1>1 DEF IsClient, Shape, ClientShape
<1>3. Framed'
    BY <1>1, <1>2, FramedKeeps DEF Passed
<1>4. ~Unchecked'
    BY <1>1 DEF Unchecked, Pushing
<1> QED BY <1>1, <1>2, <1>3, <1>4, PassedKeeps

LEMMA PassedCallFails == Shape /\ Agreement /\ Passed /\ (CallFails \/ CallRejected) => Passed'
PROOF
<1> SUFFICES ASSUME Shape, Agreement, Passed, CallFails \/ CallRejected PROVE Passed'
    OBVIOUS
<1>1. /\ call.at # "idle" /\ call'.at = "idle"
      /\ UNCHANGED <<client, handlers, conns, restarts, crossed, acked>>
      /\ \A q \in stray' : q \in stray \/ q = call.request
      /\ lostOpen => lostOpen'
      /\ Opening => lostOpen'
    <2>1. CASE CallFails
        BY <2>1 DEF CallFails, server, Opening, NoCall
    <2>2. CASE CallRejected
        <3>1. call.at = "answered" /\ call' = NoCall /\ call.response.status = "notFound"
              /\ UNCHANGED <<client, stray, handlers, conns, restarts, lostOpen, crossed, acked>>
            BY <2>2 DEF CallRejected, Returns, server
        <3>2. ~Opening
            BY <3>1 DEF Opening, Shape, CallShape
        <3> QED BY <3>1, <3>2 DEF NoCall
    <2> QED BY <2>1, <2>2
<1>2. Framed'
    BY <1>1, FramedKeeps DEF Passed
<1>3. ~Unchecked'
    BY <1>1 DEF Unchecked, Pushing
<1> QED BY <1>1, <1>2, <1>3, PassedKeeps

LEMMA PassedRestart == Shape /\ Agreement /\ Passed /\ Restart => Passed'
PROOF
<1> SUFFICES ASSUME Shape, Agreement, Passed, Restart PROVE Passed'
    OBVIOUS
<1>1. /\ restarts' # 0 /\ UNCHANGED <<client, stray, lostOpen, crossed, acked>> /\ handlers' = {}
      /\ call' = call \/ call'.at = "idle"
    <2>1. restarts \in Nat /\ restarts' = restarts + 1
        BY DEF Restart, Shape, ServerShape
    <2>2. call' = IF call.at = "handled" THEN NoCall ELSE call
        BY DEF Restart
    <2> QED BY <2>1, <2>2 DEF Restart, NoCall
<1>2. ~(Opening /\ call.at = "handled")
    BY DEF Shape, CallShape, Opening
<1>3. Framed'
    BY <1>1, FramedKeeps DEF Passed
<1>4. Behind' /\ Taken'
    BY <1>1 DEF Behind, Taken
<1> QED BY <1>3, <1>4 DEF Passed

(* A handshake gives the session a new window and a key that no late frame *)
(* has; what the session's buffer was given it keeps.                      *)
LEMMA PassedServeOpen ==
    ASSUME Shape, Agreement, Passed, NEW r, NEW answer, r.kind = "open", HandleOpen(r, answer),
           Serve(r, answer)
    PROVE  Passed'
PROOF
<1>1. PICK id \in DOMAIN conns', known \in BOOLEAN :
          /\ known <=> Plaintext(r.wire).conn \in DOMAIN conns
          /\ id = IF known THEN Plaintext(r.wire).conn ELSE nextConnID
          /\ known <=> id \in DOMAIN conns
          /\ DOMAIN conns' = DOMAIN conns \cup {id}
          /\ \A c \in DOMAIN conns : c # id => conns'[c] = conns[c]
          /\ known => conns'[id] = Rekeyed(conns[id], r.wire.ephemeral)
          /\ ~known => conns'[id] = Rekeyed(NewSession(born + 1), r.wire.ephemeral)
          /\ Respond(answer, [status |-> "ok", conn |-> id, keyConfirmed |-> known])
          /\ UNCHANGED <<handlers, crossed>>
    BY OpenServed
<1>2. \/ answer = FALSE /\ r \in stray /\ call' = call
      \/ /\ answer = TRUE /\ call.at = "sent" /\ r = call.request
         /\ call' = [at |-> "answered", request |-> r,
                     response |-> [status |-> "ok", conn |-> id, keyConfirmed |-> known]]
    BY <1>1, ServedRequest DEF Serve
<1>3. UNCHANGED <<client, restarts, lostOpen, acked>> /\ stray' \subseteq stray
    BY DEF Serve
<1>4. Framed'
    <2>1. \/ call' = call
          \/ call.at = "sent" /\ call'.at = "answered" /\ call'.request = call.request
        BY <1>2
    <2> QED BY <1>1, <1>3, <2>1, FramedKeeps DEF Passed
<1>5. CASE answer = FALSE
    <2>1. restarts = 0 => lostOpen
        BY <1>2, <1>5 DEF Agreement, Agreed
    <2> QED BY <1>3, <1>4, <2>1 DEF Passed, Behind, Taken
<1>6. CASE answer = TRUE
    <2>1. /\ Opening /\ Opening' /\ ~Pushing' /\ call'.response.conn = id
          /\ Plaintext(r.wire).conn = client.conn
        BY <1>2, <1>6 DEF Opening, Pushing, Agreement, Named
    <2>2. ~conns'[id].window.initiated
        <3>1. CASE known
            BY <1>1, <3>1, RekeyedFields, ResetWindows DEF Shape, ServerShape
        <3>2. CASE ~known
            BY <1>1, <3>2, RekeyedFields, ResetWindows, NewWindow, NewSessionShape
        <3> QED BY <3>1, <3>2
    <2>3. Behind'
        BY <1>3, <2>1, <2>2 DEF Behind
    <2>4. Taken'
        <3>1. ASSUME restarts = 0, client.conn # NoConn
              PROVE  conns'[client.conn].buffer = conns[client.conn].buffer
            <4>1. client.conn \in DOMAIN conns /\ known /\ id = client.conn
                BY <1>1, <2>1, <3>1 DEF Agreement, Present
            <4> QED BY <1>1, <4>1, RekeyedFields DEF Shape, ServerShape
        <3> QED BY <1>1, <1>3, <2>1, <3>1 DEF Passed, Taken
    <2> QED BY <1>4, <2>3, <2>4 DEF Passed
<1> QED BY <1>2, <1>5, <1>6

(* A push in progress decodes where the keys agree; a late one is not the  *)
(* one in progress.                                                        *)
LEMMA PassedServePush ==
    ASSUME Shape, Agreement, Passed, NEW r, NEW answer, r.kind = "push", HandlePush(r, answer),
           Serve(r, answer)
    PROVE  Passed'
PROOF
<1>1. /\ UNCHANGED <<client, conns, restarts, lostOpen, crossed, acked>> /\ stray' \subseteq stray
    BY DEF Serve, HandlePush
<1>2. \/ answer = TRUE /\ call.at = "sent" /\ r = call.request /\ UNCHANGED stray
      \/ answer = FALSE /\ r \in stray /\ stray' = stray \ {r}
    BY DEF Serve
<1>3. CASE answer = FALSE
    <2>1. r \in stray /\ call' = call /\ handlers' \subseteq handlers \cup {[request |-> r, at |-> "decoded"]}
        BY <1>2, <1>3 DEF HandlePush, Respond
    <2>2. Framed'
        BY <1>1, <2>1, FramedKeeps DEF Passed
    <2>3. ~(Pushing /\ r = call.request)
        BY <2>1 DEF Passed, Framed, Older, Newest, Shape, ClientShape
    <2>4. Unchecked' => Unchecked
        <3>1. call.at = "handled" => Pushing
            BY DEF Shape, CallShape, Pushing
        <3>2. Pushing' = Pushing
            BY <2>1 DEF Pushing
        <3>3. [request |-> call.request, at |-> "decoded"] \in handlers' =>
                  [request |-> call.request, at |-> "decoded"] \in handlers \/ r = call.request
            BY <2>1
        <3> QED BY <2>1, <2>3, <3>1, <3>2, <3>3 DEF Unchecked
    <2> QED BY <1>1, <2>1, <2>2, <2>4, PassedKeeps
<1>4. CASE answer = TRUE
    <2>1. Pushing /\ ~Opening /\ Unchecked /\ call.at = "sent" /\ r = call.request
        BY <1>2, <1>4 DEF Pushing, Opening, Unchecked
    <2>2. /\ call'.at \in {"handled", "answered"} /\ call'.request = call.request
          /\ handlers' \subseteq handlers \cup {[request |-> r, at |-> "decoded"]}
          /\ call'.at = "answered" => ~DataFrameDecodes(conns[r.conn].key, r.conn, r.wire)
        BY <1>4, <2>1 DEF HandlePush, Respond
    <2>3. call'.at = "answered" => restarts # 0 \/ lostOpen
        <3>1. r.conn = client.conn /\ client.conn # NoConn
            BY <2>1 DEF Shape, CallShape
        <3> QED BY <2>1, <2>2, <3>1 DEF Agreement, Agreed
    <2>4. Framed'
        BY <1>1, <2>1, <2>2, FramedKeeps DEF Passed
    <2> QED BY <1>1, <2>1, <2>2, <2>3, <2>4, PassedKeeps
<1> QED BY <1>2, <1>3, <1>4

LEMMA PassedServe ==
    ASSUME Shape, Agreement, Passed, NEW r, NEW answer, Serve(r, answer)
    PROVE  Passed'
PROOF
<1>1. CASE r.kind = "open" /\ HandleOpen(r, answer)
    BY <1>1, PassedServeOpen
<1>2. CASE r.kind = "push" /\ r.conn \in DOMAIN conns /\ HandlePush(r, answer)
    BY <1>2, PassedServePush
<1>3. CASE \/ r.kind # "open" /\ r.conn \notin DOMAIN conns /\ NotFound(r, answer)
           \/ r.kind = "pull" /\ HandlePull(r, answer)
    <2>1. PICK response : Respond(answer, response)
        BY <1>3 DEF NotFound, HandlePull
    <2>2. /\ UNCHANGED <<client, conns, handlers, restarts, lostOpen, crossed, acked>>
          /\ stray' \subseteq stray
        BY <1>3 DEF Serve, NotFound, HandlePull, server
    <2>3. \/ answer = FALSE /\ call' = call
          \/ /\ answer = TRUE /\ call.at = "sent" /\ r = call.request
             /\ call' = [at |-> "answered", request |-> r, response |-> response]
        BY <2>1, ServedRequest DEF Serve
    <2>4. \/ call' = call
          \/ /\ call.at = "sent" /\ r = call.request /\ call'.at = "answered"
             /\ call'.request = call.request
        BY <2>3
    <2>5. Framed'
        BY <2>2, <2>4, FramedKeeps DEF Passed
    <2>6. Unchecked' => Unchecked
        BY <2>2, <2>4 DEF Unchecked, Pushing
    <2>7. ASSUME call' # call
          PROVE  ~Opening /\ (Pushing => restarts # 0)
        <3>1. r.conn = client.conn /\ client.conn # NoConn /\ ~Opening
            BY <1>3, <2>4, <2>7 DEF Shape, CallShape, Opening
        <3>2. restarts = 0 => r.kind # "push"
            BY <1>3, <3>1 DEF Agreement, Present
        <3> QED BY <2>4, <2>7, <3>1, <3>2 DEF Pushing
    <2> QED BY <2>2, <2>4, <2>5, <2>6, <2>7, PassedKeeps
<1> QED BY <1>1, <1>2, <1>3 DEF Serve, Handle

LEMMA PassedQueue ==
    ASSUME Shape, Agreement, Passed, NEW c \in DOMAIN conns, QueueOutgoing(c)
    PROVE  Passed'
PROOF
<1>1. /\ UNCHANGED <<client, call, stray, handlers, restarts, lostOpen, crossed, acked>>
      /\ conns' = [conns EXCEPT ![c] = Counted(@)]
    BY DEF QueueOutgoing
<1>2. ASSUME NEW d \in DOMAIN conns
      PROVE  conns'[d].window = conns[d].window /\ conns'[d].buffer = conns[d].buffer
    BY <1>1, CountedFields DEF Shape, ServerShape
<1>3. Framed'
    BY <1>1, FramedKeeps DEF Passed
<1>4. Unchecked' <=> Unchecked
    BY <1>1 DEF Unchecked, Pushing
<1> QED BY <1>1, <1>2, <1>3, <1>4, PassedKeeps

LEMMA PassedStutter ==
    /\ Shape /\ Agreement /\ Passed
    /\ UNCHANGED <<client, call, stray, handlers, conns, restarts, lostOpen, crossed, acked>>
    => Passed'
PROOF
<1> SUFFICES ASSUME Shape, Agreement, Passed,
                    UNCHANGED <<client, call, stray, handlers, conns, restarts, lostOpen, crossed, acked>>
             PROVE  Passed'
    OBVIOUS
<1>1. Framed'
    BY FramedKeeps DEF Passed
<1>2. Unchecked' => Unchecked
    BY DEF Unchecked, Pushing
<1> QED BY <1>1, <1>2, PassedKeeps

(* A handler's step that answers no call and marks nothing leaves the first *)
(* counter that is free where it was, or higher.                            *)
LEMMA FreshKeeps ==
    ASSUME Shape, NEW h, HandlerStep(h)
    PROVE  /\ Opening' = Opening /\ Pushing' = Pushing /\ call'.request = call.request
           /\ client.sendCounter \in Nat /\ FirstFresh \in Int /\ FirstFresh' \in Int
           /\ FirstFresh <= FirstFresh' /\ (Unchecked' => Unchecked)
PROOF
<1>1. /\ h \in handlers /\ UNCHANGED client
      /\ handlers' \subseteq (handlers \ {h}) \cup {[request |-> h.request, at |-> "accepted"]}
      /\ \/ call' = call
         \/ call.at = "handled" /\ call.request = h.request /\ call' = Answer(h.request)
    BY HandlerServed
<1>2. \/ call' = call
      \/ call.at = "handled" /\ call'.at = "answered" /\ call'.request = call.request
    BY <1>1 DEF Answer
<1>3. Opening' = Opening /\ Pushing' = Pushing /\ call'.request = call.request
    BY <1>2 DEF Opening, Pushing
<1>4. Unchecked' => Unchecked
    <2>1. [request |-> call.request, at |-> "decoded"] \in handlers' =>
              [request |-> call.request, at |-> "decoded"] \in handlers
        BY <1>1
    <2> QED BY <1>2, <1>3, <2>1 DEF Unchecked
<1>5. client.sendCounter \in Nat
    BY DEF Shape, ClientShape
<1> QED BY <1>1, <1>3, <1>4, <1>5 DEF FirstFresh

LEMMA FramedHandler ==
    ASSUME Shape, Framed, NEW h, HandlerStep(h)
    PROVE  Framed'
PROOF
<1>1. /\ h \in handlers /\ UNCHANGED <<client, stray>>
      /\ handlers' \subseteq (handlers \ {h}) \cup {[request |-> h.request, at |-> "accepted"]}
      /\ \/ call' = call
         \/ call.at = "handled" /\ call.request = h.request /\ call' = Answer(h.request)
    BY HandlerServed
<1>2. \/ call' = call
      \/ call.at = "handled" /\ call'.at = "answered" /\ call'.request = call.request
    BY <1>1 DEF Answer
<1>3. ASSUME NEW g \in handlers' PROVE \E f \in handlers : f.request = g.request
    BY <1>1
<1> QED BY <1>1, <1>2, <1>3, FramedKeeps

(* What a handler marks without crossing a reconnect is below the counter  *)
(* of the push in progress, or is that counter, which is then checked.     *)
LEMMA PassedMarks ==
    ASSUME Shape, Agreement, Passed, NEW h \in handlers, HandlerStep(h), HandlerChecks(h),
           Acceptable(conns[h.request.conn].window, h.request.wire.counter)
    PROVE  Behind' /\ Taken'
PROOF
<1>a. PICK c, w, n :
          /\ c = h.request.conn /\ w = conns[c].window /\ n = h.request.wire.counter
          /\ c \in DOMAIN conns /\ w \in Windows /\ n \in Nat /\ h.at = "decoded"
          /\ UNCHANGED <<outbox, nextConnID, born, delivered>>
          /\ \/ /\ ~Acceptable(w, n) /\ handlers' = handlers \ {h}
                /\ HandlerEnds(h) /\ UNCHANGED <<conns, crossed>>
             \/ /\ Acceptable(w, n)
                /\ DOMAIN conns' = DOMAIN conns
                /\ \A d \in DOMAIN conns : d # c => conns'[d] = conns[d]
                /\ conns'[c] = Rechecked(conns[c], Marked(w, n))
                /\ crossed' = (crossed \/ h.request.wire.sealed.key # conns[c].key)
                /\ handlers' = (handlers \ {h}) \cup {[request |-> h.request, at |-> "accepted"]}
                /\ UNCHANGED call
    BY CheckServed
<1>b. /\ c = h.request.conn /\ w = conns[c].window /\ n = h.request.wire.counter
      /\ c \in DOMAIN conns /\ w \in Windows /\ n \in Nat /\ h.at = "decoded"
      /\ Acceptable(w, n)
    BY <1>a
<1>c. /\ DOMAIN conns' = DOMAIN conns
      /\ \A d \in DOMAIN conns : d # c => conns'[d] = conns[d]
      /\ conns'[c] = Rechecked(conns[c], Marked(w, n))
      /\ crossed' = (crossed \/ h.request.wire.sealed.key # conns[c].key)
    BY <1>a, <1>b
<1>d. /\ handlers' = (handlers \ {h}) \cup {[request |-> h.request, at |-> "accepted"]}
      /\ UNCHANGED call
    BY <1>a, <1>b
<1>e. UNCHANGED <<client, restarts, lostOpen, acked>>
    BY HandlerServed
<1>2. conns'[c].window = Marked(w, n) /\ conns'[c].buffer = conns[c].buffer
    <2>1. PICK s, v : s = conns[c] /\ v = Marked(w, n)
        OBVIOUS
    <2>2. conns'[c] = Rechecked(s, v) /\ IsSession(s)
        BY <1>b, <1>c, <2>1 DEF Shape, ServerShape
    <2> QED BY <2>1, <2>2, RecheckedFields
<1>3. \/ Marked(w, n).highest = n
      \/ w.initiated /\ Marked(w, n).highest = w.highest
    BY <1>b, MarkedWindows
<1>4. /\ Opening' = Opening /\ client.sendCounter \in Nat
      /\ FirstFresh \in Int /\ FirstFresh' \in Int /\ FirstFresh <= FirstFresh'
    BY FreshKeeps
<1>5. h = [request |-> h.request, at |-> "decoded"] /\ h.request.kind = "push"
    BY <1>b DEF Shape, HandlersShape
<1>6. Older(h.request) \/ (Pushing /\ call.at # "sent" /\ h.request = call.request)
    BY DEF Passed, Framed
<1>7. ASSUME restarts = 0, ~lostOpen, ~crossed'
      PROVE  ~crossed /\ h.request.wire.sealed.key = conns[c].key
    BY <1>7, <1>c
<1>8. Behind'
    <2> SUFFICES ASSUME restarts = 0, ~lostOpen, ~crossed'
                 PROVE  /\ Opening /\ call.at = "answered" =>
                              ~conns'[call.response.conn].window.initiated
                        /\ client.conn # NoConn /\ ~Opening =>
                              (conns'[client.conn].window.initiated =>
                                   conns'[client.conn].window.highest < FirstFresh')
        BY <1>4, <1>d, <1>e DEF Behind
    <2>1. ASSUME Opening, call.at = "answered"
          PROVE  ~conns'[call.response.conn].window.initiated
        <3>1. call.response.conn \in DOMAIN conns /\ ~conns[call.response.conn].window.initiated
            BY <1>7, <2>1 DEF Passed, Behind, Agreement, Present
        <3>2. conns[call.response.conn].key = call.request.wire.ephemeral
            BY <2>1 DEF Agreement, Agreed
        <3>3. call.request.wire.ephemeral > client.key /\ client.key \in Nat
            BY <2>1 DEF Passed, Framed, Shape, ClientShape
        <3>4. Requested(call.request) /\ opens \in Nat
            BY <2>1 DEF Shape, InFlight, OpensCounted, Outstanding
        <3>5. call.request.wire.ephemeral \in Nat
            BY <2>1, <3>4 DEF Requested, Opening
        <3>6. h.request.wire.sealed.key \in Nat /\ h.request.wire.sealed.key <= client.key
            BY <1>6, <2>1 DEF Older, Opening, Pushing
        <3>7. call.response.conn # c
            BY <1>7, <3>2, <3>3, <3>5, <3>6
        <3> QED BY <1>c, <3>1, <3>7
    <2>2. ASSUME client.conn # NoConn, ~Opening, conns'[client.conn].window.initiated
          PROVE  conns'[client.conn].window.highest < FirstFresh'
        <3>1. client.conn \in DOMAIN conns /\ conns[client.conn].key = client.key
            BY <2>2 DEF Agreement, Present, Agreed
        <3>2. conns[client.conn].window \in Windows
            BY <3>1 DEF Shape, ServerShape
        <3>3. PICK v \in Windows : v = conns[client.conn].window
            BY <3>2
        <3>4. v.initiated => v.highest < FirstFresh'
            <4>1. v.initiated => v.highest < FirstFresh
                BY <1>7, <2>2, <3>3 DEF Passed, Behind
            <4>2. v.highest \in Nat
                BY <3>3 DEF Windows
            <4> QED BY <1>4, <4>1, <4>2
        <3>5. CASE c # client.conn
            BY <1>c, <2>2, <3>1, <3>3, <3>4, <3>5
        <3>6. CASE c = client.conn
            <4>1. n < FirstFresh'
                <5>1. CASE Older(h.request)
                    <6>1. n < Newest
                        BY <1>7, <1>b, <3>1, <3>6, <5>1 DEF Older
                    <6>2. Newest <= FirstFresh'
                        <7>1. Unchecked' => Pushing
                            BY <1>d DEF Unchecked, Shape, CallShape, Pushing
                        <7> QED BY <1>4, <1>e, <7>1 DEF Newest, FirstFresh
                    <6>3. Newest \in Int
                        BY <1>4 DEF Newest
                    <6> QED BY <1>4, <1>b, <6>1, <6>2, <6>3
                <5>2. CASE Pushing /\ call.at # "sent" /\ h.request = call.request
                    <6>1. n = client.sendCounter - 1
                        BY <1>b, <5>2 DEF Passed, Framed
                    <6>2. ~Unchecked'
                        <7>1. [request |-> call.request, at |-> "decoded"] = h
                            BY <1>5, <5>2
                        <7>2. h \notin handlers'
                            BY <1>5, <1>d
                        <7> QED BY <1>d, <5>2, <7>1, <7>2 DEF Unchecked
                    <6> QED BY <1>4, <1>e, <6>1, <6>2 DEF FirstFresh
                <5> QED BY <1>6, <5>1, <5>2
            <4> QED BY <1>2, <1>3, <1>b, <3>3, <3>4, <3>6, <4>1
        <3> QED BY <3>5, <3>6
    <2> QED BY <2>1, <2>2
<1>9. Taken'
    <2>1. restarts = 0 /\ client.conn # NoConn => client.conn \in DOMAIN conns
        BY DEF Agreement, Present
    <2>2. \A d \in DOMAIN conns : conns'[d].buffer = conns[d].buffer
        BY <1>2, <1>c
    <2> QED BY <1>7, <1>d, <1>e, <2>1, <2>2 DEF Passed, Taken, Pushing
<1> QED BY <1>8, <1>9

(* The window refuses no push that is in progress.                         *)
LEMMA PassedRefuses ==
    ASSUME Shape, Agreement, Passed, NEW h \in handlers, HandlerStep(h), h.at = "decoded",
           ~Acceptable(conns[h.request.conn].window, h.request.wire.counter), HandlerEnds(h),
           UNCHANGED <<conns, crossed, client, restarts, lostOpen, acked>>
    PROVE  Passed'
PROOF
<1>1. Framed'
    BY FramedHandler DEF Passed
<1>2. (Unchecked' => Unchecked) /\ call'.request = call.request
    BY FreshKeeps
<1>3. CASE call.at = "handled" /\ call.request = h.request
    <2>1. Pushing /\ ~Opening /\ h.request.conn = client.conn /\ client.conn # NoConn
        BY <1>3 DEF Shape, CallShape, Pushing, Opening
    <2>2. h = [request |-> call.request, at |-> "decoded"]
        BY <1>3 DEF Shape, HandlersShape
    <2>3. h.request.wire.counter = client.sendCounter - 1 /\ FirstFresh = client.sendCounter - 1
        BY <1>3, <2>1, <2>2 DEF Passed, Framed, FirstFresh, Unchecked
    <2>4. PICK w \in Windows : w = conns[client.conn].window
        BY <2>1 DEF Shape, HandlersShape, ServerShape
    <2>5. w.initiated /\ ~(h.request.wire.counter > w.highest)
        BY <2>1, <2>4 DEF Acceptable
    <2>6. restarts # 0 \/ lostOpen \/ crossed
        <3>1. w.highest \in Nat /\ client.sendCounter \in Nat
            BY DEF Windows, Shape, ClientShape
        <3> QED BY <2>1, <2>3, <2>4, <2>5, <3>1 DEF Passed, Behind
    <2>7. call'.at = "answered"
        BY <1>3 DEF HandlerEnds
    <2> QED BY <1>1, <1>2, <1>3, <2>1, <2>6, <2>7, PassedKeeps
<1>4. CASE ~(call.at = "handled" /\ call.request = h.request)
    <2>1. call' = call
        BY <1>4 DEF HandlerEnds
    <2> QED BY <1>1, <1>2, <2>1, PassedKeeps
<1> QED BY <1>3, <1>4

(* What a handler inserts was taken.                                       *)
LEMMA PassedInsert ==
    ASSUME Shape, Uploaded, Agreement, Passed, NEW h \in handlers, HandlerStep(h), HandlerInserts(h)
    PROVE  Passed'
PROOF
<1>1. PICK c, result :
          /\ c = h.request.conn /\ result = Received(conns[c].buffer, h.request.wire)
          /\ c \in DOMAIN conns /\ h.at = "accepted"
          /\ UNCHANGED <<outbox, nextConnID, born, crossed>>
          /\ DOMAIN conns' = DOMAIN conns
          /\ \A d \in DOMAIN conns : d # c => conns'[d] = conns[d]
          /\ conns'[c] = Rebuffered(conns[c], result.buffer)
          /\ delivered' = [delivered EXCEPT ![conns[c].stream] = @ \o result.ready]
          /\ handlers' = handlers \ {h} /\ HandlerEnds(h)
    BY InsertServed
<1>2. UNCHANGED <<client, restarts, lostOpen, acked>>
    BY HandlerServed
<1>3. Framed'
    BY FramedHandler DEF Passed
<1>4. /\ Opening' = Opening /\ Pushing' = Pushing /\ call'.request = call.request
      /\ FirstFresh \in Int /\ FirstFresh' \in Int /\ FirstFresh <= FirstFresh'
    BY FreshKeeps
<1>5. /\ \A d \in DOMAIN conns : IsSession(conns[d]) /\ conns[d].window \in Windows
      /\ h.request.kind = "push" /\ Requested(h.request)
    BY DEF Shape, ServerShape, HandlersShape
<1>6. PICK s, buffer : s = conns[c] /\ buffer = result.buffer
    OBVIOUS
<1>7. conns'[c].window = s.window /\ conns'[c].buffer = buffer
    <2>1. conns'[c] = Rebuffered(s, buffer) /\ IsSession(s)
        BY <1>1, <1>5, <1>6
    <2> QED BY <2>1, RebufferedFields
<1>8. Given(buffer) = Given(s.buffer) \cup {Plaintext(h.request.wire).sequence}
    BY <1>1, <1>5, <1>6, PushBuffered
<1>9. \A d \in DOMAIN conns :
         conns'[d].window = conns[d].window /\ Given(conns[d].buffer) \subseteq Given(conns'[d].buffer)
    BY <1>1, <1>6, <1>7, <1>8
<1>10. restarts = 0 => /\ client.conn # NoConn => client.conn \in DOMAIN conns
                       /\ Opening /\ call.at = "answered" => call.response.conn \in DOMAIN conns
    BY DEF Agreement, Present
<1>11. \/ call' = call
       \/ /\ call.at = "handled" /\ call.request = h.request /\ call'.at = "answered"
          /\ ~Opening
    BY <1>1 DEF HandlerEnds, Opening, Shape, CallShape
<1>12. Behind'
    <2>1. ASSUME restarts = 0, ~lostOpen, ~crossed, Opening, call'.at = "answered"
          PROVE  ~conns'[call'.response.conn].window.initiated
        BY <1>9, <1>10, <1>11, <2>1 DEF Passed, Behind
    <2>2. ASSUME restarts = 0, ~lostOpen, ~crossed, client.conn # NoConn, ~Opening,
                 conns'[client.conn].window.initiated
          PROVE  conns'[client.conn].window.highest < FirstFresh'
        <3>1. client.conn \in DOMAIN conns
            BY <1>10, <2>2
        <3>2. PICK w \in Windows : w = conns[client.conn].window
            BY <1>5, <3>1
        <3>3. w.initiated /\ w.highest \in Nat /\ w.highest < FirstFresh
            BY <1>9, <2>2, <3>1, <3>2 DEF Passed, Behind, Windows
        <3> QED BY <1>4, <1>9, <3>1, <3>2, <3>3
    <2> QED BY <1>1, <1>2, <1>4, <2>1, <2>2 DEF Behind
<1>13. Taken'
    <2> SUFFICES ASSUME restarts = 0, ~lostOpen, ~crossed, client.conn # NoConn
                 PROVE  /\ acked \subseteq Given(conns'[client.conn].buffer)
                        /\ Pushing /\ call'.at = "answered" =>
                              Plaintext(call.request.wire).payload
                                  \in Given(conns'[client.conn].buffer)
        BY <1>1, <1>2, <1>4 DEF Taken
    <2>1. /\ acked \subseteq Given(conns[client.conn].buffer)
          /\ Pushing /\ call.at = "answered" =>
                Plaintext(call.request.wire).payload \in Given(conns[client.conn].buffer)
        BY DEF Passed, Taken
    <2>2. Given(conns[client.conn].buffer) \subseteq Given(conns'[client.conn].buffer)
        BY <1>9, <1>10
    <2>3. CASE call' = call
        BY <2>1, <2>2, <2>3
    <2>4. CASE call.at = "handled" /\ call.request = h.request
        <3>1. c = client.conn
            BY <1>1, <1>5, <2>4 DEF Shape, CallShape
        <3>2. Plaintext(h.request.wire).payload = Plaintext(h.request.wire).sequence
            BY <1>5 DEF Requested
        <3>3. Plaintext(call.request.wire).payload \in Given(conns'[client.conn].buffer)
            BY <1>7, <1>8, <2>4, <3>1, <3>2
        <3> QED BY <2>1, <2>2, <3>3
    <2> QED BY <1>11, <2>3, <2>4
<1> QED BY <1>3, <1>12, <1>13 DEF Passed

LEMMA PassedHandler ==
    ASSUME Shape, Uploaded, Agreement, Passed, NEW h, HandlerStep(h)
    PROVE  Passed'
PROOF
<1>1. h \in handlers /\ UNCHANGED <<client, restarts, lostOpen, acked>>
    BY HandlerServed
<1>2. CASE HandlerInserts(h)
    BY <1>1, <1>2, PassedInsert
<1>3. CASE HandlerChecks(h)
    <2>1. PICK c, w, n :
              /\ c = h.request.conn /\ w = conns[c].window /\ n = h.request.wire.counter
              /\ c \in DOMAIN conns /\ w \in Windows /\ n \in Nat /\ h.at = "decoded"
              /\ UNCHANGED <<outbox, nextConnID, born, delivered>>
              /\ \/ /\ ~Acceptable(w, n) /\ handlers' = handlers \ {h}
                    /\ HandlerEnds(h) /\ UNCHANGED <<conns, crossed>>
                 \/ /\ Acceptable(w, n)
                    /\ DOMAIN conns' = DOMAIN conns
                    /\ \A d \in DOMAIN conns : d # c => conns'[d] = conns[d]
                    /\ conns'[c] = Rechecked(conns[c], Marked(w, n))
                    /\ crossed' = (crossed \/ h.request.wire.sealed.key # conns[c].key)
                    /\ handlers' = (handlers \ {h}) \cup {[request |-> h.request, at |-> "accepted"]}
                    /\ UNCHANGED call
        BY <1>1, <1>3, CheckServed
    <2>2. CASE ~Acceptable(w, n) /\ HandlerEnds(h) /\ UNCHANGED <<conns, crossed>>
        BY <1>1, <2>1, <2>2, PassedRefuses
    <2>3. CASE /\ Acceptable(w, n) /\ DOMAIN conns' = DOMAIN conns
               /\ \A d \in DOMAIN conns : d # c => conns'[d] = conns[d]
               /\ conns'[c] = Rechecked(conns[c], Marked(w, n))
               /\ crossed' = (crossed \/ h.request.wire.sealed.key # conns[c].key)
               /\ handlers' = (handlers \ {h}) \cup {[request |-> h.request, at |-> "accepted"]}
               /\ UNCHANGED call
        <3>1. Framed'
            BY FramedHandler DEF Passed
        <3>2. Behind' /\ Taken'
            BY <1>1, <1>3, <2>1, <2>3, PassedMarks
        <3> QED BY <3>1, <3>2 DEF Passed
    <2> QED BY <2>1, <2>2, <2>3
<1> QED BY <1>2, <1>3 DEF HandlerStep

LEMMA PassedNext == Shape /\ Uploaded /\ Agreement /\ Passed /\ [Next]_vars => Passed'
PROOF
<1> SUFFICES ASSUME Shape, Uploaded, Agreement, Passed, [Next]_vars PROVE Passed'
    OBVIOUS
<1>1. CASE ServeCall
    BY <1>1, ServeSplit, PassedServe
<1>2. ASSUME NEW r \in stray, ServeStray(r) PROVE Passed'
    BY <1>2, ServeSplit, PassedServe
<1>3. ASSUME NEW c \in DOMAIN conns, QueueOutgoing(c) PROVE Passed'
    BY <1>3, PassedQueue
<1>4. CASE PullPending
    BY <1>4, PassedStutter DEF PullPending, server
<1>5. CASE UNCHANGED vars
    BY <1>5, PassedStutter DEF vars, server
<1>6. ASSUME NEW h \in handlers, HandlerStep(h) PROVE Passed'
    BY <1>6, PassedHandler
<1> QED
    BY <1>1, <1>2, <1>3, <1>4, <1>5, <1>6, PassedOpen, PassedPush, PassedPull, PassedOpenReturns,
       PassedPushReturns, PassedPullReturns, PassedCallFails, PassedRestart
    DEF Next, ClientStep, ServerStep, Fault

LEMMA PassedInvariance == Spec => []Passed
PROOF
BY ShapeInvariance, UploadedInvariance, AgreementInvariance, PassedInit, PassedNext, PTL DEF Spec

(* A Push that returned nil was taken while no handshake has failed, the   *)
(* server has not restarted and no handler has crossed a reconnect, though *)
(* the server answers 200 also to a frame it drops (client.go:125-145,     *)
(* server.go:219-233, session.go:149-163).                                 *)
THEOREM AckedAlwaysTaken == Spec => []AckedIsTaken
PROOF
<1>1. Shape /\ Uploaded /\ Agreement /\ Passed => AckedIsTaken
    <2> SUFFICES ASSUME Shape, Uploaded, Agreement, Passed, InStep, ~crossed, NEW n \in acked
                 PROVE  LET buffer == conns[client.conn].buffer IN
                        n < buffer.nextExpected \/ n \in DOMAIN buffer.pending
        BY DEF AckedIsTaken
    <2>1. n \in Given(conns[client.conn].buffer)
        BY DEF Passed, Taken, InStep
    <2>2. PICK buffer : buffer = conns[client.conn].buffer
        OBVIOUS
    <2>3. n \in 0 .. buffer.nextExpected - 1 \/ n \in DOMAIN buffer.pending
        BY <2>1, <2>2 DEF Given, Value!Given
    <2>4. buffer.nextExpected \in Nat
        <3>1. client.conn \in DOMAIN conns
            BY DEF Agreement, Present, InStep
        <3>2. Buffered(buffer, client.sendSequence, delivered[conns[client.conn].stream])
            BY <2>2, <3>1 DEF Uploaded
        <3> QED BY <3>2 DEF Buffered, Value!Buffered
    <2> QED BY <2>2, <2>3, <2>4
<1> QED
    BY <1>1, ShapeInvariance, UploadedInvariance, AgreementInvariance, PassedInvariance, PTL

-----------------------------------------------------------------------------
(* The way down.  A chunk that a session queues is numbered by it and      *)
(* carries its name: that is all a frame on this way ever holds.           *)
Chunk == [stream : Nat, position : Nat]
Chunks(S) == [n \in Nat |-> [stream : S, position : {n}]]

(* The buffer b has given out the chunks `got', all of the streams S.      *)
Fits(b, S, got) == Value!Filled(b, MaxChunks, Chunks(S), got) /\ got \in Seq(Chunk)

Numbered(frames, S) ==
    /\ \E F : frames \in Seq(F)
    /\ \A i \in DOMAIN frames :
          /\ Plaintext(frames[i]).sequence \in 0 .. MaxChunks - 1
          /\ Plaintext(frames[i]).payload \in Chunks(S)[Plaintext(frames[i]).sequence]

LEMMA ChunksAre ==
    ASSUME NEW S \in SUBSET Nat
    PROVE  /\ Value!Payloads(Chunks(S)) \subseteq Chunk
           /\ \A n \in Nat : Chunks(S)[n] = [stream : S, position : {n}]
PROOF
<1>1. \A n \in Nat : Chunks(S)[n] = [stream : S, position : {n}]
    BY DEF Chunks
<1>2. \A n \in Nat : [stream : S, position : {n}] \subseteq Chunk
    BY DEF Chunk
<1>3. \A n \in Nat : Chunks(S)[n] \subseteq Chunk
    BY <1>1, <1>2
<1>4. PICK slots : slots = Chunks(S)
    OBVIOUS
<1>5. UNION {slots[k] : k \in Nat} \subseteq Chunk
    BY <1>3, <1>4
<1> QED BY <1>1, <1>4, <1>5 DEF Value!Payloads

LEMMA ChunksMore ==
    ASSUME NEW T \in SUBSET Nat, NEW S \in SUBSET T
    PROVE  \A n \in Nat : Chunks(S)[n] \subseteq Chunks(T)[n]
PROOF
<1> SUFFICES ASSUME NEW n \in Nat PROVE Chunks(S)[n] \subseteq Chunks(T)[n]
    OBVIOUS
<1>1. S \in SUBSET Nat
    OBVIOUS
<1>2. Chunks(S)[n] = [stream : S, position : {n}] /\ Chunks(T)[n] = [stream : T, position : {n}]
    BY <1>1, ChunksAre
<1>3. S \subseteq T
    OBVIOUS
<1>4. [stream : S, position : {n}] \subseteq [stream : T, position : {n}]
    BY <1>3
<1> QED BY <1>2, <1>4

LEMMA FitsEmpty ==
    \A S \in SUBSET Nat : Fits(NewReorderBuffer(0), S, << >>)
PROOF
<1> SUFFICES ASSUME NEW S \in SUBSET Nat PROVE Fits(NewReorderBuffer(0), S, << >>)
    OBVIOUS
<1>1. PICK b : b = NewReorderBuffer(0)
    OBVIOUS
<1>2. b.nextExpected = 0 /\ DOMAIN b.pending = {}
    BY <1>1 DEF NewReorderBuffer, NoPending
<1> QED BY <1>1, <1>2, ChannelAssumption DEF Fits, Value!Filled

LEMMA FitsInsert ==
    ASSUME NEW S \in SUBSET Nat, NEW b, NEW got, Fits(b, S, got),
           NEW i \in 0 .. MaxChunks - 1, NEW p \in Chunks(S)[i]
    PROVE  /\ Fits(Insert(b, i, p).buffer, S, got \o Insert(b, i, p).ready)
           /\ Insert(b, i, p).ready \in Seq(Chunk)
PROOF
<1> USE ChannelAssumption
<1>1. MaxChunks \in Nat /\ MaxChunks < SeqSpace
    OBVIOUS
<1>2. PICK slots, length : slots = Chunks(S) /\ length = MaxChunks
    OBVIOUS
<1>3. Value!Filled(b, length, slots, got) /\ got \in Seq(Chunk)
    BY <1>2 DEF Fits
<1>4. Value!Filled(Value!Insert(b, i, p).buffer, length, slots, got \o Value!Insert(b, i, p).ready)
    BY <1>1, <1>2, <1>3, Value!InsertFills, ValueAssumptions DEF Value!Stream, Value!InOrder!Stream
<1>5. Value!Insert(b, i, p).ready \in Seq(Value!Payloads(slots))
    BY <1>1, <1>2, <1>3, Value!InsertReady, ValueAssumptions DEF Value!Stream, Value!InOrder!Stream
<1>6. PICK ready : ready = Insert(b, i, p).ready
    OBVIOUS
<1>7. ready \in Seq(Chunk)
    <2>1. ready \in Seq(Value!Payloads(slots))
        BY <1>5, <1>6, SameInsert
    <2>2. PICK T : T = Value!Payloads(slots)
        OBVIOUS
    <2>3. T \subseteq Chunk
        BY <1>2, <2>2, ChunksAre
    <2> QED BY <2>1, <2>2, <2>3, SeqMonotonic
<1>8. got \o ready \in Seq(Chunk)
    BY <1>3, <1>7
<1> QED BY <1>2, <1>4, <1>6, <1>7, <1>8, SameInsert DEF Fits

LEMMA FitsMore ==
    ASSUME NEW T \in SUBSET Nat, NEW S \in SUBSET T, NEW b, NEW got, Fits(b, S, got)
    PROVE  Fits(b, T, got)
PROOF
<1>1. \A n \in Nat : Chunks(S)[n] \subseteq Chunks(T)[n]
    BY ChunksMore
<1>2. Value!Payloads(Chunks(S)) \subseteq Value!Payloads(Chunks(T))
    BY <1>1 DEF Value!Payloads
<1>3. PICK P, Q : P = Value!Payloads(Chunks(S)) /\ Q = Value!Payloads(Chunks(T))
    OBVIOUS
<1>4. got \in Seq(P) /\ P \subseteq Q
    BY <1>2, <1>3 DEF Fits, Value!Filled
<1>5. got \in Seq(Q)
    BY <1>4, SeqMonotonic
<1>6. /\ b.nextExpected \in 0 .. MaxChunks
      /\ DOMAIN b.pending \subseteq b.nextExpected + 1 .. MaxChunks - 1
    BY DEF Fits, Value!Filled
<1>7. PICK n \in 0 .. MaxChunks : n = b.nextExpected
    BY <1>6
<1>8. \A i \in DOMAIN b.pending : b.pending[i] \in Chunks(T)[i]
    <2> SUFFICES ASSUME NEW i \in DOMAIN b.pending PROVE b.pending[i] \in Chunks(T)[i]
        OBVIOUS
    <2>1. i \in Nat
        BY <1>6, <1>7, ChannelAssumption
    <2> QED BY <1>1, <2>1 DEF Fits, Value!Filled
<1>9. \A k \in 1 .. n : got[k] \in Chunks(T)[k - 1]
    <2> SUFFICES ASSUME NEW k \in 1 .. n PROVE got[k] \in Chunks(T)[k - 1]
        OBVIOUS
    <2>1. k - 1 \in Nat
        OBVIOUS
    <2> QED BY <1>1, <1>7, <2>1 DEF Fits, Value!Filled
<1> QED BY <1>3, <1>5, <1>7, <1>8, <1>9 DEF Fits, Value!Filled

LEMMA NumberedMore ==
    ASSUME NEW T \in SUBSET Nat, NEW S \in SUBSET T, NEW frames, Numbered(frames, S)
    PROVE  Numbered(frames, T)
PROOF
<1>1. \A n \in Nat : Chunks(S)[n] \subseteq Chunks(T)[n]
    BY ChunksMore
<1> QED BY <1>1, ChannelAssumption DEF Numbered

(* What PullOne returned and holds fits its claim.                         *)
LEMMA FitsOrdered ==
    ASSUME NEW S \in SUBSET Nat, NEW b, NEW got, Fits(b, S, got), NEW i \in DOMAIN got
    PROVE  got[i].position = i - 1 /\ got[i].stream \in S
PROOF
<1>1. Len(got) = b.nextExpected /\ b.nextExpected \in 0 .. MaxChunks
    BY DEF Fits, Value!Filled
<1>2. i \in 1 .. b.nextExpected /\ i - 1 \in Nat
    BY <1>1 DEF Fits
<1>3. got[i] \in [stream : S, position : {i - 1}]
    BY <1>2, ChunksAre DEF Fits, Value!Filled
<1> QED BY <1>3

(* f takes in the first k frames, one after the other; what the recursion  *)
(* of Absorbed defines does, since it exists for every number of frames.   *)
TakesIn(f, base, frames, k) ==
    /\ f = [n \in 0 .. k |-> f[n]]
    /\ f[0] = base
    /\ \A n \in 1 .. k : f[n] = Absorb(f[n - 1], frames[n])

LEMMA TakesInExists ==
    ASSUME NEW base, NEW frames, NEW length \in Nat
    PROVE  \E f : TakesIn(f, base, frames, length)
PROOF
<1> DEFINE Bad == {k \in Nat : ~\E f : TakesIn(f, base, frames, k)}
<1>1. ASSUME Bad # {} PROVE FALSE
    <2>1. PICK k \in Bad : \A j \in Bad : k <= j
        BY <1>1, Value!LeastNat, ValueAssumptions DEF Value!Stream, Value!InOrder!Stream
    <2>2. CASE k = 0
        <3>1. PICK f : f = [n \in 0 .. 0 |-> base]
            OBVIOUS
        <3>2. TakesIn(f, base, frames, 0)
            BY <3>1 DEF TakesIn
        <3> QED BY <2>1, <2>2, <3>2
    <2>3. CASE k # 0
        <3>1. k - 1 \in Nat /\ k - 1 \notin Bad
            BY <2>1, <2>3
        <3>2. PICK f : TakesIn(f, base, frames, k - 1)
            BY <3>1
        <3>3. PICK last : last = Absorb(f[k - 1], frames[k])
            OBVIOUS
        <3>4. PICK g : g = [n \in 0 .. k |-> IF n = k THEN last ELSE f[n]]
            OBVIOUS
        <3>5. g = [n \in 0 .. k |-> g[n]] /\ g[0] = base
            BY <2>3, <3>1, <3>2, <3>4 DEF TakesIn
        <3>6. ASSUME NEW n \in 1 .. k PROVE g[n] = Absorb(g[n - 1], frames[n])
            <4>1. g[n - 1] = f[n - 1]
                BY <3>1, <3>4
            <4>2. CASE n = k
                BY <3>3, <3>4, <4>1, <4>2
            <4>3. CASE n # k
                <5>1. n \in 1 .. k - 1 /\ g[n] = f[n]
                    BY <3>1, <3>4, <4>3
                <5> QED BY <3>2, <4>1, <5>1 DEF TakesIn
            <4> QED BY <4>2, <4>3
        <3>7. TakesIn(g, base, frames, k)
            BY <3>5, <3>6 DEF TakesIn
        <3> QED BY <2>1, <3>7
    <2> QED BY <2>2, <2>3
<1> QED BY <1>1

LEMMA AbsorbedTakesIn ==
    ASSUME NEW frames, Len(frames) \in Nat
    PROVE  \E f : /\ TakesIn(f, [buffer |-> client.buffer, ready |-> << >>], frames, Len(frames))
                 /\ Absorbed(frames) = f[Len(frames)]
PROOF
<1>0. PICK base : base = [buffer |-> client.buffer, ready |-> << >>]
    OBVIOUS
<1>1. PICK length \in Nat : length = Len(frames)
    OBVIOUS
<1> DEFINE Step(f) == [n \in 0 .. length |-> IF n = 0 THEN base ELSE Absorb(f[n - 1], frames[n])]
<1>2. PICK f : TakesIn(f, base, frames, length)
    BY TakesInExists
<1>3. f = Step(f)
    BY <1>2 DEF TakesIn
<1>4. PICK g : g = CHOOSE h : h = Step(h)
    OBVIOUS
<1>5. g = Step(g)
    BY <1>3, <1>4
<1>6. Absorbed(frames) = g[length]
    BY <1>0, <1>1, <1>4 DEF Absorbed
<1>7. TakesIn(g, base, frames, length)
    BY <1>1, <1>5 DEF TakesIn
<1> QED BY <1>0, <1>1, <1>6, <1>7

(* A batch of frames leaves the buffer fit for what it has made ready.     *)
LEMMA AbsorbFits ==
    ASSUME NEW S \in SUBSET Nat, NEW got \in Seq(Chunk), NEW frames, Numbered(frames, S),
           NEW before, Fits(before.buffer, S, got \o before.ready), before.ready \in Seq(Chunk),
           NEW i \in DOMAIN frames
    PROVE  LET after == Absorb(before, frames[i]) IN
           Fits(after.buffer, S, got \o after.ready) /\ after.ready \in Seq(Chunk)
PROOF
<1>0. PICK n \in 0 .. MaxChunks - 1 : n = Plaintext(frames[i]).sequence
    BY DEF Numbered
<1>1. PICK p \in Chunks(S)[n] : p = Plaintext(frames[i]).payload
    BY <1>0 DEF Numbered
<1>2. PICK buffer, ready, after : /\ buffer = Insert(before.buffer, n, p).buffer
                                  /\ ready = Insert(before.buffer, n, p).ready
                                  /\ after = Absorb(before, frames[i])
    OBVIOUS
<1>3. CASE after = before
    BY <1>2, <1>3
<1>4. CASE after.buffer = buffer /\ after.ready = before.ready \o ready
    <2>1. PICK had \in Seq(Chunk) : had = before.ready
        OBVIOUS
    <2>2. PICK whole : whole = got \o had
        OBVIOUS
    <2>3. Fits(before.buffer, S, whole)
        BY <2>1, <2>2
    <2>4. Fits(buffer, S, whole \o ready) /\ ready \in Seq(Chunk)
        BY <1>2, <2>3, FitsInsert
    <2>5. had \o ready \in Seq(Chunk)
        BY <2>4
    <2>6. (got \o had) \o ready = got \o (had \o ready)
        <3>1. PICK more \in Seq(Chunk) : more = ready
            BY <2>4
        <3>2. (got \o had) \o more = got \o (had \o more)
            BY ConcatAssociative
        <3> QED BY <3>1, <3>2
    <2> QED BY <1>2, <1>4, <2>1, <2>2, <2>4, <2>5, <2>6
<1>5. after = before \/ (after.buffer = buffer /\ after.ready = before.ready \o ready)
    BY <1>0, <1>1, <1>2 DEF Absorb, Received
<1> QED BY <1>3, <1>4, <1>5

LEMMA AbsorbedFits ==
    ASSUME NEW S \in SUBSET Nat, NEW got, Fits(client.buffer, S, got),
           NEW frames, Numbered(frames, S)
    PROVE  LET result == Absorbed(frames) IN
           Fits(result.buffer, S, got \o result.ready) /\ result.ready \in Seq(Chunk)
PROOF
<1>1. PICK F : frames \in Seq(F)
    BY DEF Numbered
<1>2. PICK length \in Nat : length = Len(frames) /\ DOMAIN frames = 1 .. length
    BY <1>1
<1>3. PICK f : /\ TakesIn(f, [buffer |-> client.buffer, ready |-> << >>], frames, length)
               /\ Absorbed(frames) = f[length]
    BY <1>2, AbsorbedTakesIn
<1>4. got \in Seq(Chunk)
    BY DEF Fits
<1> DEFINE Good(e) == Fits(e.buffer, S, got \o e.ready) /\ e.ready \in Seq(Chunk)
<1> DEFINE Bad == {k \in 0 .. length : ~Good(f[k])}
<1>5. Good(f[0])
    <2>1. f[0].buffer = client.buffer /\ f[0].ready = << >>
        BY <1>3 DEF TakesIn
    <2>2. got \o << >> = got /\ << >> \in Seq(Chunk)
        BY <1>4
    <2> QED BY <2>1, <2>2
<1>6. ASSUME NEW k \in 1 .. length, Good(f[k - 1]) PROVE Good(f[k])
    <2>1. f[k] = Absorb(f[k - 1], frames[k]) /\ k \in DOMAIN frames
        BY <1>2, <1>3 DEF TakesIn
    <2> QED BY <1>4, <1>6, <2>1, AbsorbFits
<1> HIDE DEF Good
<1>7. ASSUME Bad # {} PROVE FALSE
    <2>1. Bad \in SUBSET Nat
        OBVIOUS
    <2>2. PICK k \in Bad : \A j \in Bad : k <= j
        BY <1>7, <2>1, Value!LeastNat, ValueAssumptions DEF Value!Stream, Value!InOrder!Stream
    <2>3. k \in 1 .. length /\ k - 1 \notin Bad /\ k - 1 \in 0 .. length
        BY <1>5, <2>2
    <2>4. Good(f[k])
        BY <1>6, <2>3
    <2> QED BY <2>2, <2>4
<1>8. Good(f[length])
    BY <1>7
<1> QED BY <1>3, <1>8 DEF Good

LEMMA HandedOn ==
    ASSUME NEW T, NEW got \in Seq(T), NEW more \in Seq(T), more # << >>
    PROVE  /\ Append(got, Head(more)) \in Seq(T) /\ Tail(more) \in Seq(T)
           /\ Append(got, Head(more)) \o Tail(more) = got \o more
PROOF
<1>1. Head(more) \in T /\ Tail(more) \in Seq(T) /\ Len(more) \in Nat \ {0}
    BY HeadTailProperties, EmptySeq, LenProperties
<1>2. /\ Len(Tail(more)) = Len(more) - 1
      /\ \A k \in 1 .. Len(more) - 1 : Tail(more)[k] = more[k + 1]
    BY <1>1
<1>a. Append(got, Head(more)) \in Seq(T)
    BY <1>1, AppendProperties
<1>3. PICK one : one = Append(got, Head(more)) /\ one \in Seq(T)
    BY <1>a
<1>4. PICK rest : rest = Tail(more) /\ rest \in Seq(T)
    BY <1>1
<1>5. /\ Len(one) = Len(got) + 1 /\ one[Len(got) + 1] = more[1]
      /\ \A k \in 1 .. Len(got) : one[k] = got[k]
    BY <1>1, <1>3
<1>6. /\ Len(one \o rest) = Len(got) + Len(more) /\ one \o rest \in Seq(T)
      /\ \A k \in 1 .. Len(got) + Len(more) :
             (one \o rest)[k] = IF k <= Len(one) THEN one[k] ELSE rest[k - Len(one)]
    BY <1>1, <1>2, <1>3, <1>4, <1>5, ConcatProperties
<1>7. /\ Len(got \o more) = Len(got) + Len(more) /\ got \o more \in Seq(T)
      /\ \A k \in 1 .. Len(got) + Len(more) :
             (got \o more)[k] = IF k <= Len(got) THEN got[k] ELSE more[k - Len(got)]
    BY ConcatProperties
<1>8. ASSUME NEW k \in 1 .. Len(got) + Len(more) PROVE (one \o rest)[k] = (got \o more)[k]
    <2>0. Len(got) \in Nat /\ Len(more) \in Nat /\ k \in Int
        BY LenProperties
    <2>1. CASE k <= Len(got)
        BY <1>5, <1>6, <1>7, <2>1
    <2>2. CASE k = Len(got) + 1
        BY <1>5, <1>6, <1>7, <2>2
    <2>3. CASE k > Len(got) + 1
        <3>1. PICK j \in 1 .. Len(more) - 1 : k = Len(one) + j /\ k = Len(got) + (j + 1)
            <4>1. PICK j : j = k - Len(one)
                OBVIOUS
            <4>2. j \in 1 .. Len(more) - 1 /\ k = Len(one) + j /\ k = Len(got) + (j + 1)
                BY <1>5, <2>0, <2>3, <4>1
            <4> QED BY <4>2
        <3>2. k - Len(one) = j /\ k - Len(got) = j + 1 /\ ~(k <= Len(one))
            BY <1>5, <3>1
        <3>3. (one \o rest)[k] = rest[j]
            BY <1>6, <3>2
        <3>4. (got \o more)[k] = more[j + 1]
            BY <1>7, <2>3, <3>2
        <3>5. rest[j] = more[j + 1]
            BY <1>2, <1>4
        <3> QED BY <3>3, <3>4, <3>5
    <2>4. k <= Len(got) \/ k = Len(got) + 1 \/ k > Len(got) + 1
        BY <2>0
    <2> QED BY <2>1, <2>2, <2>3, <2>4, Zenon
<1>9. one \o rest = got \o more
    BY <1>6, <1>7, <1>8, SeqEqual
<1> QED BY <1>1, <1>3, <1>4, <1>9

(* The sessions whose chunks the client can have taken in: its own, and    *)
(* any other once the server has restarted.                                *)
Streams ==
    IF restarts > 0 THEN Nat
    ELSE IF client.conn = NoConn THEN {} ELSE {conns[client.conn].stream}

Polling == call.at # "idle" /\ call.request.kind = "pull"

Queued == \A c \in DOMAIN conns : Numbered(outbox[c], {conns[c].stream})

Polled ==
    Polling => /\ pending = << >>
               /\ call.at = "answered" /\ call.response.status = "ok" =>
                     Numbered(call.response.frames, Streams)

Kept ==
    /\ received \in Seq(Chunk) /\ pending \in Seq(Chunk)
    /\ Fits(client.buffer, Streams, received \o pending)

Downloaded == Queued /\ Polled /\ Kept

LEMMA DownloadedInit == Init => Downloaded
PROOF
<1> SUFFICES ASSUME Init PROVE Downloaded
    OBVIOUS
<1>1. /\ DOMAIN conns = {} /\ call.at = "idle" /\ received = << >> /\ pending = << >>
      /\ client.conn = NoConn /\ restarts = 0 /\ client.buffer = NewReorderBuffer(0)
    BY DEF Init, NoCall
<1>2. Streams = {}
    BY <1>1 DEF Streams
<1>3. Fits(NewReorderBuffer(0), {}, << >>)
    BY FitsEmpty
<1>4. << >> \o << >> = << >> /\ << >> \in Seq(Chunk)
    OBVIOUS
<1> QED BY <1>1, <1>2, <1>3, <1>4 DEF Downloaded, Queued, Polled, Polling, Kept

(* A session keeps its stream for as long as the server runs.              *)
LEMMA SessionsKept ==
    ASSUME Shape, [Next]_vars
    PROVE  \/ Restart
           \/ /\ UNCHANGED restarts
              /\ \A c \in DOMAIN conns : /\ c \in DOMAIN conns'
                                        /\ conns'[c].stream = conns[c].stream
PROOF
<1>1. ASSUME NEW r, NEW answer, Serve(r, answer)
      PROVE  /\ UNCHANGED restarts
             /\ \A c \in DOMAIN conns : /\ c \in DOMAIN conns'
                                       /\ conns'[c].stream = conns[c].stream
    <2>1. UNCHANGED restarts
        BY <1>1 DEF Serve
    <2>2. CASE HandleOpen(r, answer)
        <3>1. PICK id \in DOMAIN conns', known \in BOOLEAN :
                  /\ known <=> id \in DOMAIN conns
                  /\ DOMAIN conns' = DOMAIN conns \cup {id}
                  /\ \A c \in DOMAIN conns : c # id => conns'[c] = conns[c]
                  /\ known => conns'[id] = Rekeyed(conns[id], r.wire.ephemeral)
            BY <2>2, OpenServed
        <3> QED BY <2>1, <3>1, RekeyedFields DEF Shape, ServerShape
    <2>3. CASE r.conn \in DOMAIN conns /\ HandlePush(r, answer)
        BY <2>1, <2>3 DEF HandlePush
    <2>4. CASE NotFound(r, answer) \/ HandlePull(r, answer)
        BY <2>1, <2>4 DEF NotFound, HandlePull, server
    <2> QED BY <1>1, <2>2, <2>3, <2>4 DEF Serve, Handle
<1>2. ASSUME NEW c \in DOMAIN conns, QueueOutgoing(c)
      PROVE  /\ UNCHANGED restarts
             /\ \A d \in DOMAIN conns : /\ d \in DOMAIN conns'
                                       /\ conns'[d].stream = conns[d].stream
    <2>1. UNCHANGED restarts /\ conns' = [conns EXCEPT ![c] = Counted(@)]
        BY <1>2 DEF QueueOutgoing
    <2> QED BY <2>1, CountedFields DEF Shape, ServerShape
<1>3. CASE \/ Open \/ Push \/ OpenReturns \/ PushReturns \/ PullReturns \/ CallRejected
           \/ PullPending \/ Pull \/ CallFails \/ PullCut \/ UNCHANGED vars
    BY <1>3 DEF Open, Push, OpenReturns, PushReturns, PullReturns, CallRejected, PullPending, Pull,
                CallFails, PullCut, PullTakes, Returns, server, vars
<1>4. ASSUME NEW h, HandlerStep(h)
      PROVE  /\ UNCHANGED restarts
             /\ \A d \in DOMAIN conns : /\ d \in DOMAIN conns'
                                       /\ conns'[d].stream = conns[d].stream
    BY <1>4, HandlerServed
<1> QED BY <1>1, <1>2, <1>3, <1>4, ServeSplit DEF Next, ClientStep, ServerStep, Fault

(* Only a handshake names a connection, only a pull fills the buffer.      *)
LEMMA ClientKeeps ==
    ASSUME Shape, [Next]_vars
    PROVE  /\ client'.conn = client.conn \/ OpenReturns
           /\ client'.buffer = client.buffer \/ PullReturns \/ PullCut
PROOF
<1>0. IsClient(client)
    BY DEF Shape, ClientShape
<1>2. CASE Open
    BY <1>0, <1>2 DEF Open, GraceStarted, IsClient
<1>3. CASE OpenReturns
    BY <1>0, <1>3 DEF OpenReturns, IsClient
<1>4. CASE PushReturns
    <2>1. CASE ShouldSendRedundant
        <3>1. PICK n : client' = [client EXCEPT !.redundantSent = n]
            BY <1>4, <2>1 DEF PushReturns
        <3> QED BY <1>0, <3>1 DEF IsClient
    <2> QED BY <1>4, <2>1 DEF PushReturns
<1>5. CASE PullReturns \/ PullCut
    <2>1. \E buffer : client' = [client EXCEPT !.buffer = buffer]
        BY <1>5 DEF PullReturns, PullCut, PullTakes
    <2> QED BY <1>0, <1>5, <2>1 DEF IsClient
<1>6. CASE Push
    BY <1>0, <1>6 DEF Push, Counted, IsClient
<1>7. CASE Pull \/ CallRejected \/ PullPending \/ ServerStep \/ CallFails \/ Restart \/ UNCHANGED vars
    BY <1>7 DEF Pull, CallRejected, PullPending, ServerStep, ServeCall, ServeStray, HandlerStep,
                QueueOutgoing, CallFails, Restart, vars
<1> QED BY <1>2, <1>3, <1>4, <1>5, <1>6, <1>7 DEF Next, ClientStep, Fault

LEMMA StreamsNat == Shape /\ Agreement => Streams \in SUBSET Nat
PROOF
<1> SUFFICES ASSUME Shape, Agreement PROVE Streams \in SUBSET Nat
    OBVIOUS
<1>1. \A c \in DOMAIN conns : conns[c].stream \in Nat
    <2>1. \A c \in DOMAIN conns : conns[c].stream \in 1 .. born
        BY DEF Shape, ServerShape
    <2> QED BY <2>1
<1>2. restarts \in Nat
    BY DEF Shape, ServerShape
<1> QED BY <1>1, <1>2 DEF Streams, Agreement, Present

LEMMA StreamsGrow ==
    ASSUME Shape, Shape', Agreement, Agreement', [Next]_vars
    PROVE  Streams \subseteq Streams' /\ Streams' \in SUBSET Nat
PROOF
<1>1. Streams \in SUBSET Nat /\ (Streams \in SUBSET Nat)'
    BY StreamsNat, PTL
<1>2. CASE Restart
    <2>1. restarts' > 0
        BY <1>2 DEF Restart, Shape, ServerShape
    <2> QED BY <1>1, <2>1 DEF Streams
<1>3. CASE ~Restart
    <2>1. /\ UNCHANGED restarts
          /\ \A c \in DOMAIN conns : conns'[c].stream = conns[c].stream
        BY <1>3, SessionsKept
    <2>2. client.conn # NoConn /\ restarts = 0 => client.conn \in DOMAIN conns
        BY DEF Agreement, Present
    <2>3. CASE OpenReturns
        <3>1. client'.conn = call.response.conn /\ call.at = "answered" /\ Opening
            BY <2>3 DEF OpenReturns, Answered, Opening, Shape, ClientShape, IsClient
        <3>2. restarts = 0 /\ client.conn # NoConn => client'.conn = client.conn
            BY <3>1 DEF Agreement, Present
        <3> QED BY <1>1, <2>1, <2>2, <3>2 DEF Streams, Shape, ServerShape
    <2>4. CASE client'.conn = client.conn
        BY <1>1, <2>1, <2>2, <2>4 DEF Streams, Shape, ServerShape
    <2> QED BY <2>3, <2>4, ClientKeeps
<1> QED BY <1>2, <1>3

LEMMA NumberedAppend ==
    ASSUME NEW S \in SUBSET Nat, NEW frames, Numbered(frames, S), NEW frame,
           Plaintext(frame).sequence \in 0 .. MaxChunks - 1,
           Plaintext(frame).payload \in Chunks(S)[Plaintext(frame).sequence]
    PROVE  Numbered(Append(frames, frame), S)
PROOF
<1>1. PICK F : frames \in Seq(F)
    BY DEF Numbered
<1>2. PICK G : G = F \cup {frame}
    OBVIOUS
<1>3. frames \in Seq(G) /\ frame \in G
    BY <1>1, <1>2, SeqMonotonic
<1>a. Append(frames, frame) \in Seq(G)
    BY <1>3, AppendProperties
<1>4. PICK more : more = Append(frames, frame) /\ more \in Seq(G)
    BY <1>a
<1>5. \A i \in DOMAIN more : more[i] = frame \/ (i \in DOMAIN frames /\ more[i] = frames[i])
    BY <1>3, <1>4
<1> QED BY <1>4, <1>5 DEF Numbered

LEMMA NumberedPart ==
    ASSUME NEW S, NEW frames, Numbered(frames, S), NEW n \in 0 .. Len(frames)
    PROVE  Numbered(SubSeq(frames, 1, n), S)
PROOF
<1>1. PICK F : frames \in Seq(F)
    BY DEF Numbered
<1>a. Len(frames) \in Nat /\ n \in Int /\ 1 \in Int /\ \A i \in 1 .. n : frames[i] \in F
    BY <1>1
<1>b. SubSeq(frames, 1, n) \in Seq(F)
    BY <1>a, SubSeqProperties
<1>2. PICK part : part = SubSeq(frames, 1, n) /\ part \in Seq(F)
    BY <1>b
<1>3. \A i \in DOMAIN part : i \in DOMAIN frames /\ part[i] = frames[i]
    BY <1>1, <1>2
<1> QED BY <1>2, <1>3 DEF Numbered

LEMMA QueuedServe ==
    ASSUME Shape, Queued, [Next]_vars, NEW r, NEW answer, Serve(r, answer)
    PROVE  Queued'
PROOF
<1>0. Numbered(<< >>, {}) /\ \A S \in SUBSET Nat : Numbered(<< >>, S)
    <2>1. << >> \in Seq({}) /\ DOMAIN << >> = {}
        OBVIOUS
    <2> QED BY <2>1 DEF Numbered
<1>1. CASE HandleOpen(r, answer)
    <2>1. PICK id \in DOMAIN conns', known \in BOOLEAN :
              /\ known <=> id \in DOMAIN conns
              /\ DOMAIN conns' = DOMAIN conns \cup {id}
              /\ \A c \in DOMAIN conns : c # id => conns'[c] = conns[c]
              /\ \A c \in DOMAIN conns : outbox'[c] = outbox[c]
              /\ known => conns'[id] = Rekeyed(conns[id], r.wire.ephemeral)
              /\ ~known => /\ conns'[id] = Rekeyed(NewSession(born + 1), r.wire.ephemeral)
                           /\ outbox'[id] = << >>
        BY <1>1, OpenServed
    <2>2. ASSUME NEW c \in DOMAIN conns' PROVE Numbered(outbox'[c], {conns'[c].stream})
        <3>1. CASE c \in DOMAIN conns
            <4>1. conns'[c].stream = conns[c].stream
                BY <2>1, <3>1, RekeyedFields DEF Shape, ServerShape
            <4> QED BY <2>1, <3>1, <4>1 DEF Queued
        <3>2. CASE c \notin DOMAIN conns
            <4>1. c = id /\ ~known /\ outbox'[c] = << >>
                BY <2>1, <3>2
            <4>2. conns'[c].stream = born + 1 /\ born \in Nat
                BY <2>1, <4>1, RekeyedFields, NewSessionShape DEF Shape, OpensCounted, Outstanding
            <4>3. {conns'[c].stream} \in SUBSET Nat
                BY <4>2
            <4> QED BY <1>0, <4>1, <4>3
        <3> QED BY <3>1, <3>2
    <2> QED BY <2>2 DEF Queued
<1>2. CASE UNCHANGED outbox /\ DOMAIN conns' = DOMAIN conns
    <2>1. \A c \in DOMAIN conns : conns'[c].stream = conns[c].stream
        BY <1>2, SessionsKept DEF Serve, Restart, Shape, ServerShape
    <2> QED BY <1>2, <2>1 DEF Queued
<1>3. CASE HandlePull(r, answer)
    <2>1. UNCHANGED conns /\ outbox' = [outbox EXCEPT ![r.conn] = << >>]
        BY <1>3 DEF HandlePull
    <2>2. ASSUME NEW c \in DOMAIN conns PROVE Numbered(outbox'[c], {conns[c].stream})
        <3>1. CASE c = r.conn
            <4>1. {conns[c].stream} \in SUBSET Nat
                <5>1. conns[c].stream \in 1 .. born
                    BY DEF Shape, ServerShape
                <5> QED BY <5>1
            <4>2. outbox'[c] = << >>
                BY <2>1, <3>1 DEF Shape, ServerShape
            <4> QED BY <1>0, <4>1, <4>2
        <3>2. CASE c # r.conn
            BY <2>1, <3>2 DEF Queued, Shape, ServerShape
        <3> QED BY <3>1, <3>2
    <2> QED BY <2>1, <2>2 DEF Queued
<1>4. NotFound(r, answer) => UNCHANGED outbox /\ DOMAIN conns' = DOMAIN conns
    BY DEF NotFound, server
<1>5. HandlePush(r, answer) => UNCHANGED outbox /\ DOMAIN conns' = DOMAIN conns
    BY DEF HandlePush
<1> QED BY <1>1, <1>2, <1>3, <1>4, <1>5 DEF Serve, Handle

(* A session numbers what it queues from its own counter (server.go:376-400). *)
LEMMA QueuedQueue ==
    ASSUME Shape, Queued, NEW c \in DOMAIN conns, QueueOutgoing(c)
    PROVE  Queued'
PROOF
<1>1. PICK n \in 0 .. MaxChunks - 1 : n = conns[c].sendSequence
    BY ChannelAssumption DEF QueueOutgoing, Shape, ServerShape
<1>2. PICK stream \in Nat : stream = conns[c].stream
    <2>1. conns[c].stream \in 1 .. born
        BY DEF Shape, ServerShape
    <2> QED BY <2>1
<1>3. PICK frame : frame = Encoded(conns[c], c, [stream |-> stream, position |-> n])
    OBVIOUS
<1>4. outbox' = [outbox EXCEPT ![c] = Append(@, frame)] /\ conns' = [conns EXCEPT ![c] = Counted(@)]
    BY <1>1, <1>2, <1>3 DEF QueueOutgoing
<1>5. Plaintext(frame).sequence = n /\ Plaintext(frame).payload = [stream |-> stream, position |-> n]
    BY <1>1, <1>3 DEF Encoded, EncodeDataFrame, Seal, Plaintext
<1>6. Plaintext(frame).payload \in Chunks({stream})[n]
    <2>1. n \in Nat /\ {stream} \in SUBSET Nat
        BY <1>1, ChannelAssumption
    <2>2. Chunks({stream})[n] = [stream : {stream}, position : {n}]
        BY <2>1, ChunksAre
    <2> QED BY <1>5, <2>2
<1>7. Numbered(Append(outbox[c], frame), {stream})
    <2>1. Numbered(outbox[c], {stream}) /\ {stream} \in SUBSET Nat
        BY <1>2 DEF Queued
    <2> QED BY <1>5, <1>6, <2>1, NumberedAppend
<1>8. ASSUME NEW d \in DOMAIN conns PROVE Numbered(outbox'[d], {conns'[d].stream})
    <2>1. conns'[d].stream = conns[d].stream
        BY <1>4, CountedFields DEF Shape, ServerShape
    <2>2. CASE d = c
        BY <1>2, <1>4, <1>7, <2>1, <2>2 DEF Shape, ServerShape
    <2>3. CASE d # c
        BY <1>4, <2>1, <2>3 DEF Queued, Shape, ServerShape
    <2> QED BY <2>2, <2>3
<1> QED BY <1>4, <1>8 DEF Queued

LEMMA QueuedNext == Shape /\ Queued /\ [Next]_vars => Queued'
PROOF
<1> SUFFICES ASSUME Shape, Queued, [Next]_vars PROVE Queued'
    OBVIOUS
<1>1. CASE \/ Open \/ Push \/ OpenReturns \/ PushReturns \/ PullReturns \/ CallRejected
           \/ PullPending \/ Pull \/ CallFails \/ PullCut \/ UNCHANGED vars
    <2>1. UNCHANGED <<conns, outbox>>
        BY <1>1 DEF Open, Push, OpenReturns, PushReturns, PullReturns, CallRejected, PullPending, Pull,
                    CallFails, PullCut, PullTakes, Returns, server, vars
    <2> QED BY <2>1 DEF Queued
<1>2. CASE Restart
    <2>1. DOMAIN conns' = {}
        BY <1>2 DEF Restart
    <2> QED BY <2>1 DEF Queued
<1>3. ASSUME NEW h, HandlerStep(h) PROVE Queued'
    BY <1>3, HandlerServed DEF Queued
<1> QED BY <1>1, <1>2, <1>3, ServeSplit, QueuedServe, QueuedQueue DEF Next, ClientStep, ServerStep, Fault

(* A pull is answered with what the outbox of the client's session held.   *)
LEMMA PolledServe ==
    ASSUME Shape, Queued, Polled, NEW r, NEW answer, Serve(r, answer),
           Streams \subseteq Streams', Streams' \in SUBSET Nat
    PROVE  Polled'
PROOF
<1>1. UNCHANGED <<client, restarts, pending>>
    BY DEF Serve, returned
<1>2. CASE call' = call
    BY <1>1, <1>2, NumberedMore DEF Polled, Polling
<1>3. ASSUME NEW response, answer = TRUE, Respond(answer, response)
      PROVE  /\ call.at = "sent" /\ r = call.request
             /\ call'.at = "answered" /\ call'.request = r /\ call'.response = response
    <2>1. /\ call.at = "sent" /\ r = call.request
          /\ call' = [at |-> "answered", request |-> r, response |-> response]
        BY <1>3, ServedRequest DEF Serve
    <2> QED BY <2>1
<1>4. CASE answer = TRUE /\ r.kind # "pull"
    <2>1. CASE \E response : Respond(answer, response)
        BY <1>3, <1>4, <2>1 DEF Polled, Polling
    <2>2. CASE r.kind = "push" /\ HandlePush(r, answer)
        <3>1. \/ Respond(answer, [status |-> "ok"])
              \/ call' = Reply(r)
            BY <1>4, <2>2, PushServed DEF Serve
        <3>2. Reply(r).request.kind = "push"
            BY <2>2 DEF Reply
        <3> QED BY <2>1, <3>1, <3>2 DEF Polled, Polling
    <2> QED BY <1>4, <2>1, <2>2 DEF Serve, Handle, HandleOpen, NotFound, HandlePull
<1>5. CASE answer = TRUE /\ r.kind = "pull" /\ NotFound(r, answer)
    <2>1. PICK response : response = [status |-> "notFound"]
        OBVIOUS
    <2>2. Respond(answer, response) /\ response.status = "notFound"
        BY <1>5, <2>1 DEF NotFound
    <2> QED BY <1>1, <1>3, <1>5, <2>2 DEF Polled, Polling
<1>6. CASE answer = TRUE /\ r.kind = "pull" /\ r.conn \in DOMAIN conns /\ HandlePull(r, answer)
    <2>1. PICK response : response = [status |-> "ok", frames |-> outbox[r.conn]]
        OBVIOUS
    <2>2. Respond(answer, response) /\ response.frames = outbox[r.conn] /\ UNCHANGED conns
        BY <1>6, <2>1 DEF HandlePull
    <2>3. r = call.request /\ call.at = "sent" /\ call'.response = response /\ call'.request = r
        BY <1>3, <1>6, <2>2
    <2>4. r.conn = client.conn /\ client.conn # NoConn
        BY <1>6, <2>3 DEF Shape, CallShape
    <2>5. {conns[r.conn].stream} \subseteq Streams'
        <3>1. conns[r.conn].stream \in 1 .. born
            BY <1>6 DEF Shape, ServerShape
        <3>2. restarts \in Nat
            BY DEF Shape, ServerShape
        <3> QED BY <1>1, <2>2, <2>4, <3>1, <3>2 DEF Streams
    <2>6. Numbered(outbox[r.conn], Streams')
        <3>1. Numbered(outbox[r.conn], {conns[r.conn].stream})
            BY <1>6 DEF Queued
        <3> QED BY <2>5, <3>1, NumberedMore
    <2> QED BY <1>1, <1>6, <2>2, <2>3, <2>6 DEF Polled, Polling
<1>7. answer = TRUE \/ call' = call
    <2>1. \/ answer = TRUE \/ answer = FALSE
        BY DEF Serve
    <2>2. ASSUME answer = FALSE PROVE call' = call
        BY <2>2 DEF Serve, Handle, HandleOpen, NotFound, HandlePush, HandlePull, Respond
    <2> QED BY <2>1, <2>2
<1> QED BY <1>2, <1>4, <1>5, <1>6, <1>7 DEF Serve, Handle

LEMMA PolledNext ==
    ASSUME Shape, Queued, Polled, [Next]_vars,
           Streams \subseteq Streams', Streams' \in SUBSET Nat
    PROVE  Polled'
PROOF
<1>1. CASE OpenReturns \/ PushReturns \/ PullReturns \/ CallRejected \/ CallFails \/ PullCut
    <2>1. call' = NoCall
        <3>1. CASE OpenReturns \/ PushReturns \/ CallRejected
            BY <3>1 DEF OpenReturns, PushReturns, CallRejected, Returns
        <3>2. CASE PullReturns \/ PullCut \/ CallFails
            BY <3>2 DEF PullReturns, PullCut, PullTakes, CallFails
        <3> QED BY <1>1, <3>1, <3>2
    <2>2. call'.at = "idle"
        BY <2>1 DEF NoCall
    <2> QED BY <2>2 DEF Polled, Polling
<1>2. CASE Open \/ Push
    <2>1. call'.at = "sent" /\ call'.request.kind # "pull"
        BY <1>2 DEF Open, Push, Send
    <2> QED BY <2>1 DEF Polled, Polling
<1>3. CASE Pull
    <2>1. call'.at = "sent" /\ pending = << >> /\ UNCHANGED pending
        BY <1>3 DEF Pull, Send, returned
    <2> QED BY <2>1 DEF Polled
<1>4. CASE PullPending
    <2>1. call' = call /\ call.at = "idle"
        BY <1>4 DEF PullPending, NoCall
    <2> QED BY <2>1 DEF Polled, Polling
<1>5. CASE Restart \/ UNCHANGED vars \/ \E c \in DOMAIN conns : QueueOutgoing(c)
    <2>1. UNCHANGED pending /\ (call' = call \/ call'.at = "idle")
        <3>1. CASE Restart
            <4>1. UNCHANGED pending /\ call' = IF call.at = "handled" THEN NoCall ELSE call
                BY <3>1 DEF Restart, returned
            <4> QED BY <4>1 DEF NoCall
        <3>2. CASE ~Restart
            BY <1>5, <3>2 DEF QueueOutgoing, returned, vars
        <3> QED BY <3>1, <3>2
    <2> QED BY <2>1, NumberedMore DEF Polled, Polling
<1>6. ASSUME NEW h, HandlerStep(h) PROVE Polled'
    <2>1. /\ UNCHANGED pending
          /\ \/ call' = call
             \/ call.at = "handled" /\ call.request = h.request /\ call' = Answer(h.request)
        BY <1>6, HandlerServed
    <2>2. Answer(h.request).request = h.request
        BY DEF Answer
    <2>3. call.at = "handled" => call.request.kind = "push"
        BY DEF Shape, CallShape
    <2> QED BY <2>1, <2>2, <2>3, NumberedMore DEF Polled, Polling
<1> QED BY <1>1, <1>2, <1>3, <1>4, <1>5, <1>6, ServeSplit, PolledServe
        DEF Next, ClientStep, ServerStep, Fault

(* A pull, whole or cut, adds to what the client has what the frames it    *)
(* brought make ready.                                                     *)
LEMMA KeptPull ==
    ASSUME Shape, Polled, Kept, PullReturns \/ PullCut,
           Streams \subseteq Streams', Streams' \in SUBSET Nat
    PROVE  Kept'
PROOF
<1>1. PullAnswered /\ Polling /\ call.at = "answered" /\ call.response.status = "ok"
    BY DEF PullReturns, PullCut, PullAnswered, Answered, Polling
<1>2. pending = << >> /\ Numbered(call.response.frames, Streams)
    BY <1>1 DEF Polled
<1>3. PICK F : call.response.frames \in Seq(F)
    BY <1>2 DEF Numbered
<1>f. PICK frames : frames = call.response.frames
    OBVIOUS
<1>4. PICK length \in Nat : frames = call.response.frames /\ length = Len(frames)
    BY <1>3, <1>f
<1>5. PICK missing \in 0 .. length : PullTakes(missing)
    <2>1. CASE PullReturns
        <3>1. 0 \in 0 .. length
            BY <1>4
        <3> QED BY <2>1, <3>1 DEF PullReturns
    <2>2. CASE PullCut
        <3>1. PICK missing \in 1 .. length : PullTakes(missing)
            BY <1>4, <2>2 DEF PullCut
        <3> QED BY <3>1
    <2> QED BY <2>1, <2>2
<1>6. PICK taken : taken = SubSeq(frames, 1, length - missing)
    OBVIOUS
<1>7. PICK result : /\ result = Absorbed(taken)
                    /\ client' = [client EXCEPT !.buffer = result.buffer]
                    /\ Hand(result.ready)
    BY <1>4, <1>5, <1>6 DEF PullTakes
<1>8. PICK S \in SUBSET Nat : S = Streams
    OBVIOUS
<1>9. Numbered(taken, S)
    <2>1. length - missing \in 0 .. length
        OBVIOUS
    <2> QED BY <1>2, <1>4, <1>6, <1>8, <2>1, NumberedPart
<1>10. received \in Seq(Chunk) /\ received \o pending = received /\ Fits(client.buffer, S, received)
    BY <1>2, <1>8 DEF Kept
<1>11. PICK buffer, ready : buffer = result.buffer /\ ready = result.ready
    OBVIOUS
<1>12. Fits(buffer, S, received \o ready) /\ ready \in Seq(Chunk)
    BY <1>7, <1>9, <1>10, <1>11, AbsorbedFits
<1>13. client'.buffer = buffer
    BY <1>7, <1>11 DEF Shape, ClientShape, IsClient
<1>14. Fits(buffer, Streams', received \o ready)
    BY <1>8, <1>12, FitsMore
<1>15. CASE ready = << >>
    <2>1. UNCHANGED <<pending, received>> /\ received \o ready = received
        BY <1>7, <1>10, <1>11, <1>15 DEF Hand, returned
    <2> QED BY <1>2, <1>10, <1>13, <1>14, <2>1 DEF Kept
<1>16. CASE ready # << >>
    <2>1. received' = Append(received, Head(ready)) /\ pending' = Tail(ready)
        BY <1>7, <1>11, <1>16 DEF Hand
    <2>2. /\ Append(received, Head(ready)) \in Seq(Chunk) /\ Tail(ready) \in Seq(Chunk)
          /\ Append(received, Head(ready)) \o Tail(ready) = received \o ready
        BY <1>10, <1>12, <1>16, HandedOn
    <2> QED BY <1>13, <1>14, <2>1, <2>2 DEF Kept
<1> QED BY <1>15, <1>16

LEMMA KeptNext ==
    ASSUME Shape, Polled, Kept, [Next]_vars,
           Streams \subseteq Streams', Streams' \in SUBSET Nat
    PROVE  Kept'
PROOF
<1>1. CASE PullReturns \/ PullCut
    BY <1>1, KeptPull
<1>2. CASE ~(PullReturns \/ PullCut)
    <2>1. client'.buffer = client.buffer
        BY <1>2, ClientKeeps
    <2>2. received' \in Seq(Chunk) /\ pending' \in Seq(Chunk) /\ received' \o pending' = received \o pending
        <3>1. CASE PullPending
            <4>1. received' = Append(received, Head(pending)) /\ pending' = Tail(pending)
                BY <3>1 DEF PullPending, Hand
            <4>2. pending # << >> /\ received \in Seq(Chunk) /\ pending \in Seq(Chunk)
                BY <3>1 DEF PullPending, Kept
            <4> QED BY <4>1, <4>2, HandedOn
        <3>2. CASE ~PullPending
            <4>1. UNCHANGED <<pending, received>>
                BY <1>2, <3>2 DEF Next, ClientStep, ServerStep, Fault, Open, Push, Pull, OpenReturns,
                      PushReturns, CallRejected, ServeCall, ServeStray, HandlerStep, QueueOutgoing,
                      CallFails, Restart, returned, vars
            <4> QED BY <4>1 DEF Kept
        <3> QED BY <3>1, <3>2
    <2>3. PICK S \in SUBSET Nat, T \in SUBSET Nat : S = Streams /\ T = Streams' /\ S \subseteq T
        OBVIOUS
    <2>4. PICK got : got = received \o pending
        OBVIOUS
    <2>5. Fits(client.buffer, S, got)
        BY <2>3, <2>4 DEF Kept
    <2>6. Fits(client.buffer, T, got)
        BY <2>3, <2>5, FitsMore
    <2> QED BY <2>1, <2>2, <2>3, <2>4, <2>6 DEF Kept
<1> QED BY <1>1, <1>2

LEMMA DownloadedNext ==
    Shape /\ Shape' /\ Agreement /\ Agreement' /\ Downloaded /\ [Next]_vars => Downloaded'
PROOF
<1> SUFFICES ASSUME Shape, Shape', Agreement, Agreement', Downloaded, [Next]_vars PROVE Downloaded'
    OBVIOUS
<1>1. Streams \subseteq Streams' /\ Streams' \in SUBSET Nat
    BY StreamsGrow
<1> QED BY <1>1, QueuedNext, PolledNext, KeptNext DEF Downloaded

LEMMA DownloadedInvariance == Spec => []Downloaded
PROOF BY ShapeInvariance, AgreementInvariance, DownloadedInit, DownloadedNext, PTL DEF Spec

(* What PullOne has returned and holds has no gap and no repetition, with  *)
(* any loss and any reconnects, and is one session's unless the server has *)
(* restarted (client.go:192-209, bridge.go:113-131).                       *)
THEOREM ReceivesInOrder == Spec => []ReceivedInOrder
PROOF
<1>1. Shape /\ Agreement /\ Downloaded => ReceivedInOrder
    <2> SUFFICES ASSUME Shape, Agreement, Downloaded PROVE ReceivedInOrder
        OBVIOUS
    <2>1. PICK got : got = received \o pending
        OBVIOUS
    <2>2. PICK S \in SUBSET Nat : S = Streams
        BY StreamsNat
    <2>3. Fits(client.buffer, S, got) /\ got \in Seq(Chunk)
        BY <2>1, <2>2 DEF Downloaded, Kept, Fits
    <2>4. \A i \in DOMAIN got : got[i].position = i - 1 /\ got[i].stream \in S
        BY <2>3, FitsOrdered
    <2>5. restarts = 0 => \A s, t \in S : s = t
        BY <2>2 DEF Streams
    <2>6. \A i \in DOMAIN got : 1 \in DOMAIN got
        BY <2>3
    <2> QED BY <2>1, <2>4, <2>5, <2>6 DEF ReceivedInOrder
<1> QED BY <1>1, ShapeInvariance, AgreementInvariance, DownloadedInvariance, PTL

-----------------------------------------------------------------------------
(* Nothing lost.  Without a fault there is no stray request, the only      *)
(* handler is that of the push in progress, the server knows the session,  *)
(* and a payload is acknowledged or in the push that is on its way; before *)
(* the first reconnect every frame on the way down can be read with the    *)
(* client's key, and a chunk is in the client's buffer, in the response on *)
(* its way or still in the outbox.                                         *)
SequencesOf(frames) == {Plaintext(frames[i]).sequence : i \in DOMAIN frames}

Readable(frames, key, c) == \A i \in DOMAIN frames : DataFrameDecodes(key, c, frames[i])

Brought ==
    IF Polling /\ call.at = "answered" /\ call.response.status = "ok"
    THEN call.response.frames ELSE << >>

Undisturbed ==
    /\ failures \in Nat
    /\ failures = 0 =>
          /\ stray = {} /\ ~lostOpen
          /\ \A h \in handlers : call.at = "handled" /\ call.request = h.request
          /\ \A g, h \in handlers : g = h
    /\ Faultless => ~crossed

OnItsWayUp == IF Pushing THEN {Plaintext(call.request.wire).payload} ELSE {}

AllAcked ==
    Faultless =>
        /\ call.at = "answered" => call.response.status = "ok"
        /\ 0 .. client.sendSequence - 1 \subseteq acked \cup OnItsWayUp

Holds(c) == Given(client.buffer) \cup SequencesOf(Brought) \cup SequencesOf(outbox[c])

AllHeld ==
    Calm =>
        /\ Readable(Brought, client.key, client.conn)
        /\ \A c \in DOMAIN conns :
              /\ Readable(outbox[c], conns[c].key, c)
              /\ 0 .. conns[c].sendSequence - 1 \subseteq Holds(c)

LEMMA NothingLostInit == Init => Undisturbed /\ AllAcked /\ AllHeld
PROOF
<1> SUFFICES ASSUME Init PROVE Undisturbed /\ AllAcked /\ AllHeld
    OBVIOUS
<1>1. /\ failures = 0 /\ stray = {} /\ lostOpen = FALSE /\ DOMAIN conns = {}
      /\ handlers = {} /\ crossed = FALSE /\ call.at = "idle" /\ client.sendSequence = 0
    BY DEF Init, NoCall
<1>2. Brought = << >> /\ DOMAIN << >> = {}
    BY <1>1 DEF Brought, Polling
<1> QED BY <1>1, <1>2 DEF Undisturbed, AllAcked, AllHeld, Readable

(* A served push has the only handler there is.                            *)
LEMMA UndisturbedServe ==
    ASSUME Shape, Undisturbed, NEW r, NEW answer, Serve(r, answer)
    PROVE  Undisturbed'
PROOF
<1>1. stray' \subseteq stray /\ UNCHANGED <<failures, restarts, lostOpen>>
    BY DEF Serve
<1>2. UNCHANGED crossed
    BY DEF Serve, Handle, HandleOpen, NotFound, HandlePush, HandlePull, server
<1>3. ASSUME failures = 0
      PROVE  /\ \A h \in handlers' : call'.at = "handled" /\ call'.request = h.request
             /\ \A g, h \in handlers' : g = h
    <2>1. answer = TRUE /\ call.at = "sent" /\ r = call.request /\ handlers = {}
        BY <1>3 DEF Serve, Undisturbed
    <2>2. CASE handlers' = {}
        BY <2>2
    <2>3. CASE r.kind = "push" /\ HandlePush(r, answer) /\ UNCHANGED handlers
        BY <2>1, <2>3
    <2>4. CASE r.kind = "push" /\ HandlePush(r, answer) /\ ~UNCHANGED handlers
        <3>1. handlers' = {[request |-> r, at |-> "decoded"]}
            BY <2>1, <2>4 DEF HandlePush
        <3>2. call' = Reply(r)
            BY <2>1, <2>4 DEF HandlePush, Reply
        <3>3. Reply(r).at = "handled" /\ Reply(r).request = r
            BY DEF Reply
        <3> QED BY <3>1, <3>2, <3>3
    <2>5. CASE HandleOpen(r, answer) \/ NotFound(r, answer) \/ HandlePull(r, answer)
        BY <2>1, <2>5 DEF HandleOpen, NotFound, HandlePull, server
    <2> QED BY <2>2, <2>3, <2>4, <2>5 DEF Serve, Handle
<1> QED BY <1>1, <1>2, <1>3 DEF Undisturbed, Faultless

(* The handler of a push in progress has the session's key.                *)
LEMMA UndisturbedHandler ==
    ASSUME Shape, Agreement, Passed, Undisturbed, NEW h, HandlerStep(h)
    PROVE  Undisturbed'
PROOF
<1>1. /\ h \in handlers /\ UNCHANGED <<stray, failures, restarts, lostOpen>>
      /\ handlers' \subseteq (handlers \ {h}) \cup {[request |-> h.request, at |-> "accepted"]}
      /\ \/ call' = call
         \/ call.at = "handled" /\ call.request = h.request /\ handlers' = handlers \ {h}
    BY HandlerServed
<1>2. ASSUME failures = 0
      PROVE  /\ \A g \in handlers' : call'.at = "handled" /\ call'.request = g.request
             /\ \A f, g \in handlers' : f = g
    <2>1. handlers \ {h} = {} /\ call.at = "handled" /\ call.request = h.request
        BY <1>1, <1>2 DEF Undisturbed
    <2> QED BY <1>1, <2>1
<1>3. ASSUME Faultless PROVE ~crossed'
    <2>1. ~crossed /\ ~lostOpen /\ call.at = "handled" /\ call.request = h.request
        BY <1>1, <1>3 DEF Undisturbed, Faultless
    <2>2. Pushing /\ ~Opening /\ h.request.conn = client.conn /\ client.conn # NoConn
        BY <2>1 DEF Shape, CallShape, Pushing, Opening
    <2>3. h.request.wire.sealed.key = conns[h.request.conn].key
        BY <1>3, <2>1, <2>2 DEF Agreement, Agreed, Passed, Framed, Faultless
    <2> QED BY <2>1, <2>3 DEF HandlerStep, HandlerChecks, HandlerInserts
<1> QED BY <1>1, <1>2, <1>3 DEF Undisturbed, Faultless

(* What a step may do to the history of faults.                            *)
LEMMA UndisturbedNext ==
    Shape /\ Agreement /\ Passed /\ Undisturbed /\ [Next]_vars => Undisturbed'
PROOF
<1> SUFFICES ASSUME Shape, Agreement, Passed, Undisturbed, [Next]_vars PROVE Undisturbed'
    OBVIOUS
<1>1. CASE CallFails \/ PullCut
    <2>1. failures' = failures + 1
        BY <1>1 DEF CallFails, PullCut
    <2> QED BY <2>1 DEF Undisturbed, Faultless
<1>2. ASSUME NEW r, NEW answer, Serve(r, answer) PROVE Undisturbed'
    BY <1>2, UndisturbedServe
<1>3. CASE Open \/ Push \/ OpenReturns \/ PushReturns \/ PullReturns \/ CallRejected \/ Pull
    <2>1. UNCHANGED <<stray, failures, restarts, lostOpen, handlers, crossed>>
        BY <1>3 DEF Open, Push, OpenReturns, PushReturns, PullReturns, CallRejected, Pull,
                    PullTakes, Returns, server
    <2>2. call.at # "handled"
        BY <1>3 DEF Open, Push, OpenReturns, PushReturns, PullReturns, PullAnswered, Answered,
                    CallRejected, Pull, NoCall
    <2> QED BY <2>1, <2>2 DEF Undisturbed, Faultless
<1>4. CASE PullPending \/ UNCHANGED vars \/ \E c \in DOMAIN conns : QueueOutgoing(c)
    <2>1. UNCHANGED <<call, stray, failures, restarts, lostOpen, handlers, crossed>>
        BY <1>4 DEF PullPending, QueueOutgoing, server, vars
    <2> QED BY <2>1 DEF Undisturbed, Faultless
<1>5. CASE Restart
    <2>1. UNCHANGED <<stray, failures, lostOpen>> /\ handlers' = {} /\ restarts' # 0
        BY <1>5 DEF Restart, Shape, ServerShape
    <2> QED BY <2>1 DEF Undisturbed, Faultless
<1>6. ASSUME NEW h, HandlerStep(h) PROVE Undisturbed'
    BY <1>6, UndisturbedHandler
<1> QED BY <1>1, <1>2, <1>3, <1>4, <1>5, <1>6, ServeSplit DEF Next, ClientStep, ServerStep, Fault

LEMMA AllAckedServe ==
    ASSUME Shape, Agreement, Undisturbed, AllAcked, NEW r, NEW answer, Serve(r, answer), Faultless
    PROVE  AllAcked'
PROOF
<1>1. UNCHANGED <<client, failures, restarts, acked>> /\ answer = TRUE
    BY DEF Serve, Undisturbed, Faultless
<1>2. call.at = "sent" /\ r = call.request
    BY <1>1 DEF Serve
<1>3. r.kind # "open" => r.conn \in DOMAIN conns
    <2>1. r.kind # "open" => r.conn = client.conn /\ client.conn # NoConn
        BY <1>2 DEF Shape, CallShape
    <2> QED BY <2>1 DEF Agreement, Present, Faultless
<1>4. ASSUME NEW response, Respond(answer, response), response.status = "ok"
      PROVE  call'.at = "answered" /\ call'.request = r /\ call'.response.status = "ok"
    <2>1. call' = [at |-> "answered", request |-> r, response |-> response]
        BY <1>1, <1>2, <1>4 DEF Respond
    <2> QED BY <1>4, <2>1
<1>5. /\ call'.at \in {"handled", "answered"} /\ call'.request = r
      /\ call'.at = "answered" => call'.response.status = "ok"
    <2>1. CASE r.kind = "open" /\ HandleOpen(r, answer)
        <3>1. PICK id, known : Respond(answer, [status |-> "ok", conn |-> id, keyConfirmed |-> known])
            BY <2>1 DEF HandleOpen
        <3>2. PICK response : response = [status |-> "ok", conn |-> id, keyConfirmed |-> known]
            OBVIOUS
        <3> QED BY <1>4, <3>1, <3>2
    <2>2. CASE r.conn \in DOMAIN conns /\ HandlePush(r, answer)
        <3>1. PICK response : response = [status |-> "ok"]
            OBVIOUS
        <3>2. \/ Respond(answer, response)
              \/ call' = Reply(r)
            BY <1>1, <2>2, <3>1 DEF HandlePush, Reply
        <3>3. Reply(r).at = "handled" /\ Reply(r).request = r
            BY DEF Reply
        <3> QED BY <1>4, <3>1, <3>2, <3>3
    <2>3. CASE HandlePull(r, answer)
        <3>1. PICK response : response = [status |-> "ok", frames |-> outbox[r.conn]]
            OBVIOUS
        <3>2. Respond(answer, response) /\ response.status = "ok"
            BY <2>3, <3>1 DEF HandlePull
        <3> QED BY <1>4, <3>2
    <2> QED BY <1>3, <2>1, <2>2, <2>3 DEF Serve, Handle
<1>7. OnItsWayUp' = OnItsWayUp
    BY <1>2, <1>5 DEF OnItsWayUp, Pushing
<1> QED BY <1>1, <1>5, <1>7 DEF AllAcked, Faultless

LEMMA AllAckedNext ==
    Shape /\ Agreement /\ Undisturbed /\ AllAcked /\ [Next]_vars => AllAcked'
PROOF
<1> SUFFICES ASSUME Shape, Agreement, Undisturbed, AllAcked, [Next]_vars, Faultless'
             PROVE  AllAcked'
    BY DEF AllAcked
<1>0. IsClient(client)
    BY DEF Shape, ClientShape
<1>1. CASE CallFails \/ PullCut
    <2>1. failures' = failures + 1
        BY <1>1 DEF CallFails, PullCut
    <2> QED BY <2>1 DEF Undisturbed, Faultless
<1>2. CASE Restart
    BY <1>2 DEF Restart, Faultless, Shape, ServerShape
<1>3. CASE Open \/ Pull
    <2>1. /\ UNCHANGED <<acked, failures, restarts>> /\ call = NoCall /\ call'.at = "sent"
          /\ call'.request.kind # "push"
        BY <1>3 DEF Open, Pull, Send, server
    <2>2. client'.sendSequence = client.sendSequence
        BY <1>0, <1>3 DEF Open, Pull, GraceStarted, IsClient
    <2>3. OnItsWayUp = {} /\ OnItsWayUp' = {}
        BY <2>1 DEF OnItsWayUp, Pushing, NoCall
    <2> QED BY <2>1, <2>2, <2>3 DEF AllAcked, Faultless
<1>4. CASE Push
    <2>1. PICK n \in Nat : n = client.sendSequence
        BY ChannelAssumption DEF Shape, ClientShape
    <2>2. /\ UNCHANGED <<acked, failures, restarts>> /\ call = NoCall /\ client' = Counted(client)
          /\ call' = [at |-> "sent", request |-> [kind |-> "push", conn |-> client.conn,
                                                  wire |-> Encoded(client, client.conn, n)]]
        BY <1>4, <2>1 DEF Push, Send
    <2>3. client'.sendSequence = n + 1
        BY <1>0, <2>1, <2>2 DEF Counted, IsClient
    <2>4. OnItsWayUp = {} /\ OnItsWayUp' = {n} /\ call'.at = "sent"
        BY <2>2 DEF OnItsWayUp, Pushing, NoCall, Encoded, EncodeDataFrame, Seal, Plaintext
    <2> QED BY <2>1, <2>2, <2>3, <2>4 DEF AllAcked, Faultless
<1>5. CASE OpenReturns \/ PullReturns \/ CallRejected
    <2>1. /\ UNCHANGED <<acked, failures, restarts>> /\ call' = NoCall
          /\ Faultless => call.request.kind # "push"
        BY <1>5 DEF OpenReturns, PullReturns, CallRejected, PullAnswered, PullTakes, Answered,
                    Returns, AllAcked
    <2>2. client'.sendSequence = client.sendSequence
        BY <1>0, <1>5, SendsOnly DEF OpenReturns, PullReturns, PullTakes, CallRejected, IsClient
    <2>3. OnItsWayUp' = {} /\ call'.at = "idle" /\ (Faultless => OnItsWayUp = {})
        BY <2>1 DEF OnItsWayUp, Pushing, NoCall
    <2> QED BY <2>1, <2>2, <2>3 DEF AllAcked, Faultless
<1>6. CASE PushReturns
    <2>1. /\ UNCHANGED <<failures, restarts>> /\ call' = NoCall
          /\ acked' = acked \cup {Plaintext(call.request.wire).payload}
        BY <1>6 DEF PushReturns, Returns
    <2>2. client'.sendSequence = client.sendSequence
        <3>1. CASE ShouldSendRedundant
            <4>1. PICK n : client' = [client EXCEPT !.redundantSent = n]
                BY <1>6, <3>1 DEF PushReturns
            <4> QED BY <1>0, <4>1 DEF IsClient
        <3> QED BY <1>6, <3>1 DEF PushReturns
    <2>3. OnItsWayUp \subseteq {Plaintext(call.request.wire).payload} /\ call'.at = "idle"
        BY <2>1 DEF OnItsWayUp, NoCall
    <2> QED BY <2>1, <2>2, <2>3 DEF AllAcked, Faultless
<1>7. CASE PullPending \/ UNCHANGED vars \/ \E c \in DOMAIN conns : QueueOutgoing(c)
    <2>1. UNCHANGED <<client, call, acked, failures, restarts>>
        BY <1>7 DEF PullPending, QueueOutgoing, vars
    <2> QED BY <2>1 DEF AllAcked, Faultless, OnItsWayUp, Pushing
<1>8. ASSUME NEW r, NEW answer, Serve(r, answer) PROVE AllAcked'
    <2>1. UNCHANGED <<failures, restarts>>
        BY <1>8 DEF Serve
    <2> QED BY <1>8, <2>1, AllAckedServe DEF Faultless
<1>9. ASSUME NEW h, HandlerStep(h) PROVE AllAcked'
    <2>1. /\ UNCHANGED <<client, failures, restarts, acked>>
          /\ \/ call' = call
             \/ call.at = "handled" /\ call.request = h.request /\ call' = Answer(h.request)
        BY <1>9, HandlerServed
    <2>2. \/ call' = call
          \/ /\ call.at = "handled" /\ call'.at = "answered" /\ call'.request = call.request
             /\ call'.response.status = "ok"
        BY <2>1 DEF Answer
    <2>3. OnItsWayUp' = OnItsWayUp
        BY <2>2 DEF OnItsWayUp, Pushing
    <2> QED BY <2>1, <2>2, <2>3 DEF AllAcked, Faultless
<1> QED BY <1>1, <1>2, <1>3, <1>4, <1>5, <1>6, <1>7, <1>8, <1>9, ServeSplit
        DEF Next, ClientStep, ServerStep, Fault

(* Taking frames in adds their numbers to what the buffer was given.       *)
LEMMA AbsorbGives ==
    ASSUME NEW S \in SUBSET Nat, NEW got, NEW frames, Numbered(frames, S),
           NEW before, Fits(before.buffer, S, got), NEW i \in DOMAIN frames,
           DataFrameDecodes(client.key, client.conn, frames[i])
    PROVE  /\ Given(before.buffer) \subseteq Given(Absorb(before, frames[i]).buffer)
           /\ Plaintext(frames[i]).sequence \in Given(Absorb(before, frames[i]).buffer)
PROOF
<1> USE ChannelAssumption
<1>1. PICK n \in 0 .. MaxChunks - 1 : n = Plaintext(frames[i]).sequence
    BY DEF Numbered
<1>2. PICK slots, length : slots = Chunks(S) /\ length = MaxChunks
    OBVIOUS
<1>3. PICK p \in slots[n] : p = Plaintext(frames[i]).payload
    BY <1>1, <1>2 DEF Numbered
<1>4. PICK b : b = before.buffer
    OBVIOUS
<1>5. Value!Filled(b, length, slots, got) /\ length \in Nat /\ length < SeqSpace
    BY <1>2, <1>4 DEF Fits
<1>6. Value!Given(Value!Insert(b, n, p).buffer) = Value!Given(b) \cup {n}
    BY <1>1, <1>2, <1>3, <1>5, Value!InsertGives, ValueAssumptions
    DEF Value!Stream, Value!InOrder!Stream
<1>7. PICK result : result = Insert(b, n, p)
    OBVIOUS
<1>8. Absorb(before, frames[i]).buffer = result.buffer
    BY <1>1, <1>3, <1>4, <1>7 DEF Absorb, Received
<1> QED BY <1>1, <1>4, <1>6, <1>7, <1>8, SameInsert DEF Given

LEMMA AbsorbedGives ==
    ASSUME NEW S \in SUBSET Nat, NEW got, Fits(client.buffer, S, got),
           NEW frames, Numbered(frames, S), Readable(frames, client.key, client.conn)
    PROVE  Given(client.buffer) \cup SequencesOf(frames) \subseteq Given(Absorbed(frames).buffer)
PROOF
<1>1. PICK F : frames \in Seq(F)
    BY DEF Numbered
<1>2. PICK length \in Nat : length = Len(frames) /\ DOMAIN frames = 1 .. length
    BY <1>1
<1>3. PICK f : /\ TakesIn(f, [buffer |-> client.buffer, ready |-> << >>], frames, length)
               /\ Absorbed(frames) = f[length]
    BY <1>2, AbsorbedTakesIn
<1>4. got \in Seq(Chunk)
    BY DEF Fits
<1> DEFINE Fit(e) == Fits(e.buffer, S, got \o e.ready) /\ e.ready \in Seq(Chunk)
<1> DEFINE Good(k) == /\ Fit(f[k])
                      /\ Given(client.buffer) \subseteq Given(f[k].buffer)
                      /\ \A i \in 1 .. k : Plaintext(frames[i]).sequence \in Given(f[k].buffer)
<1> DEFINE Bad == {k \in 0 .. length : ~Good(k)}
<1>5. Good(0)
    <2>1. f[0].buffer = client.buffer /\ f[0].ready = << >>
        BY <1>3 DEF TakesIn
    <2>2. got \o << >> = got /\ << >> \in Seq(Chunk)
        BY <1>4
    <2> QED BY <2>1, <2>2
<1>6. ASSUME NEW k \in 1 .. length, Good(k - 1) PROVE Good(k)
    <2>1. f[k] = Absorb(f[k - 1], frames[k]) /\ k \in DOMAIN frames
        BY <1>2, <1>3 DEF TakesIn
    <2>2. PICK before, after : before = f[k - 1] /\ after = f[k]
        OBVIOUS
    <2>3. Fit(before)
        BY <1>6, <2>2
    <2>4. Fit(after)
        BY <1>4, <2>1, <2>2, <2>3, AbsorbFits
    <2>5. DataFrameDecodes(client.key, client.conn, frames[k])
        BY <2>1 DEF Readable
    <2>6. /\ Given(before.buffer) \subseteq Given(after.buffer)
          /\ Plaintext(frames[k]).sequence \in Given(after.buffer)
        <3>1. PICK whole : whole = got \o before.ready
            OBVIOUS
        <3>2. Fits(before.buffer, S, whole)
            BY <2>3, <3>1
        <3>3. /\ Given(before.buffer) \subseteq Given(Absorb(before, frames[k]).buffer)
              /\ Plaintext(frames[k]).sequence \in Given(Absorb(before, frames[k]).buffer)
            BY <2>1, <2>5, <3>2, AbsorbGives
        <3>4. after = Absorb(before, frames[k])
            BY <2>1, <2>2
        <3> QED BY <3>3, <3>4
    <2>7. ASSUME NEW i \in 1 .. k PROVE Plaintext(frames[i]).sequence \in Given(after.buffer)
        <3>1. i = k \/ i \in 1 .. k - 1
            OBVIOUS
        <3> QED BY <1>6, <2>2, <2>6, <3>1
    <2> QED BY <1>6, <2>2, <2>4, <2>6, <2>7
<1> HIDE DEF Good
<1>7. ASSUME Bad # {} PROVE FALSE
    <2>1. Bad \in SUBSET Nat
        OBVIOUS
    <2>2. PICK k \in Bad : \A j \in Bad : k <= j
        BY <1>7, <2>1, Value!LeastNat, ValueAssumptions DEF Value!Stream, Value!InOrder!Stream
    <2>3. k \in 1 .. length /\ k - 1 \notin Bad /\ k - 1 \in 0 .. length
        BY <1>5, <2>2
    <2>4. Good(k)
        BY <1>6, <2>3
    <2> QED BY <2>2, <2>4
<1>8. Good(length)
    BY <1>7
<1> QED BY <1>2, <1>3, <1>8 DEF Good, SequencesOf

(* A step that leaves the server and the client's buffer alone and does    *)
(* not cross with a pull's response.                                       *)
LEMMA AllHeldSame ==
    ASSUME AllHeld, Calm, UNCHANGED <<conns, outbox>>, client'.buffer = client.buffer,
           Brought = << >>, Brought' = << >>
    PROVE  AllHeld'
PROOF
<1>1. Readable(<< >>, client'.key, client'.conn)
    BY DEF Readable
<1>2. \A c \in DOMAIN conns : Holds(c)' = Holds(c)
    BY DEF Holds
<1> QED BY <1>1, <1>2 DEF AllHeld

LEMMA AllHeldQueue ==
    ASSUME Shape, Queued, AllHeld, Calm, NEW c \in DOMAIN conns, QueueOutgoing(c)
    PROVE  AllHeld'
PROOF
<1>1. PICK n \in Nat : n = conns[c].sendSequence
    BY ChannelAssumption DEF Shape, ServerShape
<1>2. PICK frame : frame = Encoded(conns[c], c, [stream |-> conns[c].stream, position |-> n])
    OBVIOUS
<1>3. /\ outbox' = [outbox EXCEPT ![c] = Append(@, frame)]
      /\ conns' = [conns EXCEPT ![c] = Counted(@)]
      /\ UNCHANGED <<client, call, failures, restarts, opens>>
    BY <1>1, <1>2 DEF QueueOutgoing
<1>4. Plaintext(frame).sequence = n /\ DataFrameDecodes(conns[c].key, c, frame)
    BY <1>1, <1>2 DEF Encoded, EncodeDataFrame, DataFrameDecodes, BuildNonce, Opens, Seal, Plaintext
<1>5. Brought' = Brought /\ DOMAIN conns' = DOMAIN conns /\ DOMAIN outbox = DOMAIN conns
    BY <1>3 DEF Brought, Polling, Shape, ServerShape
<1>6. ASSUME NEW d \in DOMAIN conns
      PROVE  /\ Readable(outbox'[d], conns'[d].key, d)
             /\ 0 .. conns'[d].sendSequence - 1 \subseteq Holds(d)'
    <2>1. CASE d # c
        <3>1. outbox'[d] = outbox[d] /\ conns'[d] = conns[d]
            BY <1>3, <1>5, <2>1
        <3>2. Holds(d)' = Holds(d)
            BY <1>3, <1>5, <3>1 DEF Holds
        <3> QED BY <3>1, <3>2 DEF AllHeld
    <2>2. CASE d = c
        <3>1. PICK F : outbox[c] \in Seq(F)
            BY DEF Queued, Numbered
        <3>a. PICK G, old : G = F \cup {frame} /\ old = outbox[c]
            OBVIOUS
        <3>b. PICK new : new = Append(old, frame)
            OBVIOUS
        <3>c. outbox'[c] = new
            BY <1>3, <1>5, <3>a, <3>b
        <3>d. old \in Seq(G) /\ frame \in G
            BY <3>1, <3>a, SeqMonotonic
        <3>e. PICK length \in Nat : length = Len(old) /\ DOMAIN old = 1 .. length
            BY <3>d
        <3>f. /\ new \in Seq(G) /\ Len(new) = length + 1 /\ new[length + 1] = frame
              /\ \A i \in 1 .. length : new[i] = old[i]
            BY <3>b, <3>d, <3>e, AppendProperties
        <3>g. DOMAIN new = 1 .. length + 1
            BY <3>f
        <3>2. /\ old = outbox[c] /\ new = outbox'[c]
              /\ DOMAIN old = 1 .. length /\ DOMAIN new = 1 .. length + 1
              /\ new[length + 1] = frame /\ \A i \in 1 .. length : new[i] = old[i]
            BY <3>a, <3>c, <3>e, <3>f, <3>g
        <3>3. conns'[c].key = conns[c].key /\ conns'[c].sendSequence = n + 1
            BY <1>1, <1>3, CountedFields DEF Shape, ServerShape
        <3>4. Readable(new, conns[c].key, c)
            <4>1. ASSUME NEW i \in DOMAIN new PROVE DataFrameDecodes(conns[c].key, c, new[i])
                <5>1. i = length + 1 \/ i \in 1 .. length
                    BY <3>2
                <5> QED BY <1>4, <3>2, <5>1 DEF AllHeld, Readable
            <4> QED BY <4>1 DEF Readable
        <3>5. SequencesOf(old) \cup {n} \subseteq SequencesOf(new)
            <4>1. n \in SequencesOf(new)
                <5>1. length + 1 \in DOMAIN new
                    BY <3>2
                <5> QED BY <1>4, <3>2, <5>1 DEF SequencesOf
            <4>2. ASSUME NEW i \in DOMAIN old PROVE Plaintext(old[i]).sequence \in SequencesOf(new)
                <5>1. i \in DOMAIN new /\ new[i] = old[i]
                    BY <3>2
                <5> QED BY <5>1 DEF SequencesOf
            <4> QED BY <4>1, <4>2 DEF SequencesOf
        <3>6. Holds(c) \cup {n} \subseteq Holds(c)'
            BY <1>3, <1>5, <3>2, <3>5 DEF Holds
        <3>7. \A k \in 0 .. n : k = n \/ k \in 0 .. n - 1
            OBVIOUS
        <3> QED BY <1>1, <2>2, <3>2, <3>3, <3>4, <3>6, <3>7 DEF AllHeld
    <2> QED BY <2>1, <2>2
<1> QED BY <1>3, <1>5, <1>6 DEF AllHeld

(* With one handshake begun and that one to be served, there is no session *)
(* yet.                                                                    *)
LEMMA NoneBorn ==
    ASSUME NEW b, NEW o, NEW R, Outstanding(b, o, R), o <= 1,
           NEW r \in R, r.kind = "open"
    PROVE  b = 0
PROOF
<1>1. IsFiniteSet(Ephemerals(R)) /\ Cardinality(Ephemerals(R)) \in Nat
    BY OutstandingBounds
<1>2. r.wire.ephemeral \in Ephemerals(R)
    BY DEF Ephemerals
<1>3. Cardinality(Ephemerals(R)) # 0
    BY <1>1, <1>2, FS_EmptySet
<1>4. b \in Nat /\ o \in Int /\ b + Cardinality(Ephemerals(R)) <= o
    BY ChannelAssumption DEF Outstanding
<1> QED BY <1>1, <1>3, <1>4

LEMMA AllHeldServe ==
    ASSUME Shape, Agreement, Queued, Undisturbed, AllHeld, Calm, NEW r, NEW answer, Serve(r, answer)
    PROVE  AllHeld'
PROOF
<1>1. /\ UNCHANGED <<client, opens, failures, restarts, lostOpen>> /\ answer = TRUE
      /\ lostOpen = FALSE /\ failures = 0 /\ restarts = 0 /\ opens <= 1
    BY DEF Serve, Undisturbed, Calm
<1>2. call.at = "sent" /\ r = call.request /\ UNCHANGED stray
    BY <1>1 DEF Serve
<1>3. Brought = << >>
    BY <1>2 DEF Brought
<1>4. ASSUME NEW response, Respond(answer, response)
      PROVE  call'.at = "answered" /\ call'.request = r /\ call'.response = response
    <2>1. call' = [at |-> "answered", request |-> r, response |-> response]
        BY <1>1, <1>2, <1>4 DEF Respond
    <2> QED BY <2>1
<1>5. CASE r.kind = "open" /\ HandleOpen(r, answer)
    <2>1. born = 0
        <3>1. r \in Unserved
            BY <1>2 DEF Unserved
        <3> QED BY <1>1, <1>5, <3>1, NoneBorn DEF Shape, OpensCounted
    <2>2. DOMAIN conns = {}
        BY <2>1 DEF Shape, ServerShape
    <2>3. PICK id, known : /\ DOMAIN conns' = DOMAIN conns \cup {id}
                           /\ known \in BOOLEAN /\ (known <=> id \in DOMAIN conns)
                           /\ ~known => /\ conns'[id] = Rekeyed(NewSession(born + 1), r.wire.ephemeral)
                                        /\ outbox'[id] = << >>
                           /\ Respond(answer, [status |-> "ok", conn |-> id, keyConfirmed |-> known])
        BY <1>5, OpenServed
    <2>4. Brought' = << >>
        BY <1>4, <1>5, <2>3 DEF Brought, Polling
    <2>5. /\ conns'[id] = Rekeyed(NewSession(born + 1), r.wire.ephemeral)
          /\ outbox'[id] = << >> /\ DOMAIN conns' = {id}
        BY <2>2, <2>3
    <2>6. conns'[id].sendSequence = 0
        <3>1. IsSession(NewSession(born + 1)) /\ NewSession(born + 1).sendSequence = 0
            BY NewSessionShape
        <3> QED BY <2>5, <3>1, RekeyedFields
    <2>7. DOMAIN << >> = {} /\ 0 .. 0 - 1 = {}
        OBVIOUS
    <2> QED BY <2>4, <2>5, <2>6, <2>7 DEF AllHeld, Readable
<1>6. CASE r.kind = "push" /\ r.conn \in DOMAIN conns /\ HandlePush(r, answer)
    <2>1. Brought' = << >>
        <3>1. CASE Respond(answer, [status |-> "ok"])
            BY <1>4, <1>6, <3>1 DEF Brought, Polling
        <3>2. CASE call' = Reply(r)
            BY <1>6, <3>2 DEF Brought, Polling, Reply
        <3> QED BY <1>1, <1>6, <3>1, <3>2 DEF HandlePush, Reply
    <2> QED BY <1>1, <1>3, <1>6, <2>1, AllHeldSame DEF HandlePush
<1>7. CASE NotFound(r, answer)
    <2>1. UNCHANGED <<conns, outbox>>
        BY <1>7 DEF NotFound, server
    <2>2. PICK response : response = [status |-> "notFound"]
        OBVIOUS
    <2>3. Brought' = << >>
        <3>1. Respond(answer, response) /\ response.status = "notFound"
            BY <1>7, <2>2 DEF NotFound
        <3> QED BY <1>4, <3>1 DEF Brought
    <2> QED BY <1>1, <1>3, <2>1, <2>3, AllHeldSame
<1>8. CASE r.kind = "pull" /\ r.conn \in DOMAIN conns /\ HandlePull(r, answer)
    <2>1. PICK response : response = [status |-> "ok", frames |-> outbox[r.conn]]
        OBVIOUS
    <2>2. /\ Respond(answer, response) /\ UNCHANGED conns
          /\ outbox' = [outbox EXCEPT ![r.conn] = << >>]
        BY <1>8, <2>1 DEF HandlePull
    <2>3. Brought' = outbox[r.conn]
        BY <1>4, <1>8, <2>1, <2>2 DEF Brought, Polling
    <2>4. r.conn = client.conn /\ client.conn # NoConn /\ DOMAIN outbox = DOMAIN conns
        BY <1>2, <1>8 DEF Shape, CallShape, ServerShape
    <2>5. conns[r.conn].key = client.key
        BY <1>1, <1>2, <1>8, <2>4 DEF Agreement, Agreed, Opening
    <2>6. Readable(outbox[r.conn], client.key, client.conn)
        BY <1>8, <2>4, <2>5 DEF AllHeld
    <2>7. ASSUME NEW c \in DOMAIN conns
          PROVE  Readable(outbox'[c], conns[c].key, c) /\ Holds(c) \subseteq Holds(c)'
        <3>1. CASE c = r.conn
            <4>1. outbox'[c] = << >> /\ DOMAIN << >> = {}
                BY <2>2, <2>4, <3>1
            <4> QED BY <1>1, <1>3, <2>3, <3>1, <4>1 DEF Holds, Readable, SequencesOf
        <3>2. CASE c # r.conn
            <4>1. outbox'[c] = outbox[c]
                BY <2>2, <2>4, <3>2
            <4> QED BY <1>1, <1>3, <4>1 DEF Holds, AllHeld, SequencesOf
        <3> QED BY <3>1, <3>2
    <2> QED BY <1>1, <2>2, <2>3, <2>6, <2>7 DEF AllHeld
<1> QED BY <1>5, <1>6, <1>7, <1>8 DEF Serve, Handle

(* A handler changes neither what is queued nor what is brought.           *)
LEMMA AllHeldHandler ==
    ASSUME Shape, AllHeld, Calm, NEW h, HandlerStep(h)
    PROVE  AllHeld'
PROOF
<1>1. /\ UNCHANGED <<client, outbox>> /\ DOMAIN conns' = DOMAIN conns
      /\ \A c \in DOMAIN conns :
            conns'[c].key = conns[c].key /\ conns'[c].sendSequence = conns[c].sendSequence
      /\ \/ call' = call
         \/ call.at = "handled" /\ call.request = h.request /\ call' = Answer(h.request)
    BY HandlerServed
<1>2. Brought' = Brought
    <2>1. CASE call' = call
        BY <2>1 DEF Brought, Polling
    <2>2. CASE call.at = "handled" /\ call'.request = call.request
        BY <2>2 DEF Brought, Polling, Shape, CallShape
    <2> QED BY <1>1, <2>1, <2>2 DEF Answer
<1>3. \A c \in DOMAIN conns : Holds(c)' = Holds(c)
    BY <1>1, <1>2 DEF Holds
<1> QED BY <1>1, <1>2, <1>3 DEF AllHeld

(* The response of a pull puts the frames that it brought into the buffer. *)
LEMMA AllHeldPullReturns ==
    ASSUME Shape, Agreement, Downloaded, AllHeld, Calm, PullReturns
    PROVE  AllHeld'
PROOF
<1>1. Polling /\ call.at = "answered" /\ call.response.status = "ok"
    BY DEF PullReturns, PullAnswered, Answered, Polling
<1>a. PICK S \in SUBSET Nat : S = Streams
    BY StreamsNat
<1>b. PICK frames : frames = call.response.frames
    OBVIOUS
<1>2. frames = call.response.frames /\ S = Streams
    BY <1>a, <1>b
<1>3. Brought = frames /\ Numbered(frames, S)
    BY <1>1, <1>2 DEF Brought, Downloaded, Polled
<1>4. PICK F : frames \in Seq(F)
    BY <1>3 DEF Numbered
<1>5. SubSeq(frames, 1, Len(frames) - 0) = frames
    BY <1>4, SubSeqFull
<1>6. /\ client' = [client EXCEPT !.buffer = Absorbed(frames).buffer]
      /\ call' = NoCall /\ UNCHANGED <<conns, outbox, opens, failures, restarts>>
    BY <1>2, <1>5 DEF PullReturns, PullTakes, server
<1>7. client'.buffer = Absorbed(frames).buffer
    BY <1>6 DEF Shape, ClientShape, IsClient
<1>8. Brought' = << >>
    BY <1>6 DEF Brought, Polling, NoCall
<1>9. PICK got : Fits(client.buffer, S, got)
    BY <1>2 DEF Downloaded, Kept
<1>10. Readable(frames, client.key, client.conn)
    BY <1>3 DEF AllHeld
<1>11. Given(client.buffer) \cup SequencesOf(frames) \subseteq Given(client'.buffer)
    BY <1>3, <1>7, <1>9, <1>10, AbsorbedGives
<1>12. \A c \in DOMAIN conns : Holds(c) \subseteq Holds(c)'
    BY <1>3, <1>6, <1>11 DEF Holds
<1>13. Readable(<< >>, client'.key, client'.conn)
    BY DEF Readable
<1> QED BY <1>6, <1>8, <1>12, <1>13 DEF AllHeld

LEMMA AllHeldNext ==
    /\ Shape /\ Agreement /\ Downloaded /\ Undisturbed /\ AllAcked /\ AllHeld /\ [Next]_vars
    => AllHeld'
PROOF
<1> SUFFICES ASSUME Shape, Agreement, Downloaded, Undisturbed, AllAcked, AllHeld, [Next]_vars, Calm'
             PROVE  AllHeld'
    BY DEF AllHeld
<1>0. opens \in Int /\ opens' \in Int /\ opens <= opens'
    <2>1. opens \in Int
        BY ChannelAssumption DEF Shape, OpensCounted, Outstanding
    <2>2. opens' = opens + 1 \/ opens' = opens
        <3>1. CASE ClientStep
            BY <3>1 DEF ClientStep, Open, Push, OpenReturns, PushReturns, PullReturns, PullTakes,
                        PullPending, CallRejected, Returns
        <3>2. CASE ServerStep
            BY <3>2 DEF ServerStep, ServeCall, ServeStray, HandlerStep, QueueOutgoing
        <3>3. CASE Pull \/ Fault \/ UNCHANGED vars
            BY <3>3 DEF Pull, Fault, PullCut, PullTakes, CallFails, Restart, vars
        <3> QED BY <3>1, <3>2, <3>3 DEF Next
    <2> QED BY <2>1, <2>2
<1>1. CASE CallFails \/ PullCut
    <2>1. failures' = failures + 1
        BY <1>1 DEF CallFails, PullCut
    <2> QED BY <2>1 DEF Undisturbed, Calm
<1>2. CASE Restart
    BY <1>2 DEF Restart, Calm, Shape, ServerShape
<1>3. ASSUME ~(CallFails \/ PullCut \/ Restart) PROVE Calm
    <2>1. UNCHANGED <<failures, restarts>>
        <3>1. CASE ClientStep
            BY <3>1 DEF ClientStep, Open, Push, OpenReturns, PushReturns, PullReturns, PullTakes,
                        PullPending, CallRejected, Returns
        <3>2. CASE ServerStep
            BY <3>2 DEF ServerStep, ServeCall, ServeStray, HandlerStep, QueueOutgoing
        <3>3. CASE Pull \/ UNCHANGED vars
            BY <3>3 DEF Pull, vars
        <3> QED BY <1>3, <3>1, <3>2, <3>3 DEF Next, Fault
    <2> QED BY <1>0, <2>1 DEF Calm
<1>4. CASE Calm /\ (Open \/ Push \/ Pull \/ PullPending)
    <2>1. call = NoCall /\ UNCHANGED <<conns, outbox>>
        BY <1>4 DEF Open, Push, Pull, PullPending, server
    <2>2. (call'.at = "sent" \/ call' = NoCall) /\ client'.buffer = client.buffer
        BY <1>4, <2>1, ClientKeeps DEF Open, Push, Pull, PullPending, Send, OpenReturns, PullReturns, PullCut,
                    PullAnswered, Answered, NoCall
    <2>3. Brought = << >> /\ Brought' = << >>
        BY <2>1, <2>2 DEF Brought, Polling, NoCall
    <2> QED BY <1>4, <2>1, <2>2, <2>3, AllHeldSame
<1>5. CASE Calm /\ (OpenReturns \/ PushReturns \/ CallRejected)
    <2>1. call' = NoCall /\ UNCHANGED <<conns, outbox>>
        BY <1>5 DEF OpenReturns, PushReturns, CallRejected, Returns, server
    <2>2. ~Polling \/ call.response.status # "ok"
        BY <1>5 DEF OpenReturns, PushReturns, CallRejected, Answered, Polling
    <2>3. client'.buffer = client.buffer
        BY <1>5, <2>2, ClientKeeps DEF PullReturns, PullCut, PullAnswered, Answered, Polling
    <2>4. Brought = << >> /\ Brought' = << >>
        BY <2>1, <2>2 DEF Brought, Polling, NoCall
    <2> QED BY <1>5, <2>1, <2>3, <2>4, AllHeldSame
<1>6. CASE Calm /\ PullReturns
    BY <1>6, AllHeldPullReturns
<1>7. CASE UNCHANGED vars
    <2>1. UNCHANGED <<client, call, conns, outbox, opens, failures, restarts>>
        BY <1>7 DEF vars, server
    <2> QED BY <2>1 DEF AllHeld, Calm, Holds, Brought, Polling
<1>8. ASSUME NEW c \in DOMAIN conns, Calm, QueueOutgoing(c) PROVE AllHeld'
    BY <1>8, AllHeldQueue DEF Downloaded
<1>9. ASSUME NEW r, NEW answer, Calm, Serve(r, answer) PROVE AllHeld'
    BY <1>9, AllHeldServe DEF Downloaded
<1>10. ASSUME NEW h, Calm, HandlerStep(h) PROVE AllHeld'
    BY <1>10, AllHeldHandler
<1> QED BY <1>1, <1>2, <1>3, <1>4, <1>5, <1>6, <1>7, <1>8, <1>9, <1>10, ServeSplit
        DEF Next, ClientStep, ServerStep, Fault

LEMMA NothingLostInvariance == Spec => [](Undisturbed /\ AllAcked /\ AllHeld)
PROOF BY ShapeInvariance, AgreementInvariance, PassedInvariance, DownloadedInvariance,
         NothingLostInit, UndisturbedNext, AllAckedNext, AllHeldNext, PTL DEF Spec

(* With no failed call and no restart, what was pushed has been delivered  *)
(* between any two calls, over every reconnect, and up to the first of     *)
(* them what was queued is at the client or in the outbox                  *)
(* (client.go:125-145, :192-209, server.go:219-233, :360-388,              *)
(* bridge.go:113-131).                                                     *)
THEOREM NothingEverLost == Spec => []NothingLost
PROOF
<1>1. /\ Shape /\ Uploaded /\ Agreement /\ Passed /\ Downloaded
      /\ Undisturbed /\ AllAcked /\ AllHeld
      => NothingLost
    <2> SUFFICES ASSUME Shape, Uploaded, Agreement, Passed, Downloaded, Undisturbed, AllAcked,
                        AllHeld, call = NoCall, client.conn # NoConn, Faultless
                 PROVE  NothingLost
        BY DEF NothingLost
    <2>0. PICK conn, n \in Nat : conn = client.conn /\ n = client.sendSequence
        BY ChannelAssumption DEF Shape, ClientShape
    <2>1. conn \in DOMAIN conns /\ call.at = "idle"
        BY <2>0 DEF Agreement, Present, Faultless, NoCall
    <2>2. Len(delivered[conns[conn].stream]) = n
        <3>1. PICK b, done : b = conns[conn].buffer /\ done = delivered[conns[conn].stream]
            OBVIOUS
        <3>2. Buffered(b, n, done)
            BY <2>0, <2>1, <3>1 DEF Uploaded
        <3>3. 0 .. n - 1 \subseteq Given(b)
            BY <2>0, <2>1, <3>1
            DEF AllAcked, OnItsWayUp, Pushing, Passed, Taken, Undisturbed, Faultless
        <3>4. /\ b.nextExpected \in 0 .. n /\ b.nextExpected \notin Given(b)
              /\ done = [k \in 1 .. b.nextExpected |-> k - 1]
            BY <3>2 DEF Buffered, Value!Buffered, Given, Value!Given
        <3>5. b.nextExpected = n
            BY <3>3, <3>4
        <3> QED BY <3>1, <3>4, <3>5
    <2>3. ASSUME opens = 1, NEW k \in 0 .. conns[conn].sendSequence - 1
          PROVE  \/ k < Len(received \o pending) \/ k \in DOMAIN client.buffer.pending
                 \/ \E i \in DOMAIN outbox[conn] : Plaintext(outbox[conn][i]).sequence = k
        <3>1. Calm
            BY <2>3 DEF Calm, Faultless
        <3>2. k \in Given(client.buffer) \cup SequencesOf(<< >>) \cup SequencesOf(outbox[conn])
            BY <2>1, <2>3, <3>1 DEF AllHeld, Holds, Brought, Polling
        <3>3. SequencesOf(<< >>) = {}
            BY DEF SequencesOf
        <3>4. PICK b, got : b = client.buffer /\ got = received \o pending
            OBVIOUS
        <3>5. Len(got) = b.nextExpected /\ b.nextExpected \in Nat
            BY <3>4, ChannelAssumption DEF Downloaded, Kept, Fits, Value!Filled
        <3> QED BY <3>2, <3>3, <3>4, <3>5 DEF Given, Value!Given, SequencesOf
    <2> QED BY <2>0, <2>2, <2>3 DEF NothingLost
<1> QED BY <1>1, ShapeInvariance, UploadedInvariance, AgreementInvariance, PassedInvariance,
        DownloadedInvariance, NothingLostInvariance, PTL
=============================================================================
