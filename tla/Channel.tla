------------------------------- MODULE Channel ------------------------------
(***************************************************************************)
(* A client.Client used through one SessionHandle, so one call at a time   *)
(* (client/client.go, android/gomobilebridge/bridge.go), the server it     *)
(* talks to (server/server.go), and the HTTP transactions between them.    *)
(*                                                                         *)
(* A transaction is a request and its response.  Opens and pulls are       *)
(* handled in one step; the handler of a push decodes, checks and inserts  *)
(* its frame in steps of their own, between which others run.  A call can  *)
(* fail at any time: its request is then lost, or stray -- still on its    *)
(* way, to be handled later -- or its handler goes on for nobody, or its   *)
(* response is lost.  The server can restart; it keeps nothing.            *)
(*                                                                         *)
(* Both ends keep the sequence numbers and the reorder buffer of their     *)
(* Session, and the server its replay window; the nonce counter restarts   *)
(* with every key (Wire).                                                  *)
(***************************************************************************)
EXTENDS ReplayWindow, ReorderBuffer, Wire, Sequences

CONSTANTS
    RedundantTotal, \* the frames that count as redundant in one grace period
    MaxOpens,       \* bound: handshakes begun
    MaxPushes,      \* bound: payloads pushed
    MaxChunks,      \* bound: payloads one server session queues
    MaxFailures,    \* bound: calls that fail for the network
    MaxRestarts     \* bound: restarts of the server

ASSUME ChannelAssumption ==
    /\ RedundantTotal \in Nat
    /\ MaxOpens \in Nat /\ MaxFailures \in Nat /\ MaxRestarts \in Nat
    /\ MaxPushes \in Nat /\ MaxPushes < SeqSpace
    /\ MaxChunks \in Nat /\ MaxChunks < SeqSpace

VARIABLES
    client,         \* the client's connection, key, Session and ReconnectState
    pending,        \* the handle's payloads that PullOne has not yet returned
    call,           \* the call in progress: its request and its response
    stray,          \* requests of failed calls that are still on their way
    handlers,       \* the push handlers at work on a frame they have decoded
    conns,          \* the server's sessions, by connection id
    outbox,         \* the server's queued frames, by connection id
    nextConnID,
    opens, failures, restarts, born,  \* bounds and history: what has happened
    lostOpen,       \* history: the call of a handshake has failed
    acked,          \* history: the payloads whose Push returned nil
    delivered,      \* history: what each server session made ready, by stream
    crossed,        \* history: a frame was marked after its key had gone
    received        \* history: the payloads PullOne returned

server == <<conns, outbox, handlers, nextConnID, born, delivered, crossed>>
returned == <<pending, received>>
vars == <<client, call, stray, server, opens, failures, restarts, lostOpen, acked, returned>>

NoConn == 0
NoCall == [at |-> "idle"]

(* EncodeOutgoing, by either end: the next counter and sequence number.    *)
Encoded(end, conn, payload) ==
    EncodeDataFrame(end.key, end.sendCounter,
        [conn |-> conn, sequence |-> end.sendSequence, payload |-> payload])

Counted(end) == [end EXCEPT !.sendCounter = @ + 1, !.sendSequence = @ + 1]

(* What the reorder buffer makes of a frame that DecodeIncoming has taken. *)
Received(buffer, wire) ==
    Insert(buffer, Plaintext(wire).sequence, Plaintext(wire).payload)

(* A NewSession, as the server makes it; `stream' names it.                *)
NewSession(stream) ==
    [stream |-> stream, key |-> 0, sendCounter |-> 0, sendSequence |-> 0,
     window |-> NewReplayWindow, buffer |-> NewReorderBuffer(0)]

Init ==
    /\ client = [conn |-> NoConn, key |-> 0, sendCounter |-> 0, sendSequence |-> 0,
                 buffer |-> NewReorderBuffer(0),
                 inGrace |-> FALSE, keyConfirmed |-> FALSE, redundantSent |-> 0]
    /\ call = NoCall
    /\ stray = {}
    /\ conns = << >> /\ outbox = << >> /\ handlers = {} /\ nextConnID = 1 /\ born = 0
    /\ opens = 0 /\ failures = 0 /\ restarts = 0
    /\ lostOpen = FALSE /\ acked = {}
    /\ delivered = [stream \in 1 .. MaxOpens |-> << >>] /\ crossed = FALSE
    /\ pending = << >> /\ received = << >>

-----------------------------------------------------------------------------
(* The client's calls.                                                     *)
Send(request) == call' = [at |-> "sent", request |-> request]

(* Reconnect's StartGrace: the new key is not confirmed yet.               *)
GraceStarted ==
    [client EXCEPT !.inGrace = TRUE, !.keyConfirmed = FALSE, !.redundantSent = 0]

(* Open on a new client, Reconnect on one that has a connection: a fresh   *)
(* key pair each time.                                                     *)
Open ==
    /\ call = NoCall /\ opens < MaxOpens
    /\ opens' = opens + 1
    /\ Send([kind |-> "open", wire |-> EncodeHandshake(opens', [conn |-> client.conn])])
    /\ client' = IF client.conn = NoConn THEN client ELSE GraceStarted
    /\ UNCHANGED <<stray, server, failures, restarts, lostOpen, acked, returned>>

(* Push consumes a counter and a sequence number before anything can fail. *)
Push ==
    /\ call = NoCall /\ client.conn # NoConn /\ client.sendSequence < MaxPushes
    /\ client' = Counted(client)
    /\ Send([kind |-> "push", conn |-> client.conn,
             wire |-> Encoded(client, client.conn, client.sendSequence)])
    /\ UNCHANGED <<stray, server, opens, failures, restarts, lostOpen, acked, returned>>

(* PullOne asks the server only when it has nothing left to return.        *)
Pull ==
    /\ call = NoCall /\ client.conn # NoConn /\ pending = << >>
    /\ Send([kind |-> "pull", conn |-> client.conn])
    /\ UNCHANGED <<client, stray, server, opens, failures, restarts, lostOpen, acked, returned>>

-----------------------------------------------------------------------------
(* The server's handlers.  `Answer' is false for a stray request: nobody   *)
(* reads the response.                                                     *)
Respond(answer, response) ==
    call' = IF answer THEN [at |-> "answered", request |-> call.request,
                            response |-> response]
            ELSE call

(* handleOpen: the named session if it exists, else a new one; then        *)
(* CompleteHandshake, which resets the replay window with the key and      *)
(* keeps the sequence number and the buffer.                               *)
HandleOpen(request, answer) ==
    LET named == Plaintext(request.wire).conn
        known == named \in DOMAIN conns
        id    == IF known THEN named ELSE nextConnID
        sess  == IF known THEN conns[id] ELSE NewSession(born + 1)
    IN
    /\ conns' = [c \in DOMAIN conns \cup {id} |->
                    IF c = id
                    THEN [sess EXCEPT !.key = request.wire.ephemeral, !.sendCounter = 0,
                                      !.window = ResetWindow(@)]
                    ELSE conns[c]]
    /\ outbox' = IF id \in DOMAIN outbox THEN outbox
                 ELSE [c \in DOMAIN outbox \cup {id} |->
                          IF c = id THEN << >> ELSE outbox[c]]
    /\ UNCHANGED <<handlers, delivered, crossed>>
    /\ nextConnID' = IF known THEN nextConnID ELSE nextConnID + 1
    /\ born' = IF known THEN born ELSE born + 1
    /\ Respond(answer, [status |-> "ok", conn |-> id, keyConfirmed |-> known])

(* An unknown connection id: 404.                                          *)
NotFound(request, answer) ==
    /\ Respond(answer, [status |-> "notFound"])
    /\ UNCHANGED server

(* handlePush as far as DecodeDataFrame: a frame that does not decode with *)
(* the session's present key is dropped, and the answer is 200 all the     *)
(* same; one that does is in the hands of its handler.                     *)
HandlePush(request, answer) ==
    /\ \/ /\ ~DataFrameDecodes(conns[request.conn].key, request.conn, request.wire)
          /\ Respond(answer, [status |-> "ok"])
          /\ UNCHANGED handlers
       \/ /\ DataFrameDecodes(conns[request.conn].key, request.conn, request.wire)
          /\ handlers' = handlers \cup {[request |-> request, at |-> "decoded"]}
          /\ call' = IF answer THEN [at |-> "handled", request |-> request] ELSE call
    /\ UNCHANGED <<conns, outbox, nextConnID, born, delivered, crossed>>

(* A handler is done.  Its answer is 200, for the call if the client still *)
(* waits for it; what it does with the payloads it made ready is Egress's. *)
HandlerEnds(h) ==
    call' = IF call.at = "handled" /\ call.request = h.request
            THEN [at |-> "answered", request |-> h.request, response |-> [status |-> "ok"]]
            ELSE call

(* CheckAndMark, on the session's window as it is now: the key may have    *)
(* been rotated since the frame was decoded.  A replay is absorbed.        *)
HandlerChecks(h) ==
    LET conn == h.request.conn  counter == h.request.wire.counter IN
    /\ h.at = "decoded"
    /\ \/ /\ ~Acceptable(conns[conn].window, counter)
          /\ handlers' = handlers \ {h}
          /\ HandlerEnds(h)
          /\ UNCHANGED <<conns, crossed>>
       \/ /\ Acceptable(conns[conn].window, counter)
          /\ conns' = [conns EXCEPT ![conn].window = Marked(@, counter)]
          /\ crossed' = (crossed \/ h.request.wire.sealed.key # conns[conn].key)
          /\ handlers' = (handlers \ {h}) \cup {[h EXCEPT !.at = "accepted"]}
          /\ UNCHANGED call
    /\ UNCHANGED <<outbox, nextConnID, born, delivered>>

(* Mutant: a frame's payload is delivered as it comes.                     *)
HandlerInserts_Unordered(h) ==
    LET sess == conns[h.request.conn] IN
    /\ h.at = "accepted"
    /\ delivered' = [delivered EXCEPT ![sess.stream] = Append(@, Plaintext(h.request.wire).payload)]
    /\ handlers' = handlers \ {h}
    /\ HandlerEnds(h)
    /\ UNCHANGED <<conns, outbox, nextConnID, born, crossed>>

(* The reorder buffer takes the frame, and makes ready what is now whole.  *)
HandlerInserts(h) ==
    LET sess == conns[h.request.conn] IN
    /\ h.at = "accepted"
    /\ \E result \in {Received(sess.buffer, h.request.wire)} :
       /\ conns' = [conns EXCEPT ![h.request.conn].buffer = result.buffer]
       /\ delivered' = [delivered EXCEPT ![sess.stream] = @ \o result.ready]
    /\ handlers' = handlers \ {h}
    /\ HandlerEnds(h)
    /\ UNCHANGED <<outbox, nextConnID, born, crossed>>

(* handlePull: the outbox is emptied before the response is written.       *)
HandlePull(request, answer) ==
    /\ outbox' = [outbox EXCEPT ![request.conn] = << >>]
    /\ Respond(answer, [status |-> "ok", frames |-> outbox[request.conn]])
    /\ UNCHANGED <<conns, handlers, nextConnID, born, delivered, crossed>>

Handle(request, answer) ==
    \/ /\ request.kind = "open" /\ HandshakeDecodes(request.wire)
       /\ HandleOpen(request, answer)
    \/ /\ request.kind # "open" /\ request.conn \notin DOMAIN conns
       /\ NotFound(request, answer)
    \/ /\ request.kind = "push" /\ request.conn \in DOMAIN conns
       /\ HandlePush(request, answer)
    \/ /\ request.kind = "pull" /\ request.conn \in DOMAIN conns
       /\ HandlePull(request, answer)

ServeCall ==
    /\ call.at = "sent"
    /\ Handle(call.request, TRUE)
    /\ UNCHANGED <<client, stray, opens, failures, restarts, lostOpen, acked, returned>>

ServeStray(request) ==
    /\ request \in stray
    /\ Handle(request, FALSE)
    /\ stray' = stray \ {request}
    /\ UNCHANGED <<client, opens, failures, restarts, lostOpen, acked, returned>>

HandlerStep(h) ==
    /\ h \in handlers
    /\ HandlerChecks(h) \/ HandlerInserts(h)
    /\ UNCHANGED <<client, stray, opens, failures, restarts, lostOpen, acked, returned>>

(* queueOutgoing: the target has sent a chunk to session c.  The frame is  *)
(* encoded and appended in one step, as by a session's only goroutine.     *)
QueueOutgoing(c) ==
    LET sess == conns[c] IN
    /\ sess.sendSequence < MaxChunks
    /\ outbox' = [outbox EXCEPT ![c] = Append(@,
                    Encoded(sess, c, [stream |-> sess.stream, position |-> sess.sendSequence]))]
    /\ conns' = [conns EXCEPT ![c] = Counted(@)]
    /\ UNCHANGED <<client, call, stray, handlers, nextConnID, born, delivered, crossed, opens,
                   failures, restarts, lostOpen, acked, returned>>

(* The process restarts with empty tables and the first connection id; a   *)
(* call that a handler was serving fails with it.                          *)
Restart ==
    /\ restarts < MaxRestarts
    /\ restarts' = restarts + 1
    /\ conns' = << >> /\ outbox' = << >> /\ handlers' = {} /\ nextConnID' = 1
    /\ call' = IF call.at = "handled" THEN NoCall ELSE call
    /\ UNCHANGED <<born, delivered, crossed, client, stray, opens, failures, lostOpen, acked,
                   returned>>

-----------------------------------------------------------------------------
(* The client's half of a response.                                        *)
Answered(kind) == call.at = "answered" /\ call.request.kind = kind
Returns == call' = NoCall /\ UNCHANGED <<stray, server, opens, failures, restarts, lostOpen>>

(* Mutant: a reconnect keeps the old key.                                  *)
OpenReturns_OldKey ==
    /\ Answered("open")
    /\ LET confirmed == call.response.keyConfirmed IN
       client' = [client EXCEPT
           !.conn = call.response.conn,
           !.key = IF client.conn = NoConn THEN call.request.wire.ephemeral ELSE @,
           !.sendCounter = 0,
           !.keyConfirmed = @ \/ confirmed, !.inGrace = @ /\ ~confirmed]
    /\ Returns
    /\ UNCHANGED <<acked, returned>>

(* CompleteHandshake at the client: the key rotates, the sequence number   *)
(* and the reorder buffer go on.  FlagKeyConfirmed, which says that the    *)
(* server knew the session, ends the grace period (ConfirmKey).            *)
OpenReturns ==
    /\ Answered("open")
    /\ LET confirmed == call.response.keyConfirmed IN
       client' = [client EXCEPT
           !.conn = call.response.conn, !.key = call.request.wire.ephemeral,
           !.sendCounter = 0,
           !.keyConfirmed = @ \/ confirmed, !.inGrace = @ /\ ~confirmed]
    /\ Returns
    /\ UNCHANGED <<acked, returned>>

ShouldSendRedundant ==
    ~client.keyConfirmed /\ client.inGrace /\ client.redundantSent < RedundantTotal

(* The frame was sent once in any case; in the grace period it is counted  *)
(* as a redundant one.                                                     *)
PushReturns ==
    /\ Answered("push") /\ call.response.status = "ok"
    /\ acked' = acked \cup {Plaintext(call.request.wire).payload}
    /\ client' = IF ShouldSendRedundant THEN [client EXCEPT !.redundantSent = @ + 1]
                 ELSE client
    /\ Returns
    /\ UNCHANGED returned

(* Mutant: payloads are delivered as they come.                            *)
Absorbed_Unordered(frames) ==
    [buffer |-> client.buffer,
     ready  |-> LET mine == SelectSeq(frames, LAMBDA f :
                                 DataFrameDecodes(client.key, client.conn, f))
                IN  [i \in 1 .. Len(mine) |-> Plaintext(mine[i]).payload]]

(* Pull decodes what it can, in the order of the batch, and delivers what  *)
(* the reorder buffer makes ready.  The client's replay window is left     *)
(* out: one call at a time takes its frames in, the server hands each out  *)
(* once, and those of one key in the order of their counters, so that each *)
(* counter that comes is above all that were marked since the key's reset. *)
Absorb(before, frame) ==
    LET result == Received(before.buffer, frame) IN
    IF ~DataFrameDecodes(client.key, client.conn, frame) THEN before
    ELSE [buffer |-> result.buffer, ready |-> before.ready \o result.ready]

Absorbed(frames) ==
    LET absorb[n \in 0 .. Len(frames)] ==
            IF n = 0 THEN [buffer |-> client.buffer, ready |-> << >>]
            ELSE Absorb(absorb[n - 1], frames[n])
    IN  absorb[Len(frames)]

(* Mutant: what is left of a batch is dropped.                             *)
Hand_First(payloads) ==
    \/ /\ payloads = << >>
       /\ UNCHANGED returned
    \/ /\ payloads # << >>
       /\ received' = Append(received, Head(payloads))
       /\ pending' = << >>

(* PullOne returns the first of the payloads and keeps the others.         *)
Hand(payloads) ==
    \/ /\ payloads = << >>
       /\ UNCHANGED returned
    \/ /\ payloads # << >>
       /\ received' = Append(received, Head(payloads))
       /\ pending' = Tail(payloads)

PullAnswered == Answered("pull") /\ call.response.status = "ok"

(* The frames of a response, without the last `missing' if it was cut: the *)
(* loop stops at the first incomplete one.                                 *)
PullTakes(missing) ==
    /\ LET frames == call.response.frames IN
       \E result \in {Absorbed(SubSeq(frames, 1, Len(frames) - missing))} :
       /\ client' = [client EXCEPT !.buffer = result.buffer]
       /\ Hand(result.ready)
    /\ call' = NoCall
    /\ UNCHANGED <<stray, server, opens, restarts, lostOpen, acked>>

PullReturns ==
    /\ PullAnswered
    /\ PullTakes(0)
    /\ UNCHANGED failures

PullCut ==
    /\ PullAnswered /\ failures < MaxFailures
    /\ failures' = failures + 1
    /\ \E missing \in 1 .. Len(call.response.frames) : PullTakes(missing)

(* PullOne with something left to return.                                  *)
PullPending ==
    /\ call = NoCall /\ pending # << >>
    /\ Hand(pending)
    /\ UNCHANGED <<client, call, stray, server, opens, failures, restarts, lostOpen, acked>>

(* A push or a pull on a connection the server does not know: an error.    *)
CallRejected ==
    /\ call.at = "answered" /\ call.response.status = "notFound"
    /\ Returns
    /\ UNCHANGED <<client, acked, returned>>

(* The network fails the call: a handover, a reset, a cut response.  A     *)
(* handler it has started goes on.                                         *)
CallFails ==
    /\ call.at # "idle" /\ failures < MaxFailures
    /\ failures' = failures + 1
    /\ stray' \in IF call.at = "sent" THEN {stray, stray \cup {call.request}} ELSE {stray}
    /\ lostOpen' = (lostOpen \/ call.request.kind = "open")
    /\ call' = NoCall
    /\ UNCHANGED <<client, server, opens, restarts, acked, returned>>

-----------------------------------------------------------------------------
ClientStep ==
    \/ Open \/ Push \/ OpenReturns \/ PushReturns \/ PullReturns \/ CallRejected
    \/ PullPending
ServerStep ==
    \/ ServeCall
    \/ \E request \in stray : ServeStray(request)
    \/ \E h \in handlers : HandlerStep(h)
    \/ \E c \in DOMAIN conns : QueueOutgoing(c)
Fault == CallFails \/ PullCut \/ Restart

Next == ClientStep \/ Pull \/ ServerStep \/ Fault

(* The client keeps polling, the server answers, and answers arrive.  For  *)
(* a push this assumes that forwardPayload returns: the target reads what  *)
(* is written to it, or its connection fails.                              *)
Fairness ==
    /\ WF_vars(ServeCall)
    /\ WF_vars(\E h \in handlers : HandlerStep(h))
    /\ WF_vars(OpenReturns \/ PushReturns \/ PullReturns \/ CallRejected)
    /\ WF_vars(Pull \/ PullPending)

Spec == Init /\ [][Next]_vars /\ Fairness

-----------------------------------------------------------------------------
(* Every live connection id has a session and an outbox, the ids are the   *)
(* ones handed out so far, and only payloads that were sent are            *)
(* acknowledged (server.go:55-58, :164-167, :376-400).                     *)
TypeOK ==
    /\ client.conn \in 0 .. opens /\ client.key \in 0 .. opens
    /\ client.sendSequence \in 0 .. MaxPushes
    /\ call.at \in {"idle", "sent", "handled", "answered"}
    /\ \A h \in handlers : h.at \in {"decoded", "accepted"} /\ h.request.conn \in DOMAIN conns
    /\ DOMAIN outbox = DOMAIN conns
    /\ DOMAIN conns = 1 .. nextConnID - 1
    /\ \A c \in DOMAIN conns :
          conns[c].sendSequence \in 0 .. MaxChunks /\ conns[c].window \in Windows
    /\ acked \subseteq 0 .. client.sendSequence - 1
    /\ client.redundantSent \in 0 .. RedundantTotal
    /\ ~(client.inGrace /\ client.keyConfirmed)

(* The channel implements a Pipe from the client to every session the      *)
(* server ever had for it: what a session's frames release, in the order   *)
(* in which the reorder buffer releases it, is a prefix of what the client *)
(* pushed, whatever is lost, late or restarted and however the handlers of *)
(* failed calls overlap the later ones' (session.go:149-169).  It is not   *)
(* the order of the writes: two handlers that each hold released payloads  *)
(* write them in either order (server.go:229-231; StreamIntact in Egress). *)
Upload == INSTANCE Pipe
    WITH Items   <- 0 .. MaxPushes - 1,
         Readers <- 1 .. MaxOpens,
         sent    <- [i \in 1 .. client.sendSequence |-> i - 1],
         taken   <- delivered

UploadInOrder == Upload!Spec

(* What PullOne returns and holds has no gap and no repetition, with any   *)
(* loss and any reconnects, and is one server session's as long as the     *)
(* server does not restart (client.go:192-209, bridge.go:113-131).  When   *)
(* it does, the client's reorder buffer goes on where it was, and joins    *)
(* what it held of the old session with the frames of the new one.         *)
ReceivedInOrder ==
    LET got == received \o pending IN
    \A i \in DOMAIN got :
        got[i].position = i - 1 /\ (restarts = 0 => got[i].stream = got[1].stream)

(* The server still has the client's session, and every handshake the      *)
(* client began has been answered to it.                                   *)
InStep ==
    /\ client.conn # NoConn /\ restarts = 0 /\ ~lostOpen
    /\ call.at = "idle" \/ call.request.kind # "open"

(* The two ends then hold the same key for the client's connection and the *)
(* grace period is over, also when pushes and pulls fail and arrive late   *)
(* (server.go:152-178, client.go:62, :105-112).                            *)
KeysAgree == InStep => conns[client.conn].key = client.key /\ ~client.inGrace

(* A Push that returned nil was taken by the server, which answers 200     *)
(* also to frames it drops (client.go:125-145, server.go:219-233): across  *)
(* reconnects, lost and late pushes, and the handlers that failed pushes   *)
(* leave running.  It is so as long as none of them has crossed a          *)
(* reconnect.  One that decodes its frame with the old key and marks the   *)
(* counter after the reset (session.go:149-159, :95-98) puts an old        *)
(* counter into the new key's window: a push with that counter, or one far *)
(* below, is then refused as a replay and acknowledged all the same.       *)
AckedIsTaken ==
    InStep /\ ~crossed =>
        LET buffer == conns[client.conn].buffer IN
        \A n \in acked : n < buffer.nextExpected \/ n \in DOMAIN buffer.pending

Faultless == failures = 0 /\ restarts = 0

(* Between calls, as long as no call has failed and the server has not     *)
(* restarted, all that was pushed has been delivered, also across          *)
(* reconnects, and before the first of them every chunk that was queued is *)
(* at one end or the other (client.go:125-145, :192-209, server.go:219-233,*)
(* :360-388, bridge.go:113-131).                                           *)
NothingLost ==
    call = NoCall /\ client.conn # NoConn /\ Faultless =>
        LET sess == conns[client.conn]  queued == outbox[client.conn] IN
        /\ Len(delivered[sess.stream]) = client.sendSequence
        /\ opens = 1 => \A n \in 0 .. sess.sendSequence - 1 :
              \/ n < Len(received \o pending) \/ n \in DOMAIN client.buffer.pending
              \/ \E i \in DOMAIN queued : Plaintext(queued[i]).sequence = n

(* With no failure, no restart and no reconnect, everything that is pushed *)
(* is delivered and everything that is queued is received.                 *)
Calm == opens <= 1 /\ failures = 0 /\ restarts = 0

UpToDate ==
    client.conn \in DOMAIN conns =>
        /\ Len(delivered[conns[client.conn].stream]) = client.sendSequence
        /\ Len(received) = conns[client.conn].sendSequence

CalmDelivers == []Calm => []<>UpToDate

(* PROTOCOL.md:22-23: a connection "survives a change of network": with no *)
(* failure and no restart a reconnect loses nothing.                       *)
SurvivesReconnect == []Faultless => []<>UpToDate
=============================================================================
