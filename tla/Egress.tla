------------------------------- MODULE Egress -------------------------------
(***************************************************************************)
(* The server's side of one session (connState, server/server.go): the     *)
(* push handlers that forward in-order payloads, and the goroutine that    *)
(* each accepted CONNECT starts, which dials, announces the result and     *)
(* then pumps the socket into the session's outbox.                        *)
(*                                                                         *)
(* The client's stream is a sequence of payloads, "connect" or "data" as   *)
(* the client means them; the server is not told which.  A goroutine is    *)
(* named by the number of its dial, and so is the socket it opens.  The    *)
(* remote end answers, closes and resets as it likes.                      *)
(***************************************************************************)
EXTENDS Integers, Sequences, FiniteSets

CONSTANTS
    Handlers,       \* threads running handlePush for this session
    MaxPayloads,    \* bound: payloads in the client's stream
    MaxChunks       \* bound: chunks read from one socket

ASSUME EgressAssumption ==
    MaxPayloads \in Nat \ {0} /\ MaxChunks \in Nat

Dials == 1 .. MaxPayloads       \* no payload starts more than one dial
NoConn == 0

VARIABLES
    kinds,          \* what the client means by each payload
    serial,         \* the client pushes one transaction at a time
    pushed,         \* payloads the reorder buffer has handed to a handler
    handler,        \* where each push handler is, and its locals
    outbound,       \* connState.outbound
    connecting,     \* connState.connecting
    dials,          \* goroutines started
    target,         \* the payload each goroutine was started for
    pump,           \* where each goroutine is, and its locals
    socket,         \* the state of each goroutine's socket
    written,        \* the payloads each socket accepted
    outbox          \* what queueOutgoing has queued, in sequence order

connState == <<outbound, connecting, dials, target>>
vars == <<kinds, serial, pushed, handler, connState, pump, socket, written, outbox>>

Idle == [at |-> "idle"]
At(place) == [at |-> place]

Init ==
    /\ kinds \in {k \in [1 .. MaxPayloads -> {"connect", "data"}] : k[1] = "connect"}
    /\ serial \in BOOLEAN
    /\ pushed = 0
    /\ handler = [h \in Handlers |-> Idle]
    /\ outbound = NoConn /\ connecting = FALSE
    /\ dials = 0
    /\ target = [g \in Dials |-> 0]
    /\ pump = [g \in Dials |-> Idle]
    /\ socket = [g \in Dials |-> "none"]
    /\ written = [g \in Dials |-> << >>]
    /\ outbox = << >>

-----------------------------------------------------------------------------
(* queueOutgoing, as the client will order it: by sequence number.         *)
Queue(g, what) == outbox' = Append(outbox, [from |-> g, what |-> what])

Answers == {i \in DOMAIN outbox : outbox[i].what \in {"OK", "ERROR"}}

(* The client waits for the answer to a CONNECT before it pushes on, and   *)
(* sends data only after an OK (the contract of server.go:241-249, kept by *)
(* tunnel.go's waitForConnected).                                          *)
ClientReady ==
    pushed > 0 /\ kinds[pushed] = "connect" =>
        \E i \in Answers :
            /\ target[outbox[i].from] = pushed
            /\ kinds[pushed + 1] = "data" => outbox[i].what = "OK"

(* handlePush has decoded a batch: the next payload is this handler's.     *)
Receive(h) ==
    /\ handler[h] = Idle /\ pushed < MaxPayloads /\ ClientReady
    /\ serial => \A other \in Handlers : handler[other] = Idle
    /\ pushed' = pushed + 1
    /\ handler' = [handler EXCEPT ![h] = [at |-> "forward", payload |-> pushed']]
    /\ UNCHANGED <<kinds, serial, connState, pump, socket, written, outbox>>

(* forwardPayload under cs.mu: no outbound and a CONNECT in flight, the    *)
(* payload is dropped.                                                     *)
ForwardDrop(h) ==
    /\ handler[h].at = "forward" /\ outbound = NoConn /\ connecting
    /\ handler' = [handler EXCEPT ![h] = Idle]
    /\ UNCHANGED <<kinds, serial, pushed, connState, pump, socket, written, outbox>>

(* Mutant: `connecting' is not tested.                                     *)
ForwardConnect_Racing(h) ==
    /\ handler[h].at = "forward" /\ outbound = NoConn
    /\ connecting' = TRUE
    /\ dials' = dials + 1
    /\ target' = [target EXCEPT ![dials'] = handler[h].payload]
    /\ pump' = [pump EXCEPT ![dials'] = At("dial")]
    /\ handler' = [handler EXCEPT ![h] = Idle]
    /\ UNCHANGED <<kinds, serial, pushed, outbound, socket, written, outbox>>

(* No outbound and no CONNECT in flight: the payload is the CONNECT.       *)
ForwardConnect(h) ==
    /\ handler[h].at = "forward" /\ outbound = NoConn /\ ~connecting
    /\ connecting' = TRUE
    /\ dials' = dials + 1
    /\ target' = [target EXCEPT ![dials'] = handler[h].payload]
    /\ pump' = [pump EXCEPT ![dials'] = At("dial")]
    /\ handler' = [handler EXCEPT ![h] = Idle]
    /\ UNCHANGED <<kinds, serial, pushed, outbound, socket, written, outbox>>

ForwardData(h) ==
    /\ handler[h].at = "forward" /\ outbound # NoConn
    /\ handler' = [handler EXCEPT
                      ![h] = [at |-> "write", payload |-> @.payload, conn |-> outbound]]
    /\ UNCHANGED <<kinds, serial, pushed, connState, pump, socket, written, outbox>>

(* conn.Write outside the mutex.  A socket the remote end has closed may   *)
(* still accept bytes.  The write has no deadline: it waits, perhaps for   *)
(* ever, while the remote end does not read, and so it is not fair.        *)
Write(h) ==
    /\ handler[h].at = "write"
    /\ socket[handler[h].conn] \in {"open", "remoteClosed"}
    /\ written' = [written EXCEPT ![handler[h].conn] = Append(@, handler[h].payload)]
    /\ handler' = [handler EXCEPT ![h] = Idle]
    /\ UNCHANGED <<kinds, serial, pushed, connState, pump, socket, outbox>>

(* Mutant: a failed write leaves the connection in use.                    *)
WriteFails_Ignored(h) ==
    /\ handler[h].at = "write"
    /\ socket[handler[h].conn] \in {"remoteClosed", "closed"}
    /\ handler' = [handler EXCEPT ![h] = Idle]
    /\ UNCHANGED <<kinds, serial, pushed, connState, pump, socket, written, outbox>>

(* A write that waits returns when this end closes the socket.             *)
WriteFails(h) ==
    /\ handler[h].at = "write"
    /\ socket[handler[h].conn] \in {"remoteClosed", "closed"}
    /\ handler' = [handler EXCEPT ![h] = At("close")]
    /\ UNCHANGED <<kinds, serial, pushed, connState, pump, socket, written, outbox>>

-----------------------------------------------------------------------------
(* closeOutbound takes whatever outbound is under cs.mu, and closes it     *)
(* after the unlock.                                                       *)
TakeOutbound == outbound' = NoConn /\ UNCHANGED <<connecting, dials, target>>

CloseSocket(c) == socket' = IF c = NoConn THEN socket ELSE [socket EXCEPT ![c] = "closed"]

(* Mutant: outbound is cleared and its socket is not closed.               *)
HandlerTakes_NoClose(h) ==
    /\ handler[h].at = "close"
    /\ TakeOutbound
    /\ handler' = [handler EXCEPT ![h] = Idle]
    /\ UNCHANGED <<kinds, serial, pushed, pump, socket, written, outbox>>

HandlerTakes(h) ==
    /\ handler[h].at = "close"
    /\ TakeOutbound
    /\ handler' = [handler EXCEPT ![h] = [at |-> "closing", conn |-> outbound]]
    /\ UNCHANGED <<kinds, serial, pushed, pump, socket, written, outbox>>

HandlerCloses(h) ==
    /\ handler[h].at = "closing"
    /\ CloseSocket(handler[h].conn)
    /\ handler' = [handler EXCEPT ![h] = Idle]
    /\ UNCHANGED <<kinds, serial, pushed, connState, pump, written, outbox>>

-----------------------------------------------------------------------------
(* Mutant: a failed dial is not reported.                                  *)
DialFails_Silent(g) ==
    /\ pump[g].at = "dial"
    /\ pump' = [pump EXCEPT ![g] = At("failed")]
    /\ UNCHANGED <<kinds, serial, pushed, handler, connState, socket, written, outbox>>

(* dialAndPumpAsync.  Only a payload meant as a CONNECT names a host; a    *)
(* rejected target and a failed dial both queue an ERROR and then clear    *)
(* `connecting'.                                                           *)
DialFails(g) ==
    /\ pump[g].at = "dial"
    /\ Queue(g, "ERROR")
    /\ pump' = [pump EXCEPT ![g] = At("failed")]
    /\ UNCHANGED <<kinds, serial, pushed, handler, connState, socket, written>>

DialFailed(g) ==
    /\ pump[g].at = "failed"
    /\ connecting' = FALSE
    /\ pump' = [pump EXCEPT ![g] = At("done")]
    /\ UNCHANGED <<kinds, serial, pushed, handler, outbound, dials, target,
                   socket, written, outbox>>

(* Mutant: the pump starts before the result is announced.                 *)
DialSucceeds_Unannounced(g) ==
    /\ pump[g].at = "dial" /\ kinds[target[g]] = "connect"
    /\ outbound' = g /\ connecting' = FALSE
    /\ socket' = [socket EXCEPT ![g] = "open"]
    /\ pump' = [pump EXCEPT ![g] = [at |-> "read", chunks |-> 0]]
    /\ UNCHANGED <<kinds, serial, pushed, handler, dials, target, written, outbox>>

DialSucceeds(g) ==
    /\ pump[g].at = "dial" /\ kinds[target[g]] = "connect"
    /\ outbound' = g /\ connecting' = FALSE
    /\ socket' = [socket EXCEPT ![g] = "open"]
    /\ pump' = [pump EXCEPT ![g] = At("announce")]
    /\ UNCHANGED <<kinds, serial, pushed, handler, dials, target, written, outbox>>

Announce(g) ==
    /\ pump[g].at = "announce"
    /\ Queue(g, "OK")
    /\ pump' = [pump EXCEPT ![g] = [at |-> "read", chunks |-> 0]]
    /\ UNCHANGED <<kinds, serial, pushed, handler, connState, socket, written>>

(* pumpOutboundToSession: Read returns bytes, which are queued after.      *)
PumpReads(g) ==
    /\ pump[g].at = "read" /\ pump[g].chunks < MaxChunks
    /\ socket[g] \in {"open", "remoteClosed"}
    /\ pump' = [pump EXCEPT ![g] = [at |-> "queue", chunks |-> @.chunks + 1]]
    /\ UNCHANGED <<kinds, serial, pushed, handler, connState, socket, written, outbox>>

PumpQueues(g) ==
    /\ pump[g].at = "queue"
    /\ Queue(g, "data")
    /\ pump' = [pump EXCEPT ![g] = [@ EXCEPT !.at = "read"]]
    /\ UNCHANGED <<kinds, serial, pushed, handler, connState, socket, written>>

(* Mutant: the pump ends without closeOutbound.                            *)
PumpEnds_NoClose(g) ==
    /\ pump[g].at = "read" /\ socket[g] \in {"remoteClosed", "closed"}
    /\ pump' = [pump EXCEPT ![g] = At("done")]
    /\ UNCHANGED <<kinds, serial, pushed, handler, connState, socket, written, outbox>>

(* Read fails: the remote end closed the socket, or this end did.          *)
PumpEnds(g) ==
    /\ pump[g].at = "read" /\ socket[g] \in {"remoteClosed", "closed"}
    /\ pump' = [pump EXCEPT ![g] = At("close")]
    /\ UNCHANGED <<kinds, serial, pushed, handler, connState, socket, written, outbox>>

PumpTakes(g) ==
    /\ pump[g].at = "close"
    /\ TakeOutbound
    /\ pump' = [pump EXCEPT ![g] = [at |-> "closing", conn |-> outbound]]
    /\ UNCHANGED <<kinds, serial, pushed, handler, socket, written, outbox>>

PumpCloses(g) ==
    /\ pump[g].at = "closing"
    /\ CloseSocket(pump[g].conn)
    /\ pump' = [pump EXCEPT ![g] = At("done")]
    /\ UNCHANGED <<kinds, serial, pushed, handler, connState, written, outbox>>

(* The remote end closes or resets the connection.                         *)
RemoteCloses(g) ==
    /\ socket[g] = "open"
    /\ socket' = [socket EXCEPT ![g] = "remoteClosed"]
    /\ UNCHANGED <<kinds, serial, pushed, handler, connState, pump, written, outbox>>

-----------------------------------------------------------------------------
Forward(h) ==
    \/ ForwardDrop(h) \/ ForwardConnect(h) \/ ForwardData(h)
    \/ Write(h) \/ WriteFails(h) \/ HandlerTakes(h) \/ HandlerCloses(h)

Goroutine(g) ==
    \/ DialFails(g) \/ DialFailed(g) \/ DialSucceeds(g) \/ Announce(g)
    \/ PumpReads(g) \/ PumpQueues(g) \/ PumpEnds(g) \/ PumpTakes(g) \/ PumpCloses(g)

Next ==
    \/ \E h \in Handlers : Receive(h) \/ Forward(h)
    \/ \E g \in Dials : Goroutine(g) \/ RemoteCloses(g)

(* The remote end need not read, so a write may wait until the socket is   *)
(* closed at this end.                                                     *)
MayWait(h) == handler[h].at = "write" /\ socket[handler[h].conn] # "closed"

(* The Go scheduler runs every handler and goroutine that can run, and a   *)
(* dial ends by DialTimeout.                                               *)
FairHandler(h) == WF_vars(Forward(h) /\ ~MayWait(h))
FairGoroutine(g) == WF_vars(Goroutine(g))

Fairness ==
    /\ \A h \in Handlers : FairHandler(h)
    /\ \A g \in Dials : FairGoroutine(g)

Spec == Init /\ [][Next]_vars /\ Fairness
-----------------------------------------------------------------------------
(* connState is well formed, goroutines are started one after the other,   *)
(* and each goroutine that was started has run or is running               *)
(* (server.go:40-47, :279-308).                                            *)
TypeOK ==
    /\ pushed \in 0 .. MaxPayloads /\ dials \in 0 .. pushed
    /\ outbound \in {NoConn} \cup Dials /\ connecting \in BOOLEAN
    /\ \A h \in Handlers :
          handler[h].at \in {"idle", "forward", "write", "close", "closing"}
    /\ \A g \in Dials :
          /\ pump[g].at \in {"idle", "dial", "failed", "announce", "read", "queue",
                             "close", "closing", "done"}
          /\ socket[g] \in {"none", "open", "remoteClosed", "closed"}
          /\ pump[g] = Idle <=> g > dials

(* At most one CONNECT is in flight, and never beside an established       *)
(* connection, however many handlers race (server.go:251-264, :300-303).   *)
OneConnection ==
    LET dialing == {g \in Dials : pump[g].at \in {"dial", "failed"}} IN
    /\ Cardinality(dialing) <= 1
    /\ connecting <=> dialing # {}
    /\ outbound # NoConn => ~connecting

(* A socket that is not closed is the session's outbound, or some thread   *)
(* is about to close it: none is forgotten when write failures, pumps and  *)
(* new CONNECTs cross (server.go:349-358).                                 *)
NoSocketForgotten ==
    \A g \in Dials : socket[g] \in {"open", "remoteClosed"} =>
        \/ outbound = g
        \/ \E h \in Handlers : handler[h] = [at |-> "closing", conn |-> g]
        \/ \E p \in Dials : pump[p] = [at |-> "closing", conn |-> g]

(* When handlers never overlap, what a target receives is the payloads     *)
(* that follow its CONNECT, in order and without a gap, however its        *)
(* connection ends (server.go:229-231, :265-271).  A client that makes one *)
(* call at a time gives less: the handler of a call that failed may still  *)
(* run beside that of the next push.                                       *)
StreamIntact ==
    serial => \A g \in Dials :
        written[g] = [i \in 1 .. Len(written[g]) |-> target[g] + i]

(* The client sees the answer to a CONNECT before any byte of the          *)
(* connection, and one answer only: of what a goroutine queues, the first  *)
(* is the answer and nothing after it is (server.go:280-306).              *)
AnsweredFirst ==
    \A i \in DOMAIN outbox :
        outbox[i].what \in {"OK", "ERROR"} <=>
            \A j \in 1 .. i - 1 : outbox[j].from # outbox[i].from

(* Every CONNECT the server takes is answered (server.go:279-308).         *)
EveryConnectAnswered ==
    \A g \in Dials : (g <= dials) ~> (\E i \in Answers : outbox[i].from = g)

(* When the remote end closes, the server's socket is closed in the end,   *)
(* whichever thread comes to it first (server.go:268-271, :339-345).       *)
SocketsReleased ==
    \A g \in Dials : (socket[g] = "remoteClosed") ~> (socket[g] = "closed")
=============================================================================
