-------------------------------- MODULE Tunnel ------------------------------
(***************************************************************************)
(* The VPN tunnel (android/vpntun/tunnel.go): a goroutine per intercepted  *)
(* TCP flow, which opens a session of its own, sends CONNECT, waits for    *)
(* the result and then starts two pumps; the DNS queries (DnsRelay); and   *)
(* Stop, which closes the stack and waits for the goroutines in its        *)
(* WaitGroup.  The pumps are not in it.                                    *)
(*                                                                         *)
(* The server's half of a flow's session is seen as the flow sees it:      *)
(* Egress has its handlers and goroutines.  What it queues is numbered; a  *)
(* pull returns what is queued, in order (module Channel).  The end of the *)
(* target's connection is never signalled to the client, and what the app  *)
(* sends after it is taken for another CONNECT.                            *)
(***************************************************************************)
EXTENDS DnsRelay

CONSTANTS
    Flows,
    MaxPolls,       \* waitForConnected's polls (50)
    MaxPayloads     \* bound: payloads queued for a flow, answers included

ASSUME TunnelAssumption == MaxPolls \in Nat \ {0} /\ MaxPayloads \in Nat

VARIABLES
    tunnel,         \* running, closing: Stop waits, stopped
    flow,           \* each flow's goroutine: handleFlow
    conn,           \* the app's connection, at this end
    done,           \* the channel `done' is closed
    up,             \* the pump app -> tunnel
    down,           \* the pump tunnel -> app, and its payloads to write
    queue,          \* what the next pull of the flow's session returns
    target,         \* the answer to the flow's CONNECT, and payloads queued
    link,           \* the flow's session at the server: its connection to
                    \* the target, whether an app's payload was reread as a
                    \* CONNECT (history), and a failed push still on its way
    received        \* history: the payloads the app was given

session == <<queue, target, link>>
flows == <<flow, conn, done, up, down, session, received>>
vars == <<tunnel, flows, dns>>

Off == [at |-> "off"]
Ended == [at |-> "ended"]
At(place) == [at |-> place]

Init ==
    /\ DnsInit
    /\ tunnel = "running"
    /\ flow = [f \in Flows |-> At("none")]
    /\ conn = [f \in Flows |-> "none"]
    /\ done = [f \in Flows |-> FALSE]
    /\ up = [f \in Flows |-> Off]
    /\ down = [f \in Flows |-> Off]
    /\ queue = [f \in Flows |-> << >>]
    /\ target = [f \in Flows |-> [result |-> "none", sent |-> 0]]
    /\ link = [f \in Flows |-> [at |-> "off", reread |-> FALSE, late |-> FALSE]]
    /\ received = [f \in Flows |-> << >>]

-----------------------------------------------------------------------------
(* The forwarder's callback makes the endpoint, then adds to the WaitGroup *)
(* and starts the goroutine: Stop may come in between.                     *)
Accept(f) ==
    /\ tunnel = "running" /\ flow[f].at = "none"
    /\ flow' = [flow EXCEPT ![f] = At("accepted")]
    /\ conn' = [conn EXCEPT ![f] = "open"]
    /\ UNCHANGED <<tunnel, dns, done, up, down, session, received>>

Spawn(f) ==
    /\ flow[f].at = "accepted"
    /\ flow' = [flow EXCEPT ![f] = At("open")]
    /\ UNCHANGED <<tunnel, dns, conn, done, up, down, session, received>>

(* handleFlow returns, and its deferred conn.Close and wg.Done run.        *)
FlowReturns(f) ==
    /\ flow' = [flow EXCEPT ![f] = At("returned")]
    /\ conn' = [conn EXCEPT ![f] = "closed"]
    /\ UNCHANGED <<tunnel, dns, done, up, down, session, received>>

(* Open and the push of the target.                                        *)
Connects(f) ==
    /\ flow[f].at = "open"
    /\ flow' = [flow EXCEPT ![f] = [at |-> "wait", polls |-> 0]]
    /\ link' = [link EXCEPT ![f].at = "dialing"]
    /\ UNCHANGED <<tunnel, dns, conn, done, up, down, queue, target, received>>

ConnectFails(f) == flow[f].at \in {"open", "wait"} /\ FlowReturns(f)

(* Mutant: waitForConnected takes any payload for the confirmation.        *)
WaitPoll_Unread(f) ==
    /\ flow[f].at = "wait" /\ flow[f].polls < MaxPolls
    /\ queue' = [queue EXCEPT ![f] = << >>]
    /\ flow' = [flow EXCEPT ![f] = IF queue[f] # << >> THEN At("start")
                                   ELSE [at |-> "wait", polls |-> flow[f].polls + 1]]
    /\ UNCHANGED <<tunnel, dns, conn, done, up, down, target, link, received>>

(* Mutant: the polls are not counted.                                      *)
WaitPoll_Forever(f) ==
    /\ flow[f].at = "wait"
    /\ queue' = [queue EXCEPT ![f] = << >>]
    /\ flow' = [flow EXCEPT ![f] = IF queue[f] # << >> /\ Head(queue[f]).what = "OK"
                                   THEN At("start") ELSE @]
    /\ UNCHANGED <<tunnel, dns, conn, done, up, down, target, link, received>>

(* waitForConnected: what the batch holds after the OK is dropped.         *)
WaitPoll(f) ==
    /\ flow[f].at = "wait" /\ flow[f].polls < MaxPolls
    /\ queue[f] # << >> => Head(queue[f]).what = "OK"
    /\ queue' = [queue EXCEPT ![f] = << >>]
    /\ flow' = [flow EXCEPT ![f] = IF queue[f] # << >> THEN At("start")
                                   ELSE [at |-> "wait", polls |-> flow[f].polls + 1]]
    /\ UNCHANGED <<tunnel, dns, conn, done, up, down, target, link, received>>

(* An ERROR, or no answer in MaxPolls polls.                               *)
WaitEnds(f) ==
    /\ flow[f].at = "wait"
    /\ \/ flow[f].polls = MaxPolls
       \/ queue[f] # << >> /\ Head(queue[f]).what = "ERROR"
    /\ FlowReturns(f)

StartPumps(f) ==
    /\ flow[f].at = "start"
    /\ flow' = [flow EXCEPT ![f] = At("relay")]
    /\ up' = [up EXCEPT ![f] = At("read")]
    /\ down' = [down EXCEPT ![f] = At("check")]
    /\ UNCHANGED <<tunnel, dns, conn, done, session, received>>

RelayEnds(f) == flow[f].at = "relay" /\ done[f] /\ FlowReturns(f)

-----------------------------------------------------------------------------
(* App -> tunnel.                                                          *)
UpReads(f) ==
    /\ up[f].at = "read" /\ conn[f] = "open"
    /\ up' = [up EXCEPT ![f] = At("push")]
    /\ UNCHANGED <<tunnel, dns, flow, conn, done, down, session, received>>

(* forwardPayload, as the app's payload meets it: written while there is a *)
(* connection, dropped while one is being dialed, and a CONNECT otherwise. *)
Forwarded(f) ==
    IF link[f].at = "off" THEN [link[f] EXCEPT !.at = "dialing", !.reread = TRUE]
    ELSE link[f]

UpPushes(f) ==
    /\ up[f].at = "push"
    /\ up' = [up EXCEPT ![f] = At("read")]
    /\ link' = [link EXCEPT ![f] = Forwarded(f)]
    /\ UNCHANGED <<tunnel, dns, flow, conn, done, down, queue, target, received>>

(* Mutant: the pump ends and does not say so.                              *)
UpEnds_Silent(f) ==
    /\ up[f].at = "read" /\ conn[f] # "open"
    /\ up' = [up EXCEPT ![f] = Ended]
    /\ UNCHANGED <<tunnel, dns, flow, conn, done, down, session, received>>

(* Read fails or the app has closed: closeDone.                            *)
UpEnds(f) ==
    /\ up[f].at = "read" /\ conn[f] # "open"
    /\ up' = [up EXCEPT ![f] = Ended]
    /\ done' = [done EXCEPT ![f] = TRUE]
    /\ UNCHANGED <<tunnel, dns, flow, conn, down, session, received>>

(* The push fails: closeDone.  The server may still get it, LatePush.      *)
UpPushFails(f) ==
    /\ up[f].at = "push"
    /\ up' = [up EXCEPT ![f] = Ended]
    /\ done' = [done EXCEPT ![f] = TRUE]
    /\ link' = [link EXCEPT ![f].late = TRUE]
    /\ UNCHANGED <<tunnel, dns, flow, conn, down, queue, target, received>>

LatePush(f) ==
    /\ link[f].late
    /\ link' = [link EXCEPT ![f] = [Forwarded(f) EXCEPT !.late = FALSE]]
    /\ UNCHANGED <<tunnel, dns, flow, conn, done, up, down, queue, target, received>>

-----------------------------------------------------------------------------
(* Tunnel -> app.                                                          *)
DownChecks(f) ==
    /\ down[f].at = "check"
    /\ down' = [down EXCEPT ![f] = IF done[f] THEN Ended ELSE At("pull")]
    /\ UNCHANGED <<tunnel, dns, flow, conn, done, up, session, received>>

DownPulls(f) ==
    /\ down[f].at = "pull"
    /\ queue' = [queue EXCEPT ![f] = << >>]
    /\ down' = [down EXCEPT ![f] = [at |-> "write", batch |-> queue[f]]]
    /\ UNCHANGED <<tunnel, dns, flow, conn, done, up, target, link, received>>

(* Mutant: the batch is cut at the wrong end.                              *)
DownWrites_WrongEnd(f) ==
    /\ down[f].at = "write" /\ down[f].batch # << >> /\ conn[f] \in {"open", "appClosed"}
    /\ received' = [received EXCEPT ![f] = Append(@, Head(down[f].batch))]
    /\ down' = [down EXCEPT ![f].batch = SubSeq(@, 1, Len(@) - 1)]
    /\ UNCHANGED <<tunnel, dns, flow, conn, done, up, session>>

DownWrites(f) ==
    /\ down[f].at = "write" /\ down[f].batch # << >> /\ conn[f] \in {"open", "appClosed"}
    /\ received' = [received EXCEPT ![f] = Append(@, Head(down[f].batch))]
    /\ down' = [down EXCEPT ![f].batch = Tail(@)]
    /\ UNCHANGED <<tunnel, dns, flow, conn, done, up, session>>

DownLoops(f) ==
    /\ down[f].at = "write" /\ down[f].batch = << >>
    /\ down' = [down EXCEPT ![f] = At("check")]
    /\ UNCHANGED <<tunnel, dns, flow, conn, done, up, session, received>>

(* The pull fails, or a write to a connection that is closed: closeDone.   *)
DownEnds(f) ==
    /\ \/ down[f].at = "pull"
       \/ down[f].at = "write" /\ down[f].batch # << >> /\ conn[f] # "open"
    /\ down' = [down EXCEPT ![f] = Ended]
    /\ done' = [done EXCEPT ![f] = TRUE]
    /\ UNCHANGED <<tunnel, dns, flow, conn, up, session, received>>

-----------------------------------------------------------------------------
(* The app, and the target as the flow's session shows it.                 *)
AppCloses(f) ==
    /\ conn[f] = "open"
    /\ conn' = [conn EXCEPT ![f] = "appClosed"]
    /\ UNCHANGED <<tunnel, dns, flow, done, up, down, session, received>>

InUse(f) == flow[f].at \in {"wait", "start", "relay"}

(* queueOutgoing, numbered.                                                *)
Queues(f, what) ==
    LET n == target[f].sent + 1 IN
    /\ target[f].sent < MaxPayloads
    /\ target' = [target EXCEPT ![f].sent = n,
                       ![f].result = IF @ = "none" THEN what ELSE @]
    /\ queue' = [queue EXCEPT ![f] = Append(@, [n |-> n, what |-> what])]

(* dialAndPumpAsync announces the result of a CONNECT, whichever payload   *)
(* it was made of.                                                         *)
TargetAnswers(f) ==
    /\ InUse(f) /\ link[f].at = "dialing"
    /\ \/ Queues(f, "OK") /\ link' = [link EXCEPT ![f].at = "on"]
       \/ Queues(f, "ERROR") /\ link' = [link EXCEPT ![f].at = "off"]
    /\ UNCHANGED <<tunnel, dns, flow, conn, done, up, down, received>>

TargetSends(f) ==
    /\ InUse(f) /\ link[f].at = "on"
    /\ Queues(f, "bytes")
    /\ UNCHANGED <<tunnel, dns, flow, conn, done, up, down, link, received>>

(* The target closes, or a write to it fails: closeOutbound.               *)
TargetEnds(f) ==
    /\ link[f].at = "on"
    /\ link' = [link EXCEPT ![f].at = "off"]
    /\ UNCHANGED <<tunnel, dns, flow, conn, done, up, down, queue, target, received>>

-----------------------------------------------------------------------------
(* Stop: the stack's Close ends every connection.                          *)
Stop ==
    /\ tunnel = "running"
    /\ tunnel' = "closing"
    /\ conn' = [f \in Flows |-> IF conn[f] = "none" THEN "none" ELSE "closed"]
    /\ UNCHANGED <<dns, flow, done, up, down, session, received>>

InWaitGroup ==
    {f \in Flows : flow[f].at \notin {"none", "accepted", "returned"}}
    \cup {q \in Queries : query[q].at \notin {"none", "done"}}

StopReturns ==
    /\ tunnel = "closing" /\ InWaitGroup = {}
    /\ tunnel' = "stopped"
    /\ UNCHANGED <<flows, dns>>

-----------------------------------------------------------------------------
Goroutine(f) ==
    \/ Spawn(f) \/ Connects(f) \/ WaitPoll(f) \/ WaitEnds(f)
    \/ StartPumps(f) \/ RelayEnds(f)
UpPump(f) == UpReads(f) \/ UpPushes(f) \/ UpEnds(f) \/ UpPushFails(f)
DownPump(f) ==
    DownChecks(f) \/ DownPulls(f) \/ DownWrites(f) \/ DownLoops(f) \/ DownEnds(f)
Server(f) == LatePush(f) \/ TargetAnswers(f) \/ TargetSends(f) \/ TargetEnds(f)

DnsStep ==
    \E q \in Queries :
        \/ tunnel = "running" /\ QueryArrives(q)
        \/ Resolve(q)
        \/ PullAnswer(q) \/ PullAnswerFails(q)
        \/ ResolverBegins(q) \/ ResolverEnds(q)

Next ==
    \/ \E f \in Flows :
          \/ Accept(f) \/ Goroutine(f) \/ ConnectFails(f) \/ UpPump(f) \/ DownPump(f)
          \/ AppCloses(f) \/ Server(f)
    \/ DnsStep /\ UNCHANGED <<tunnel, flows>>
    \/ Stop \/ StopReturns

(* Goroutines run when they can and their HTTP calls return, by failing or *)
(* otherwise.  The app, the target and the caller of Stop owe nothing.     *)
Fairness ==
    /\ \A f \in Flows :
          /\ WF_vars(Goroutine(f)) /\ WF_vars(UpPump(f)) /\ WF_vars(DownPump(f))
    /\ \A q \in Queries : WF_vars(Resolve(q) /\ UNCHANGED <<tunnel, flows>>)
    /\ WF_vars(StopReturns)

Spec == Init /\ [][Next]_vars /\ Fairness

-----------------------------------------------------------------------------
(* The flows are well formed; a flow's pumps exist only after its          *)
(* goroutine has started them (tunnel.go:94-101, :289-353).                *)
TypeOK ==
    /\ DnsTypeOK
    /\ tunnel \in {"running", "closing", "stopped"}
    /\ \A f \in Flows :
          /\ flow[f].at \in {"none", "accepted", "open", "wait", "start", "relay", "returned"}
          /\ conn[f] \in {"none", "open", "appClosed", "closed"}
          /\ done[f] \in BOOLEAN
          /\ up[f].at \in {"off", "read", "push", "ended"}
          /\ down[f].at \in {"off", "check", "pull", "write", "ended"}
          /\ link[f].at \in {"off", "dialing", "on"}
          /\ up[f] # Off => flow[f].at \in {"relay", "returned"}

(* The client's side of the contract of server.go:241-249: no payload of   *)
(* the app is pushed before the flow's own CONNECT has been answered, and  *)
(* none if that answer is an ERROR (tunnel.go:284-310).  The ERROR of a    *)
(* later payload that was taken for a CONNECT stops nothing.               *)
ContractKept ==
    \A f \in Flows : up[f] # Off => target[f].result = "OK"

(* Once the app receives anything it receives what its session queues      *)
(* without a gap or a repetition, never the answer to the flow's own       *)
(* CONNECT, and no other answer either unless bytes it sent after its      *)
(* target had gone were taken for a CONNECT (tunnel.go:335-349,            *)
(* server.go:252-262).                                                     *)
BytesInOrder ==
    \A f \in Flows : \A i \in DOMAIN received[f] :
        LET payload == received[f][i] IN
        /\ payload.n > 1 /\ payload.n = received[f][1].n + i - 1
        /\ payload.what = "bytes" \/ link[f].reread

(* When the app closes its connection, or the tunnel does, both pumps and  *)
(* the flow's goroutine end (tunnel.go:289-354).                           *)
FlowsEnd ==
    \A f \in Flows :
        (conn[f] \in {"appClosed", "closed"}) ~>
            (flow[f].at = "returned" /\ up[f].at \in {"off", "ended"}
                                     /\ down[f].at \in {"off", "ended"})

(* Stop returns, whatever the flows and the queries are doing              *)
(* (tunnel.go:220-229).                                                    *)
StopEventuallyReturns == (tunnel = "closing") ~> (tunnel = "stopped")
=============================================================================
