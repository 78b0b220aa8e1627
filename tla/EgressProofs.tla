----------------------------- MODULE EgressProofs ---------------------------
(***************************************************************************)
(* The safety properties of Egress for any handlers, payloads and chunks.  *)
(* `connecting' is a lock that the one dialing goroutine holds, and a      *)
(* socket has an owner: connState, or the thread that took it from         *)
(* connState to close it (IInv).  On top of it, what each goroutine queues *)
(* (AnswersKept) and, when the client pushes one transaction at a time,    *)
(* which payload the connection in use is due (Serial).                    *)
(***************************************************************************)
EXTENDS Egress, FiniteSetTheorems, TLAPS

HandlerStates ==
    {Idle} \cup [at : {"forward"}, payload : Nat]
           \cup [at : {"write"}, payload : Nat, conn : Dials]
           \cup [at : {"close"}]
           \cup [at : {"closing"}, conn : {NoConn} \cup Dials]

PumpStates ==
    {Idle} \cup [at : {"dial", "failed", "announce", "close", "done"}]
           \cup [at : {"read", "queue"}, chunks : Nat]
           \cup [at : {"closing"}, conn : {NoConn} \cup Dials]

Shape ==
    /\ pushed \in Nat /\ pushed <= MaxPayloads
    /\ dials \in Nat /\ dials <= pushed
    /\ outbound \in {NoConn} \cup Dials /\ connecting \in BOOLEAN
    /\ handler \in [Handlers -> HandlerStates]
    /\ pump \in [Dials -> PumpStates]
    /\ target \in [Dials -> Nat]
    /\ socket \in [Dials -> {"none", "open", "remoteClosed", "closed"}]

(* A payload starts one goroutine at most, so goroutines do not run out of *)
(* names.                                                                  *)
PayloadsOnce ==
    /\ \A g \in Dials : pump[g] = Idle <=> g > dials
    /\ \A g \in 1 .. dials : target[g] \in 1 .. pushed
    /\ \A g, k \in 1 .. dials : target[g] = target[k] => g = k
    /\ \A h \in Handlers : handler[h].at = "forward" =>
          /\ handler[h].payload \in 1 .. pushed
          /\ \A g \in 1 .. dials : target[g] # handler[h].payload
          /\ \A k \in Handlers \ {h} :
                handler[k].at = "forward" => handler[k].payload # handler[h].payload

Dialing(g) == pump[g].at \in {"dial", "failed"}

(* `connecting' belongs to one goroutine.                                  *)
OneDialing ==
    /\ \A g \in Dials : Dialing(g) => connecting
    /\ connecting => \E g \in Dials : Dialing(g)
    /\ \A g, k \in Dials : Dialing(g) /\ Dialing(k) => g = k
    /\ outbound # NoConn => ~connecting

(* NoSocketForgotten, with the thread's place taken apart.                 *)
SocketsOwned ==
    \A g \in Dials : socket[g] \in {"open", "remoteClosed"} =>
        \/ outbound = g
        \/ \E h \in Handlers : handler[h].at = "closing" /\ handler[h].conn = g
        \/ \E p \in Dials : pump[p].at = "closing" /\ pump[p].conn = g

IInv == Shape /\ PayloadsOnce /\ OneDialing /\ SocketsOwned

-----------------------------------------------------------------------------
LEMMA Places ==
    ASSUME Shape
    PROVE  /\ \A h \in Handlers :
                 /\ handler[h].at = "write" => handler[h].conn \in Dials
                 /\ handler[h].at = "closing" => handler[h].conn \in {NoConn} \cup Dials
           /\ \A g \in Dials :
                 /\ pump[g].at # "idle" => pump[g] # Idle
                 /\ pump[g].at \in {"read", "queue"} => pump[g].chunks \in Nat
                 /\ pump[g].at = "closing" => pump[g].conn \in {NoConn} \cup Dials
BY DEF Shape, HandlerStates, PumpStates, Idle

LEMMA EgressInit == Init => IInv
PROOF
<1> SUFFICES ASSUME Init PROVE IInv
    OBVIOUS
<1> USE EgressAssumption DEF Init
<1>1. Shape
    <2>1. handler \in [Handlers -> HandlerStates] /\ pump \in [Dials -> PumpStates]
        BY DEF HandlerStates, PumpStates
    <2>2. /\ pushed \in Nat /\ pushed <= MaxPayloads
          /\ dials \in Nat /\ dials <= pushed
          /\ outbound \in {NoConn} \cup Dials
        OBVIOUS
    <2>3. /\ connecting \in BOOLEAN /\ target \in [Dials -> Nat]
          /\ socket \in [Dials -> {"none", "open", "remoteClosed", "closed"}]
        OBVIOUS
    <2> QED BY <2>1, <2>2, <2>3 DEF Shape
<1>2. \A g \in Dials : pump[g] = Idle /\ Idle.at = "idle" /\ g > 0
    BY DEF Dials, Idle
<1>3. \A h \in Handlers : handler[h].at # "forward"
    BY DEF Idle
<1>4. PayloadsOnce
    BY <1>2, <1>3 DEF PayloadsOnce
<1>5. OneDialing
    BY <1>2 DEF OneDialing, Dialing
<1>6. SocketsOwned
    BY DEF SocketsOwned
<1> QED BY <1>1, <1>4, <1>5, <1>6 DEF IInv

(* What a handler does to nothing but its own place.                       *)
LEMMA HandlerMoves ==
    ASSUME IInv, NEW h \in Handlers, NEW place \in HandlerStates,
           handler[h].at # "closing", place.at # "forward",
           handler' = [handler EXCEPT ![h] = place],
           UNCHANGED <<pushed, connState, pump, socket>>
    PROVE  IInv'
PROOF
<1>1. Shape'
    BY DEF IInv, Shape, connState
<1>2. /\ handler'[h] = place
      /\ \A k \in Handlers \ {h} : handler'[k] = handler[k]
    BY DEF IInv, Shape
<1>3. PayloadsOnce'
    BY <1>2 DEF IInv, PayloadsOnce, connState
<1>4. OneDialing'
    BY DEF IInv, OneDialing, Dialing, connState
<1>5. SocketsOwned'
    BY <1>2 DEF IInv, SocketsOwned, connState
<1> QED BY <1>1, <1>3, <1>4, <1>5 DEF IInv

(* What a goroutine that neither starts nor ends a dial does to nothing    *)
(* but its own place.                                                      *)
LEMMA PumpMoves ==
    ASSUME IInv, NEW g \in Dials, NEW place \in PumpStates,
           pump[g].at # "idle", place.at # "idle", pump[g].at # "closing",
           Dialing(g) <=> place.at \in {"dial", "failed"},
           pump' = [pump EXCEPT ![g] = place],
           UNCHANGED <<pushed, handler, connState, socket>>
    PROVE  IInv'
PROOF
<1>1. Shape'
    BY DEF IInv, Shape, connState
<1>2. /\ pump'[g] = place
      /\ \A k \in Dials \ {g} : pump'[k] = pump[k]
    BY DEF IInv, Shape
<1>3. pump[g] # Idle /\ place # Idle
    BY Places DEF IInv, Idle
<1>4. PayloadsOnce'
    BY <1>2, <1>3 DEF IInv, PayloadsOnce, connState
<1>5. \A k \in Dials : Dialing(k)' <=> Dialing(k)
    BY <1>2 DEF Dialing
<1>6. OneDialing'
    BY <1>5 DEF IInv, OneDialing, connState
<1>7. SocketsOwned'
    BY <1>2 DEF IInv, SocketsOwned, connState
<1> QED BY <1>1, <1>4, <1>6, <1>7 DEF IInv

-----------------------------------------------------------------------------
LEMMA ReceiveKeeps ==
    ASSUME IInv, NEW h \in Handlers, Receive(h)
    PROVE  IInv'
PROOF
<1>0. /\ pushed < MaxPayloads /\ pushed' = pushed + 1 /\ handler[h] = Idle
      /\ handler' = [handler EXCEPT ![h] = [at |-> "forward", payload |-> pushed']]
      /\ UNCHANGED <<outbound, connecting, dials, target, pump, socket>>
    BY DEF Receive, connState
<1>1. pushed \in Nat /\ dials \in Nat /\ MaxPayloads \in Nat
    BY EgressAssumption DEF IInv, Shape
<1>2. Shape'
    BY <1>0, <1>1 DEF IInv, Shape, HandlerStates
<1>3. /\ handler'[h].at = "forward" /\ handler'[h].payload = pushed + 1
      /\ handler'[h].at # "closing" /\ Idle.at = "idle"
      /\ \A k \in Handlers \ {h} : handler'[k] = handler[k]
    BY <1>0 DEF IInv, Shape, Idle
<1>4. PayloadsOnce'
    BY <1>0, <1>1, <1>3 DEF IInv, PayloadsOnce
<1>5. OneDialing'
    BY <1>0 DEF IInv, OneDialing, Dialing
<1>6. SocketsOwned'
    <2>1. handler[h].at # "closing"
        BY <1>0 DEF Idle
    <2> QED BY <2>1, <1>0, <1>3 DEF IInv, SocketsOwned
<1> QED BY <1>2, <1>4, <1>5, <1>6 DEF IInv

(* The payload at hand has started no goroutine, so fewer have been        *)
(* started than payloads pushed.                                           *)
LEMMA DialsLeft ==
    ASSUME IInv, NEW h \in Handlers, handler[h].at = "forward"
    PROVE  dials < pushed
PROOF
<1> SUFFICES ASSUME dials = pushed PROVE FALSE
    BY DEF IInv, Shape
<1> DEFINE S == 1 .. dials
           T == (1 .. pushed) \ {handler[h].payload}
<1>1. dials \in Nat /\ pushed \in Nat /\ handler[h].payload \in 1 .. pushed
    BY DEF IInv, Shape, PayloadsOnce
<1>2. IsFiniteSet(S) /\ Cardinality(S) = dials
    BY <1>1, FS_Interval
<1>3. IsFiniteSet(T) /\ Cardinality(T) = pushed - 1
    <2>1. IsFiniteSet(1 .. pushed) /\ Cardinality(1 .. pushed) = pushed
        BY <1>1, FS_Interval
    <2> QED BY <1>1, <2>1, FS_RemoveElement
<1>4. S \subseteq Dials
    BY <1>1, EgressAssumption DEF IInv, Shape, Dials
<1>5. [g \in S |-> target[g]] \in [S -> T]
    BY <1>4 DEF IInv, PayloadsOnce
<1>6. Cardinality(T) < Cardinality(S)
    BY <1>1, <1>2, <1>3
<1>7. \A f \in [S -> T] : \E x, y \in S : x # y /\ f[x] = f[y]
    <2> HIDE DEF S, T
    <2> QED BY <1>2, <1>3, <1>6, FS_PigeonHole
<1>8. \E x, y \in S : x # y /\ [g \in S |-> target[g]][x] = [g \in S |-> target[g]][y]
    BY <1>5, <1>7
<1> QED BY <1>8 DEF IInv, PayloadsOnce

LEMMA ForwardConnectKeeps ==
    ASSUME IInv, NEW h \in Handlers, ForwardConnect(h)
    PROVE  IInv'
PROOF
<1> DEFINE new == dials + 1
<1>0. /\ handler[h].at = "forward" /\ outbound = NoConn /\ ~connecting
      /\ connecting' = TRUE /\ dials' = new
      /\ target' = [target EXCEPT ![new] = handler[h].payload]
      /\ pump' = [pump EXCEPT ![new] = At("dial")]
      /\ handler' = [handler EXCEPT ![h] = Idle]
      /\ UNCHANGED <<pushed, outbound, socket>>
    BY DEF ForwardConnect
<1>1. /\ dials \in Nat /\ pushed \in Nat /\ new \in Dials /\ new <= pushed
      /\ 1 .. dials \subseteq Dials
    BY <1>0, DialsLeft, EgressAssumption DEF IInv, Shape, Dials
<1>2. handler[h].payload \in 1 .. pushed
    BY <1>0 DEF IInv, PayloadsOnce
<1>3. /\ pump'[new] = At("dial") /\ target'[new] = handler[h].payload
      /\ \A g \in Dials \ {new} : pump'[g] = pump[g] /\ target'[g] = target[g]
      /\ handler'[h] = Idle
      /\ \A k \in Handlers \ {h} : handler'[k] = handler[k]
    BY <1>0, <1>1 DEF IInv, Shape
<1>4. /\ At("dial") # Idle /\ At("dial").at = "dial" /\ Idle.at = "idle"
      /\ pump[new] = Idle
    BY <1>1 DEF IInv, PayloadsOnce, At, Idle
<1>5. Shape'
    BY <1>0, <1>1, <1>2 DEF IInv, Shape, HandlerStates, PumpStates, At
<1>6. PayloadsOnce'
    <2> USE DEF PayloadsOnce
    <2>1. \A g \in Dials : pump'[g] = Idle <=> g > dials'
        BY <1>0, <1>1, <1>3, <1>4 DEF IInv, Dials
    <2>2. \A g \in 1 .. dials' : g = new \/ (g \in 1 .. dials /\ g # new)
        BY <1>0, <1>1
    <2>3. \A g \in 1 .. dials' : target'[g] \in 1 .. pushed'
        BY <1>0, <1>1, <1>2, <1>3, <2>2 DEF IInv
    <2>4. \A g, k \in 1 .. dials' : target'[g] = target'[k] => g = k
        BY <1>0, <1>1, <1>3, <2>2 DEF IInv
    <2>5. \A k \in Handlers : handler'[k].at = "forward" =>
            /\ handler'[k].payload \in 1 .. pushed'
            /\ \A g \in 1 .. dials' : target'[g] # handler'[k].payload
            /\ \A j \in Handlers \ {k} :
                  handler'[j].at = "forward" => handler'[j].payload # handler'[k].payload
        BY <1>0, <1>1, <1>3, <1>4, <2>2 DEF IInv
    <2> QED BY <2>1, <2>3, <2>4, <2>5
<1>7. OneDialing'
    BY <1>0, <1>1, <1>3, <1>4 DEF IInv, OneDialing, Dialing
<1>8. SocketsOwned'
    BY <1>0, <1>1, <1>3, <1>4 DEF IInv, SocketsOwned
<1> QED BY <1>5, <1>6, <1>7, <1>8 DEF IInv

-----------------------------------------------------------------------------
(* outbound passes to the thread that took it.                             *)
LEMMA HandlerTakesKeeps ==
    ASSUME IInv, NEW h \in Handlers, HandlerTakes(h)
    PROVE  IInv'
PROOF
<1> DEFINE place == [at |-> "closing", conn |-> outbound]
<1>0. /\ handler[h].at = "close" /\ outbound' = NoConn
      /\ handler' = [handler EXCEPT ![h] = place]
      /\ UNCHANGED <<pushed, connecting, dials, target, pump, socket>>
    BY DEF HandlerTakes, TakeOutbound
<1>1. Shape'
    BY <1>0 DEF IInv, Shape, HandlerStates
<1>2. /\ handler'[h] = place /\ place.at = "closing" /\ place.conn = outbound
      /\ \A k \in Handlers \ {h} : handler'[k] = handler[k]
    BY <1>0 DEF IInv, Shape
<1>3. PayloadsOnce'
    BY <1>0, <1>2 DEF IInv, PayloadsOnce
<1>4. OneDialing'
    BY <1>0 DEF IInv, OneDialing, Dialing
<1>5. SocketsOwned'
    BY <1>0, <1>2 DEF IInv, SocketsOwned
<1> QED BY <1>1, <1>3, <1>4, <1>5 DEF IInv

LEMMA HandlerClosesKeeps ==
    ASSUME IInv, NEW h \in Handlers, HandlerCloses(h)
    PROVE  IInv'
PROOF
<1> DEFINE c == handler[h].conn
<1>0. /\ handler[h].at = "closing"
      /\ socket' = IF c = NoConn THEN socket ELSE [socket EXCEPT ![c] = "closed"]
      /\ handler' = [handler EXCEPT ![h] = Idle]
      /\ UNCHANGED <<pushed, outbound, connecting, dials, target, pump>>
    BY DEF HandlerCloses, CloseSocket, connState
<1>1. Shape'
    BY <1>0, Places DEF IInv, Shape, HandlerStates
<1>2. /\ handler'[h] = Idle /\ Idle.at = "idle" /\ NoConn \notin Dials
      /\ \A k \in Handlers \ {h} : handler'[k] = handler[k]
      /\ \A g \in Dials : socket'[g] = IF g = c THEN "closed" ELSE socket[g]
    BY <1>0 DEF IInv, Shape, Idle, NoConn, Dials
<1>3. PayloadsOnce'
    BY <1>0, <1>2 DEF IInv, PayloadsOnce
<1>4. OneDialing'
    BY <1>0 DEF IInv, OneDialing, Dialing
<1>5. SocketsOwned'
    BY <1>0, <1>2 DEF IInv, SocketsOwned
<1> QED BY <1>1, <1>3, <1>4, <1>5 DEF IInv

LEMMA PumpTakesKeeps ==
    ASSUME IInv, NEW g \in Dials, PumpTakes(g)
    PROVE  IInv'
PROOF
<1> DEFINE place == [at |-> "closing", conn |-> outbound]
<1>0. /\ pump[g].at = "close" /\ outbound' = NoConn
      /\ pump' = [pump EXCEPT ![g] = place]
      /\ UNCHANGED <<pushed, handler, connecting, dials, target, socket>>
    BY DEF PumpTakes, TakeOutbound
<1>1. Shape'
    BY <1>0 DEF IInv, Shape, PumpStates
<1>2. /\ pump'[g] = place /\ place.at = "closing" /\ place.conn = outbound
      /\ place # Idle /\ pump[g] # Idle
      /\ \A k \in Dials \ {g} : pump'[k] = pump[k]
    BY <1>0, Places DEF IInv, Shape, Idle
<1>3. PayloadsOnce'
    BY <1>0, <1>2 DEF IInv, PayloadsOnce
<1>4. OneDialing'
    BY <1>0, <1>2 DEF IInv, OneDialing, Dialing
<1>5. SocketsOwned'
    BY <1>0, <1>2 DEF IInv, SocketsOwned
<1> QED BY <1>1, <1>3, <1>4, <1>5 DEF IInv

LEMMA PumpClosesKeeps ==
    ASSUME IInv, NEW g \in Dials, PumpCloses(g)
    PROVE  IInv'
PROOF
<1> DEFINE c == pump[g].conn
<1>0. /\ pump[g].at = "closing"
      /\ socket' = IF c = NoConn THEN socket ELSE [socket EXCEPT ![c] = "closed"]
      /\ pump' = [pump EXCEPT ![g] = At("done")]
      /\ UNCHANGED <<pushed, handler, outbound, connecting, dials, target>>
    BY DEF PumpCloses, CloseSocket, connState
<1>1. Shape'
    BY <1>0, Places DEF IInv, Shape, PumpStates, At
<1>2. /\ pump'[g] = At("done") /\ At("done").at = "done" /\ At("done") # Idle
      /\ pump[g] # Idle /\ NoConn \notin Dials
      /\ \A k \in Dials \ {g} : pump'[k] = pump[k]
      /\ \A k \in Dials : socket'[k] = IF k = c THEN "closed" ELSE socket[k]
    BY <1>0, Places DEF IInv, Shape, Idle, At, NoConn, Dials
<1>3. PayloadsOnce'
    BY <1>0, <1>2 DEF IInv, PayloadsOnce
<1>4. OneDialing'
    BY <1>0, <1>2 DEF IInv, OneDialing, Dialing
<1>5. SocketsOwned'
    BY <1>0, <1>2 DEF IInv, SocketsOwned
<1> QED BY <1>1, <1>3, <1>4, <1>5 DEF IInv

-----------------------------------------------------------------------------
(* The goroutine that gives `connecting' back is the one that held it.     *)
LEMMA DialFailedKeeps ==
    ASSUME IInv, NEW g \in Dials, DialFailed(g)
    PROVE  IInv'
PROOF
<1>0. /\ pump[g].at = "failed" /\ connecting' = FALSE
      /\ pump' = [pump EXCEPT ![g] = At("done")]
      /\ UNCHANGED <<pushed, handler, outbound, dials, target, socket>>
    BY DEF DialFailed
<1>1. Shape'
    BY <1>0 DEF IInv, Shape, PumpStates, At
<1>2. /\ pump'[g] = At("done") /\ At("done").at = "done" /\ At("done") # Idle
      /\ pump[g] # Idle
      /\ \A k \in Dials \ {g} : pump'[k] = pump[k]
    BY <1>0, Places DEF IInv, Shape, Idle, At
<1>3. PayloadsOnce'
    BY <1>0, <1>2 DEF IInv, PayloadsOnce
<1>4. OneDialing'
    BY <1>0, <1>2 DEF IInv, OneDialing, Dialing
<1>5. SocketsOwned'
    BY <1>0, <1>2 DEF IInv, SocketsOwned
<1> QED BY <1>1, <1>3, <1>4, <1>5 DEF IInv

(* No connection is overwritten: while a dial is under way there is none.  *)
LEMMA DialSucceedsKeeps ==
    ASSUME IInv, NEW g \in Dials, DialSucceeds(g)
    PROVE  IInv'
PROOF
<1>0. /\ pump[g].at = "dial" /\ outbound' = g /\ connecting' = FALSE
      /\ socket' = [socket EXCEPT ![g] = "open"]
      /\ pump' = [pump EXCEPT ![g] = At("announce")]
      /\ UNCHANGED <<pushed, handler, dials, target>>
    BY DEF DialSucceeds
<1>1. Shape'
    BY <1>0 DEF IInv, Shape, PumpStates, At
<1>2. /\ pump'[g] = At("announce") /\ At("announce").at = "announce"
      /\ At("announce") # Idle /\ pump[g] # Idle /\ NoConn \notin Dials
      /\ \A k \in Dials \ {g} : pump'[k] = pump[k] /\ socket'[k] = socket[k]
    BY <1>0, Places DEF IInv, Shape, Idle, At, NoConn, Dials
<1>3. outbound = NoConn
    BY <1>0 DEF IInv, OneDialing, Dialing
<1>4. PayloadsOnce'
    BY <1>0, <1>2 DEF IInv, PayloadsOnce
<1>5. OneDialing'
    BY <1>0, <1>2 DEF IInv, OneDialing, Dialing
<1>6. SocketsOwned'
    BY <1>0, <1>2, <1>3 DEF IInv, SocketsOwned
<1> QED BY <1>1, <1>4, <1>5, <1>6 DEF IInv

LEMMA RemoteClosesKeeps ==
    ASSUME IInv, NEW g \in Dials, RemoteCloses(g)
    PROVE  IInv'
PROOF
<1>0. /\ socket[g] = "open" /\ socket' = [socket EXCEPT ![g] = "remoteClosed"]
      /\ UNCHANGED <<pushed, handler, outbound, connecting, dials, target, pump>>
    BY DEF RemoteCloses, connState
<1>1. Shape' /\ PayloadsOnce' /\ OneDialing'
    BY <1>0 DEF IInv, Shape, PayloadsOnce, OneDialing, Dialing
<1>2. \A k \in Dials :
        socket'[k] \in {"open", "remoteClosed"} => socket[k] \in {"open", "remoteClosed"}
    BY <1>0 DEF IInv, Shape
<1>3. SocketsOwned'
    BY <1>0, <1>2 DEF IInv, SocketsOwned
<1> QED BY <1>1, <1>3 DEF IInv

-----------------------------------------------------------------------------
LEMMA EgressNext == IInv /\ [Next]_vars => IInv'
PROOF
<1> SUFFICES ASSUME IInv, [Next]_vars PROVE IInv'
    OBVIOUS
<1>1. ASSUME NEW h \in Handlers, Forward(h) PROVE IInv'
    <2>1. CASE ForwardDrop(h)
        <3>1. Idle \in HandlerStates /\ Idle.at = "idle"
            BY DEF HandlerStates, Idle
        <3> QED BY <2>1, <3>1, HandlerMoves DEF ForwardDrop
    <2>2. CASE ForwardConnect(h)
        BY <2>2, ForwardConnectKeeps
    <2>3. CASE ForwardData(h)
        <3> DEFINE place == [at |-> "write", payload |-> handler[h].payload, conn |-> outbound]
        <3>1. handler[h].payload \in Nat /\ outbound \in Dials
            BY <2>3 DEF ForwardData, IInv, Shape, PayloadsOnce
        <3>2. place \in HandlerStates /\ place.at = "write"
            BY <3>1 DEF HandlerStates
        <3>3. /\ handler[h].at = "forward" /\ handler' = [handler EXCEPT ![h] = place]
              /\ UNCHANGED <<pushed, connState, pump, socket>>
            BY <2>3 DEF ForwardData
        <3> QED BY <3>2, <3>3, HandlerMoves
    <2>4. CASE Write(h)
        <3>1. Idle \in HandlerStates /\ Idle.at = "idle"
            BY DEF HandlerStates, Idle
        <3> QED BY <2>4, <3>1, HandlerMoves DEF Write
    <2>5. CASE WriteFails(h)
        <3>1. At("close") \in HandlerStates /\ At("close").at = "close"
            BY DEF HandlerStates, At
        <3> QED BY <2>5, <3>1, HandlerMoves DEF WriteFails
    <2> QED BY <1>1, <2>1, <2>2, <2>3, <2>4, <2>5, HandlerTakesKeeps, HandlerClosesKeeps
            DEF Forward
<1>2. ASSUME NEW g \in Dials, Goroutine(g) PROVE IInv'
    <2>1. CASE DialFails(g)
        <3>1. At("failed") \in PumpStates /\ At("failed").at = "failed"
            BY DEF PumpStates, At
        <3> QED BY <2>1, <3>1, PumpMoves DEF DialFails, Dialing
    <2>2. CASE Announce(g)
        <3> DEFINE place == [at |-> "read", chunks |-> 0]
        <3>1. place \in PumpStates /\ place.at = "read"
            BY DEF PumpStates
        <3> QED BY <2>2, <3>1, PumpMoves DEF Announce, Dialing
    <2>3. CASE PumpReads(g)
        <3> DEFINE place == [at |-> "queue", chunks |-> pump[g].chunks + 1]
        <3>1. place \in PumpStates /\ place.at = "queue"
            BY <2>3, Places DEF PumpReads, PumpStates, IInv
        <3>2. /\ pump[g].at = "read" /\ pump' = [pump EXCEPT ![g] = place]
              /\ UNCHANGED <<pushed, handler, connState, socket>>
            BY <2>3 DEF PumpReads
        <3> QED BY <3>1, <3>2, PumpMoves DEF Dialing
    <2>4. CASE PumpQueues(g)
        <3> DEFINE place == [pump[g] EXCEPT !.at = "read"]
        <3>1. pump[g] \in [at : {"read", "queue"}, chunks : Nat]
            BY <2>4 DEF PumpQueues, IInv, Shape, PumpStates, Idle
        <3>2. place \in PumpStates /\ place.at = "read"
            BY <3>1 DEF PumpStates
        <3>3. /\ pump[g].at = "queue" /\ pump' = [pump EXCEPT ![g] = place]
              /\ UNCHANGED <<pushed, handler, connState, socket>>
            BY <2>4 DEF PumpQueues
        <3> QED BY <3>2, <3>3, PumpMoves DEF Dialing
    <2>5. CASE PumpEnds(g)
        <3>1. At("close") \in PumpStates /\ At("close").at = "close"
            BY DEF PumpStates, At
        <3> QED BY <2>5, <3>1, PumpMoves DEF PumpEnds, Dialing
    <2> QED BY <1>2, <2>1, <2>2, <2>3, <2>4, <2>5, DialFailedKeeps, DialSucceedsKeeps,
               PumpTakesKeeps, PumpClosesKeeps DEF Goroutine
<1>3. CASE UNCHANGED vars
    BY <1>3 DEF vars, connState, IInv, Shape, PayloadsOnce, OneDialing, Dialing, SocketsOwned
<1> QED BY <1>1, <1>2, <1>3, ReceiveKeeps, RemoteClosesKeeps DEF Next

LEMMA EgressAlways == Spec => []IInv
BY EgressInit, EgressNext, PTL DEF Spec

(* connState, the handlers and the goroutines stay well formed             *)
(* (server.go:40-47, :279-308).                                            *)
THEOREM TypeCorrect == Spec => []TypeOK
PROOF
<1>1. IInv => TypeOK
    <2> SUFFICES ASSUME IInv PROVE TypeOK
        OBVIOUS
    <2>1. \A h \in Handlers :
            handler[h].at \in {"idle", "forward", "write", "close", "closing"}
        BY DEF IInv, Shape, HandlerStates, Idle
    <2>2. \A g \in Dials :
            pump[g].at \in {"idle", "dial", "failed", "announce", "read", "queue",
                            "close", "closing", "done"}
        BY DEF IInv, Shape, PumpStates, Idle
    <2>3. \A g \in Dials : socket[g] \in {"none", "open", "remoteClosed", "closed"}
        BY DEF IInv, Shape
    <2>4. \A g \in Dials : pump[g] = Idle <=> g > dials
        BY DEF IInv, PayloadsOnce
    <2>5. /\ pushed \in 0 .. MaxPayloads /\ dials \in 0 .. pushed
          /\ outbound \in {NoConn} \cup Dials /\ connecting \in BOOLEAN
        BY EgressAssumption DEF IInv, Shape
    <2> QED BY <2>1, <2>2, <2>3, <2>4, <2>5 DEF TypeOK
<1> QED BY <1>1, EgressAlways, PTL

(* At most one CONNECT is in flight and never beside a connection, however *)
(* many handlers race (server.go:251-264, :300-303).                       *)
THEOREM OneConnectionAlways == Spec => []OneConnection
PROOF
<1>1. IInv => OneConnection
    <2> SUFFICES ASSUME IInv PROVE OneConnection
        OBVIOUS
    <2> DEFINE dialing == {g \in Dials : pump[g].at \in {"dial", "failed"}}
    <2>1. /\ connecting <=> dialing # {}
          /\ \A g, k \in dialing : g = k
          /\ outbound # NoConn => ~connecting
        BY DEF IInv, Shape, OneDialing, Dialing
    <2>2. Cardinality(dialing) <= 1
        <3>1. CASE dialing = {}
            BY <3>1, FS_EmptySet
        <3>2. ASSUME NEW g \in dialing PROVE Cardinality(dialing) <= 1
            <4>1. dialing = {g}
                BY <2>1, <3>2
            <4> HIDE DEF dialing
            <4> QED BY <4>1, FS_Singleton
        <3> QED BY <3>1, <3>2
    <2> QED BY <2>1, <2>2 DEF OneConnection
<1> QED BY <1>1, EgressAlways, PTL

(* A socket that is not closed is the session's outbound or is about to be *)
(* closed by the thread that took it (server.go:349-358).                  *)
THEOREM NoSocketEverForgotten == Spec => []NoSocketForgotten
PROOF
<1>1. IInv => NoSocketForgotten
    <2> SUFFICES ASSUME IInv PROVE NoSocketForgotten
        OBVIOUS
    <2>1. \A h \in Handlers : handler[h].at = "closing" =>
            handler[h] = [at |-> "closing", conn |-> handler[h].conn]
        BY DEF IInv, Shape, HandlerStates, Idle
    <2>2. \A p \in Dials : pump[p].at = "closing" =>
            pump[p] = [at |-> "closing", conn |-> pump[p].conn]
        BY DEF IInv, Shape, PumpStates, Idle
    <2> QED BY <2>1, <2>2 DEF IInv, SocketsOwned, NoSocketForgotten
<1> QED BY <1>1, EgressAlways, PTL

-----------------------------------------------------------------------------
(* The rest of the state is well formed; a socket that is not yet dialed   *)
(* is in nobody's hands and has no bytes written to it.                    *)
Messages == [from : Dials, what : {"OK", "ERROR", "data"}]

Undialed(g) == pump[g].at \in {"idle", "dial"}

Untouched(g) ==
    /\ written[g] = << >> /\ outbound # g
    /\ \A h \in Handlers : handler[h].at = "write" => handler[h].conn # g

StreamShape ==
    /\ kinds \in [1 .. MaxPayloads -> {"connect", "data"}] /\ serial \in BOOLEAN
    /\ outbox \in Seq(Messages)
    /\ written \in [Dials -> Seq(Nat)]
    /\ \A g \in Dials : Undialed(g) => Untouched(g)

(* A goroutine has queued nothing before it queues the answer, and only    *)
(* one that has queued the answer reads its socket.                        *)
Unanswered(g) == pump[g].at \in {"idle", "dial", "announce"}
Reading(g) == pump[g].at \in {"read", "queue"}

AnswersKept ==
    /\ \A g \in Dials : Unanswered(g) => \A i \in DOMAIN outbox : outbox[i].from # g
    /\ \A g \in Dials : Reading(g) => \E i \in DOMAIN outbox : outbox[i].from = g
    /\ AnsweredFirst

-----------------------------------------------------------------------------
(* A goroutine moves itself, and never back to an earlier place.           *)
LEMMA GoroutineAdvances ==
    ASSUME IInv, NEW g \in Dials, Goroutine(g)
    PROVE  /\ pump'[g].at # "idle" /\ pump'[g].at # "dial"
           /\ pump'[g].at = "announce" => pump[g].at = "dial"
           /\ (Reading(g)' /\ ~Reading(g)) => Announce(g)
           /\ \A k \in Dials \ {g} : pump'[k] = pump[k]
PROOF
<1> USE DEF Reading
<1>1. CASE Announce(g)
    BY <1>1 DEF Announce, IInv, Shape
<1>2. CASE PumpQueues(g)
    <2>1. pump[g] \in [at : {"read", "queue"}, chunks : Nat]
        BY <1>2 DEF PumpQueues, IInv, Shape, PumpStates, Idle
    <2> QED BY <1>2, <2>1 DEF PumpQueues, IInv, Shape
<1>3. CASE DialFails(g) \/ DialFailed(g) \/ DialSucceeds(g)
    BY <1>3 DEF DialFails, DialFailed, DialSucceeds, At, IInv, Shape
<1>4. CASE PumpReads(g) \/ PumpEnds(g)
    BY <1>4 DEF PumpReads, PumpEnds, At, IInv, Shape
<1>5. CASE PumpTakes(g) \/ PumpCloses(g)
    BY <1>5 DEF PumpTakes, PumpCloses, At, IInv, Shape
<1> QED BY <1>1, <1>2, <1>3, <1>4, <1>5 DEF Goroutine

LEMMA PumpsAdvance ==
    ASSUME IInv, [Next]_vars, NEW g \in Dials
    PROVE  /\ Undialed(g)' => Undialed(g)
           /\ Unanswered(g)' => Unanswered(g)
           /\ (Reading(g)' /\ ~Reading(g)) => Announce(g)
PROOF
<1> USE DEF Undialed, Unanswered, Reading
<1>1. CASE UNCHANGED pump
    BY <1>1
<1>2. ASSUME NEW h \in Handlers, ForwardConnect(h)
      PROVE  pump'[g] = pump[g] \/ (pump[g] = Idle /\ pump'[g].at = "dial")
    BY <1>2 DEF ForwardConnect, At, IInv, Shape, PayloadsOnce
<1>3. CASE \E h \in Handlers : Receive(h) \/ Forward(h)
    BY <1>1, <1>2, <1>3 DEF Forward, Receive, ForwardDrop, ForwardData, Write, WriteFails,
                HandlerTakes, HandlerCloses, Idle
<1>4. CASE \E k \in Dials : Goroutine(k)
    BY <1>4, GoroutineAdvances
<1>5. CASE \E k \in Dials : RemoteCloses(k)
    BY <1>1, <1>5 DEF RemoteCloses
<1> QED BY <1>1, <1>3, <1>4, <1>5 DEF Next, vars

LEMMA StreamShapeInit == Init => StreamShape
PROOF
<1> SUFFICES ASSUME Init PROVE StreamShape
    OBVIOUS
<1>1. written \in [Dials -> Seq(Nat)] /\ outbox \in Seq(Messages)
    BY DEF Init
<1>2. \A g \in Dials : Untouched(g)
    BY DEF Init, Untouched, Idle, Dials, NoConn
<1> QED BY <1>1, <1>2 DEF Init, StreamShape

LEMMA QueueAppends ==
    ASSUME StreamShape, NEW g \in Dials, NEW what \in {"OK", "ERROR", "data"}, Queue(g, what)
    PROVE  /\ outbox' \in Seq(Messages) /\ Len(outbox) \in Nat
           /\ DOMAIN outbox = 1 .. Len(outbox) /\ DOMAIN outbox' = 1 .. Len(outbox) + 1
           /\ outbox'[Len(outbox) + 1] = [from |-> g, what |-> what]
           /\ \A i \in 1 .. Len(outbox) : outbox'[i] = outbox[i]
BY DEF Queue, StreamShape, Messages

LEMMA StreamShapeNext ==
    ASSUME IInv, StreamShape, [Next]_vars
    PROVE  StreamShape'
PROOF
<1>1. kinds' = kinds /\ serial' = serial
    BY DEF Next, Forward, Receive, ForwardDrop, ForwardConnect, ForwardData, Write, WriteFails,
           HandlerTakes, HandlerCloses, Goroutine, DialFails, DialFailed, DialSucceeds,
           Announce, PumpReads, PumpQueues, PumpEnds, PumpTakes, PumpCloses, RemoteCloses, vars
<1>2. outbox' \in Seq(Messages)
    <2>1. CASE UNCHANGED outbox
        BY <2>1 DEF StreamShape
    <2>2. ASSUME NEW g \in Dials, Goroutine(g) PROVE outbox' \in Seq(Messages)
        BY <2>1, <2>2, QueueAppends
        DEF Goroutine, DialFails, DialFailed, DialSucceeds, Announce, PumpReads,
            PumpQueues, PumpEnds, PumpTakes, PumpCloses
    <2> QED BY <2>1, <2>2 DEF Next, Forward, Receive, ForwardDrop, ForwardConnect, ForwardData,
            Write, WriteFails, HandlerTakes, HandlerCloses, RemoteCloses, vars
<1>3. ASSUME NEW h \in Handlers, Write(h)
      PROVE  written' \in [Dials -> Seq(Nat)] /\ \A g \in Dials : Undialed(g) => written'[g] = << >>
    <2>1. handler[h].conn \in Dials /\ handler[h].payload \in Nat
        <3>1. handler[h] \in HandlerStates /\ handler[h].at = "write"
            BY <1>3 DEF Write, IInv, Shape
        <3> QED BY <3>1 DEF HandlerStates, Idle
    <2>2. ~Undialed(handler[h].conn)
        BY <1>3, <2>1 DEF Write, StreamShape, Untouched
    <2> QED BY <1>3, <2>1, <2>2 DEF Write, StreamShape, Untouched
<1>4. written' \in [Dials -> Seq(Nat)] /\ \A g \in Dials : Undialed(g) => written'[g] = << >>
    <2>1. CASE UNCHANGED written
        BY <2>1 DEF StreamShape, Untouched
    <2> QED BY <1>3, <2>1 DEF Next, Forward, Receive, ForwardDrop, ForwardConnect, ForwardData,
            WriteFails, HandlerTakes, HandlerCloses, Goroutine, DialFails, DialFailed, DialSucceeds,
            Announce, PumpReads, PumpQueues, PumpEnds, PumpTakes, PumpCloses, RemoteCloses, vars
<1>5. ASSUME NEW g \in Dials, Undialed(g)' PROVE outbound' # g
    <2>1. Undialed(g) /\ outbound # g /\ NoConn \notin Dials
        BY <1>5, PumpsAdvance DEF StreamShape, Untouched, NoConn, Dials
    <2>2. ASSUME NEW k \in Dials, DialSucceeds(k) PROVE outbound' # g
        BY <1>5, <2>2 DEF DialSucceeds, Undialed, At, IInv, Shape
    <2> QED BY <2>1, <2>2 DEF Next, Forward, Receive, ForwardDrop, ForwardConnect, ForwardData, Write,
            WriteFails, HandlerTakes, HandlerCloses, Goroutine, DialFails, DialFailed,
            Announce, PumpReads, PumpQueues, PumpEnds, PumpTakes, PumpCloses, RemoteCloses, vars,
            TakeOutbound, connState
<1>6. ASSUME NEW g \in Dials, Undialed(g)', NEW h \in Handlers, handler'[h].at = "write"
      PROVE  handler'[h].conn # g
    <2>1. Undialed(g) /\ outbound # g /\ (handler[h].at = "write" => handler[h].conn # g)
        BY <1>6, PumpsAdvance DEF StreamShape, Untouched
    <2>2. ASSUME NEW k \in Handlers, Forward(k) \/ Receive(k)
          PROVE  handler'[h] = handler[h] \/ handler'[h].conn = outbound
        <3>1. DOMAIN handler = Handlers
            BY DEF IInv, Shape
        <3>2. CASE ForwardData(k)
            BY <3>1, <3>2 DEF ForwardData
        <3>3. CASE ForwardDrop(k) \/ ForwardConnect(k) \/ Write(k) \/ HandlerCloses(k)
            BY <1>6, <3>1, <3>3 DEF ForwardDrop, ForwardConnect, Write, HandlerCloses, Idle
        <3>4. CASE WriteFails(k)
            BY <1>6, <3>1, <3>4 DEF WriteFails, At
        <3>5. CASE HandlerTakes(k)
            BY <1>6, <3>1, <3>5 DEF HandlerTakes
        <3>6. CASE Receive(k)
            BY <1>6, <3>1, <3>6 DEF Receive
        <3> QED BY <2>2, <3>2, <3>3, <3>4, <3>5, <3>6 DEF Forward
    <2>3. ASSUME NEW k \in Dials, Goroutine(k) \/ RemoteCloses(k) PROVE handler' = handler
        BY <2>3 DEF Goroutine, DialFails, DialFailed, DialSucceeds, Announce, PumpReads,
            PumpQueues, PumpEnds, PumpTakes, PumpCloses, RemoteCloses
    <2>4. handler'[h] = handler[h] \/ handler'[h].conn = outbound
        BY <2>2, <2>3 DEF Next, vars
    <2> QED BY <1>6, <2>1, <2>4
<1>7. \A g \in Dials : Undialed(g)' => Untouched(g)'
    BY <1>4, <1>5, <1>6, PumpsAdvance DEF Untouched
<1> QED BY <1>1, <1>2, <1>4, <1>7 DEF StreamShape

-----------------------------------------------------------------------------
(* A message joins the queue: an answer from a goroutine that has queued   *)
(* nothing, or data from one that has queued its answer.                   *)
LEMMA QueueKeepsOrder ==
    ASSUME StreamShape, AnsweredFirst,
           NEW g \in Dials, NEW what \in {"OK", "ERROR", "data"}, Queue(g, what),
           what # "data" <=> \A i \in DOMAIN outbox : outbox[i].from # g
    PROVE  /\ AnsweredFirst'
           /\ \A k \in Dials : (\E i \in DOMAIN outbox : outbox[i].from = k) =>
                               (\E i \in DOMAIN outbox' : outbox'[i].from = k)
           /\ \E i \in DOMAIN outbox' : outbox'[i].from = g
           /\ \A k \in Dials \ {g} : (\A i \in DOMAIN outbox : outbox[i].from # k) =>
                                     (\A i \in DOMAIN outbox' : outbox'[i].from # k)
PROOF
<1> DEFINE m == Len(outbox)
<1>1. /\ m \in Nat /\ DOMAIN outbox = 1 .. m /\ DOMAIN outbox' = 1 .. m + 1
      /\ outbox'[m + 1] = [from |-> g, what |-> what]
      /\ \A i \in 1 .. m : outbox'[i] = outbox[i]
    BY QueueAppends
<1> HIDE DEF m
<1>2. outbox'[m + 1].from = g /\ outbox'[m + 1].what = what
    BY <1>1
<1>3. ASSUME NEW i \in 1 .. m + 1
      PROVE  outbox'[i].what \in {"OK", "ERROR"} <=>
                 \A j \in 1 .. i - 1 : outbox'[j].from # outbox'[i].from
    <2>1. CASE i = m + 1
        <3>1. \A j \in 1 .. m : j \in 1 .. i - 1
            BY <1>1, <2>1
        <3>2. \A j \in 1 .. i - 1 : j \in 1 .. m
            BY <1>1, <2>1
        <3> QED BY <1>1, <1>2, <2>1, <3>1, <3>2
    <2>2. CASE i # m + 1
        <3>1. i \in 1 .. m /\ \A j \in 1 .. i - 1 : j \in 1 .. m
            BY <1>1, <2>2
        <3> QED BY <1>1, <3>1 DEF AnsweredFirst
    <2> QED BY <2>1, <2>2
<1>4. AnsweredFirst'
    BY <1>1, <1>3 DEF AnsweredFirst
<1>5. /\ \A i \in 1 .. m : i \in 1 .. m + 1
      /\ m + 1 \in 1 .. m + 1 /\ \A i \in 1 .. m + 1 : i = m + 1 \/ i \in 1 .. m
    BY <1>1
<1> QED BY <1>1, <1>2, <1>4, <1>5

LEMMA AnswersNext ==
    ASSUME IInv, StreamShape, AnswersKept, [Next]_vars
    PROVE  AnswersKept'
PROOF
<1>1. ASSUME NEW g \in Dials, DialFails(g) \/ Announce(g)
      PROVE  AnswersKept'
    <2>1. PICK what \in {"OK", "ERROR"} : Queue(g, what)
        BY <1>1 DEF DialFails, Announce
    <2>2. \A i \in DOMAIN outbox : outbox[i].from # g
        BY <1>1 DEF DialFails, Announce, AnswersKept, Unanswered
    <2>3. ~Unanswered(g)'
        BY <1>1 DEF DialFails, Announce, Unanswered, At, IInv, Shape
    <2>4. ASSUME NEW k \in Dials PROVE Unanswered(k)' => Unanswered(k) /\ k # g
        BY <2>3, PumpsAdvance
    <2>5. ASSUME NEW k \in Dials PROVE Reading(k)' => Reading(k) \/ k = g
        BY <1>1 DEF DialFails, Announce, Reading, IInv, Shape
    <2> QED BY <2>1, <2>2, <2>4, <2>5, QueueKeepsOrder DEF AnswersKept
<1>2. ASSUME NEW g \in Dials, PumpQueues(g)
      PROVE  AnswersKept'
    <2>1. Queue(g, "data") /\ Reading(g) /\ ~Unanswered(g)
        BY <1>2 DEF PumpQueues, Reading, Unanswered
    <2>2. \E i \in DOMAIN outbox : outbox[i].from = g
        BY <2>1 DEF AnswersKept
    <2>3. ASSUME NEW k \in Dials
          PROVE  (Unanswered(k)' => Unanswered(k) /\ k # g) /\ (Reading(k)' => Reading(k) \/ k = g)
        BY <1>2, <2>1, PumpsAdvance DEF PumpQueues, Reading, IInv, Shape
    <2> QED BY <2>1, <2>2, <2>3, QueueKeepsOrder DEF AnswersKept
<1>3. CASE UNCHANGED outbox
    <2>1. ASSUME NEW g \in Dials, Announce(g) PROVE FALSE
        <3>1. Queue(g, "OK")
            BY <2>1 DEF Announce
        <3>2. Len(outbox) \in Nat /\ 1 .. Len(outbox) = 1 .. Len(outbox) + 1
            BY <1>3, <3>1, QueueAppends
        <3>3. Len(outbox) + 1 \notin 1 .. Len(outbox) /\ Len(outbox) + 1 \in 1 .. Len(outbox) + 1
            BY <3>2
        <3> QED BY <3>2, <3>3
    <2>2. ASSUME NEW g \in Dials
          PROVE  (Unanswered(g)' => Unanswered(g)) /\ (Reading(g)' => Reading(g))
        BY <2>1, PumpsAdvance
    <2> QED BY <1>3, <2>2 DEF AnswersKept, AnsweredFirst
<1> QED BY <1>1, <1>2, <1>3 DEF Next, Forward, Receive, ForwardDrop, ForwardConnect, ForwardData,
            Write, WriteFails, HandlerTakes, HandlerCloses, Goroutine, DialFailed, DialSucceeds,
            PumpReads, PumpEnds, PumpTakes, PumpCloses, RemoteCloses, vars

(* Every goroutine answers its CONNECT before it queues anything else, and *)
(* once (server.go:280-306).                                               *)
THEOREM AnswersComeFirst == Spec => []AnsweredFirst
PROOF
<1> DEFINE Inv == StreamShape /\ AnswersKept
<1>1. Init => Inv
    BY StreamShapeInit DEF Init, AnswersKept, AnsweredFirst, Reading, Idle
<1>2. IInv /\ Inv /\ [Next]_vars => Inv'
    BY StreamShapeNext, AnswersNext
<1>3. Inv => AnsweredFirst
    BY DEF AnswersKept
<1> QED BY <1>1, <1>2, <1>3, EgressAlways, PTL DEF Spec

-----------------------------------------------------------------------------
(* When the client pushes one transaction at a time, one handler runs at a *)
(* time; a dial that can succeed keeps the client waiting; and the         *)
(* connection in use is due the payload at hand.                           *)
AllIdle == \A h \in Handlers : handler[h] = Idle

OneHandler ==
    /\ \A h, k \in Handlers : handler[h] # Idle /\ handler[k] # Idle => h = k
    /\ \A h \in Handlers : handler[h].at \in {"forward", "write"} => handler[h].payload = pushed

DialAlone ==
    \A g \in Dials : pump[g].at = "dial" /\ kinds[target[g]] = "connect" =>
        target[g] = pushed /\ AllIdle

Due(c) == target[c] + Len(written[c]) + 1

NextDue ==
    /\ outbound # NoConn /\ AllIdle => Due(outbound) = pushed + 1
    /\ \A h \in Handlers :
          /\ handler[h].at = "forward" /\ outbound # NoConn => Due(outbound) = pushed
          /\ handler[h].at = "write" =>
                Due(handler[h].conn) = pushed /\ outbound \in {NoConn, handler[h].conn}
          /\ handler[h].at = "closing" => outbound = NoConn

Gapless(g) == written[g] = [i \in 1 .. Len(written[g]) |-> target[g] + i]

Serial == OneHandler /\ DialAlone /\ NextDue /\ \A g \in Dials : Gapless(g)

SerialInv == serial => Serial

(* The pumps: nothing but connState.outbound is lost, and no dial starts.  *)
LEMMA PumpKeepsSerial ==
    ASSUME Serial, UNCHANGED <<kinds, pushed, handler, target, written>>,
           outbound' \in {outbound, NoConn},
           \A g \in Dials : pump'[g].at = "dial" => pump[g].at = "dial"
    PROVE  Serial'
PROOF
<1> USE DEF Serial
<1>1. OneHandler' /\ DialAlone' /\ (AllIdle' <=> AllIdle)
    BY DEF OneHandler, DialAlone, AllIdle
<1>2. \A g \in Dials : Due(g)' = Due(g) /\ Gapless(g)'
    BY DEF Due, Gapless
<1>3. NextDue'
    BY <1>1 DEF NextDue, Due
<1> QED BY <1>1, <1>2, <1>3

(* While a handler runs, no dial can succeed.                              *)
LEMMA BusyAlone ==
    ASSUME Serial, NEW h \in Handlers, handler[h] # Idle
    PROVE  /\ ~AllIdle
           /\ \A k \in Handlers \ {h} : handler[k] = Idle
           /\ \A g \in Dials : pump[g].at = "dial" => kinds[target[g]] # "connect"
BY DEF Serial, OneHandler, DialAlone, AllIdle

(* A handler moves on, or is done with no connection left to write to.     *)
LEMMA HandlerKeepsSerial ==
    ASSUME IInv, Serial, NEW h \in Handlers, handler[h] # Idle,
           NEW place \in HandlerStates, handler' = [handler EXCEPT ![h] = place],
           UNCHANGED <<kinds, pushed, target, written, pump>>,
           outbound' \in {outbound, NoConn},
           \/ place = Idle /\ outbound' = NoConn
           \/ place.at = "write" /\ place.payload = pushed /\ place.conn = outbound'
              /\ outbound' # NoConn /\ Due(outbound) = pushed
           \/ place.at = "close"
           \/ place.at = "closing" /\ outbound' = NoConn
    PROVE  Serial'
PROOF
<1>1. /\ handler'[h] = place
      /\ \A k \in Handlers \ {h} : handler'[k] = Idle
    BY BusyAlone DEF IInv, Shape
<1>2. Idle.at = "idle"
    BY DEF Idle
<1>3. OneHandler'
    BY <1>1, <1>2 DEF OneHandler
<1>4. DialAlone'
    BY BusyAlone DEF DialAlone
<1>5. NextDue'
    <2>1. AllIdle' => outbound' = NoConn
        BY <1>1, <1>2 DEF AllIdle
    <2>2. ASSUME NEW k \in Handlers, handler'[k].at = "write"
          PROVE  Due(handler[k].conn)' = pushed' /\ outbound' \in {NoConn, handler'[k].conn}
        <3>1. k = h /\ place.at = "write" /\ handler'[k].conn = outbound'
            BY <1>1, <1>2, <2>2
        <3>2. outbound' = outbound /\ Due(outbound) = pushed
            BY <1>2, <3>1
        <3> QED BY <3>1, <3>2 DEF Due
    <2>3. ASSUME NEW k \in Handlers
          PROVE  handler'[k].at # "forward" /\ (handler'[k].at = "closing" => outbound' = NoConn)
        BY <1>1, <1>2
    <2> QED BY <2>1, <2>2, <2>3 DEF NextDue
<1>6. \A g \in Dials : Gapless(g)'
    BY DEF Serial, Gapless
<1> QED BY <1>3, <1>4, <1>5, <1>6 DEF Serial

(* The client that waits for the answer to a CONNECT leaves no dial behind *)
(* that could succeed.                                                     *)
LEMMA ReceiveKeepsSerial ==
    ASSUME IInv, StreamShape, AnswersKept, Serial, serial, NEW h \in Handlers, Receive(h)
    PROVE  Serial'
PROOF
<1>1. /\ AllIdle /\ pushed' = pushed + 1 /\ pushed \in Nat /\ Idle.at = "idle"
      /\ handler' = [handler EXCEPT ![h] = [at |-> "forward", payload |-> pushed + 1]]
      /\ UNCHANGED <<kinds, target, pump, written, outbound>>
    BY DEF Receive, AllIdle, connState, IInv, Shape, Idle
<1>2. /\ handler'[h] = [at |-> "forward", payload |-> pushed + 1]
      /\ \A k \in Handlers \ {h} : handler'[k] = Idle
    BY <1>1 DEF IInv, Shape, AllIdle
<1>3. OneHandler'
    BY <1>1, <1>2 DEF OneHandler
<1>4. ASSUME NEW g \in Dials, pump[g].at = "dial", kinds[target[g]] = "connect"
      PROVE  FALSE
    <2>1. target[g] = pushed /\ g \in 1 .. dials
        <3>1. pump[g] # Idle /\ dials \in Nat
            BY <1>4 DEF Idle, IInv, Shape
        <3> QED BY <1>4, <3>1, EgressAssumption DEF Serial, DialAlone, IInv, PayloadsOnce, Dials
    <2>2. pushed > 0
        BY <2>1 DEF IInv, PayloadsOnce
    <2>3. PICK i \in DOMAIN outbox : target[outbox[i].from] = pushed
        BY <1>4, <2>1, <2>2 DEF Receive, ClientReady, Answers
    <2> DEFINE k == outbox[i].from
    <2>4. k \in Dials
        <3>1. outbox[i] \in Messages
            BY <2>3 DEF StreamShape
        <3> QED BY <3>1 DEF Messages
    <2>5. ~Unanswered(k)
        BY <2>4 DEF AnswersKept
    <2>6. k \in 1 .. dials
        <3>1. pump[k] # Idle /\ dials \in Nat
            BY <2>5 DEF Unanswered, Idle, IInv, Shape
        <3> QED BY <2>4, <3>1, EgressAssumption DEF IInv, PayloadsOnce, Dials
    <2>7. k = g
        BY <2>1, <2>3, <2>6 DEF IInv, PayloadsOnce
    <2> QED BY <1>4, <2>5, <2>7 DEF Unanswered
<1>5. DialAlone'
    BY <1>1, <1>4 DEF DialAlone
<1>6. NextDue'
    BY <1>1, <1>2 DEF Serial, NextDue, Due, AllIdle
<1>7. \A g \in Dials : Gapless(g)'
    BY <1>1 DEF Serial, Gapless
<1> QED BY <1>3, <1>5, <1>6, <1>7 DEF Serial

(* The dial that a CONNECT starts is for the payload at hand.              *)
LEMMA ConnectKeepsSerial ==
    ASSUME IInv, StreamShape, Serial, NEW h \in Handlers, ForwardConnect(h)
    PROVE  Serial'
PROOF
<1> DEFINE new == dials + 1
<1>1. /\ handler[h].at = "forward" /\ handler[h] # Idle /\ outbound' = NoConn
      /\ target' = [target EXCEPT ![new] = handler[h].payload]
      /\ pump' = [pump EXCEPT ![new] = At("dial")]
      /\ handler' = [handler EXCEPT ![h] = Idle]
      /\ UNCHANGED <<kinds, pushed, written>>
    BY DEF ForwardConnect, Idle
<1>2. new \in Dials /\ pump[new] = Idle
    <2>1. dials \in Nat /\ pushed \in Nat /\ dials < pushed /\ pushed <= MaxPayloads
        BY <1>1, DialsLeft DEF IInv, Shape
    <2> QED BY <2>1, EgressAssumption DEF Dials, IInv, PayloadsOnce
<1>3. handler[h].payload = pushed
    BY <1>1 DEF Serial, OneHandler
<1>4. AllIdle' /\ Idle.at = "idle"
    BY <1>1, BusyAlone DEF AllIdle, IInv, Shape, Idle
<1>5. /\ target'[new] = pushed
      /\ \A g \in Dials \ {new} : target'[g] = target[g] /\ pump'[g] = pump[g]
    BY <1>1, <1>2, <1>3 DEF IInv, Shape
<1>6. OneHandler' /\ NextDue'
    BY <1>1, <1>4 DEF OneHandler, NextDue, AllIdle
<1>7. DialAlone'
    BY <1>1, <1>4, <1>5, BusyAlone DEF DialAlone
<1>8. written[new] = << >>
    BY <1>2 DEF StreamShape, Undialed, Untouched, Idle
<1>9. ASSUME NEW g \in Dials PROVE Gapless(g)'
    <2>1. CASE g = new
        BY <1>1, <1>8, <2>1 DEF Gapless
    <2>2. CASE g # new
        BY <1>1, <1>5, <2>2 DEF Serial, Gapless
    <2> QED BY <2>1, <2>2
<1> QED BY <1>6, <1>7, <1>9 DEF Serial

(* The payload that is written is the one its connection is due.           *)
LEMMA WriteKeepsSerial ==
    ASSUME IInv, StreamShape, Serial, NEW h \in Handlers, Write(h)
    PROVE  Serial'
PROOF
<1>0. PICK c \in Dials : c = handler[h].conn
    BY Places DEF Write, IInv
<1>1. /\ handler[h].at = "write" /\ handler[h] # Idle
      /\ written' = [written EXCEPT ![c] = Append(@, handler[h].payload)]
      /\ handler' = [handler EXCEPT ![h] = Idle]
      /\ UNCHANGED <<kinds, pushed, target, pump, outbound>>
    BY <1>0 DEF Write, connState, Idle
<1>2. handler[h].payload = pushed /\ Due(c) = pushed /\ outbound \in {NoConn, c}
    BY <1>0, <1>1 DEF Serial, OneHandler, NextDue
<1>3. AllIdle' /\ Idle.at = "idle"
    BY <1>1, BusyAlone DEF AllIdle, IInv, Shape, Idle
<1>4. /\ target[c] \in Nat /\ written[c] \in Seq(Nat) /\ pushed \in Nat
      /\ written'[c] = Append(written[c], pushed)
      /\ \A g \in Dials \ {c} : written'[g] = written[g]
    BY <1>1, <1>2 DEF IInv, Shape, StreamShape
<1>5. Len(written'[c]) = Len(written[c]) + 1 /\ Len(written[c]) \in Nat
    BY <1>4
<1>6. Due(c)' = pushed + 1
    BY <1>1, <1>2, <1>4, <1>5 DEF Due
<1>7. OneHandler' /\ NextDue'
    BY <1>1, <1>2, <1>3, <1>6 DEF OneHandler, NextDue, AllIdle
<1>8. DialAlone'
    BY <1>1, BusyAlone DEF DialAlone
<1>9. ASSUME NEW g \in Dials PROVE Gapless(g)'
    <2>1. CASE g = c
        <3> DEFINE n == Len(written[c])
        <3>1. written[c] = [i \in 1 .. n |-> target[c] + i] /\ pushed = target[c] + (n + 1)
            <4>1. written[c] = [i \in 1 .. n |-> target[c] + i]
                BY DEF Serial, Gapless
            <4>2. \A a, b, d \in Nat : a + b + 1 = d => d = a + (b + 1)
                OBVIOUS
            <4> QED BY <1>2, <1>4, <1>5, <4>1, <4>2 DEF Due
        <3>2. Append(written[c], pushed) = [i \in 1 .. n + 1 |-> target[c] + i]
            <4>1. Append(written[c], pushed) =
                    [i \in 1 .. n + 1 |-> IF i = n + 1 THEN pushed ELSE written[c][i]]
                BY <1>4, <1>5
            <4>2. ASSUME NEW i \in 1 .. n + 1
                  PROVE  (IF i = n + 1 THEN pushed ELSE written[c][i]) = target[c] + i
                <5>1. CASE i = n + 1
                    BY <3>1, <5>1
                <5>2. CASE i # n + 1
                    <6>1. i \in 1 .. n
                        BY <1>5, <5>2
                    <6> QED BY <3>1, <5>2, <6>1
                <5> QED BY <5>1, <5>2
            <4> QED BY <4>1, <4>2
        <3> QED BY <1>1, <1>4, <1>5, <2>1, <3>2 DEF Gapless
    <2>2. CASE g # c
        BY <1>1, <1>4, <2>2 DEF Serial, Gapless
    <2> QED BY <2>1, <2>2
<1> QED BY <1>7, <1>8, <1>9 DEF Serial

LEMMA DialKeepsSerial ==
    ASSUME IInv, StreamShape, Serial, NEW g \in Dials, DialSucceeds(g)
    PROVE  Serial'
PROOF
<1>1. /\ pump[g].at = "dial" /\ kinds[target[g]] = "connect" /\ outbound' = g
      /\ pump' = [pump EXCEPT ![g] = At("announce")]
      /\ UNCHANGED <<kinds, pushed, handler, target, written>>
    BY DEF DialSucceeds
<1>2. AllIdle /\ AllIdle' /\ target[g] = pushed /\ Idle.at = "idle"
    BY <1>1 DEF Serial, DialAlone, AllIdle, Idle
<1>3. written[g] = << >> /\ pushed \in Nat
    BY <1>1 DEF StreamShape, Undialed, Untouched, IInv, Shape
<1>4. Due(g) = pushed + 1
    BY <1>2, <1>3 DEF Due
<1>5. OneHandler' /\ \A k \in Dials : Gapless(k)'
    BY <1>1 DEF Serial, OneHandler, Gapless
<1>6. DialAlone'
    BY <1>1, <1>2 DEF Serial, DialAlone, At, IInv, Shape
<1>7. NextDue'
    BY <1>1, <1>2, <1>4 DEF NextDue, Due, AllIdle
<1> QED BY <1>5, <1>6, <1>7 DEF Serial

LEMMA SerialInit == Init => SerialInv
PROOF
<1> SUFFICES ASSUME Init PROVE Serial
    BY DEF SerialInv
<1>1. /\ \A g \in Dials : written[g] = << >> /\ pump[g] = Idle
      /\ \A h \in Handlers : handler[h] = Idle
      /\ Idle.at = "idle" /\ outbound = NoConn
    BY DEF Init, Idle
<1>2. OneHandler /\ DialAlone /\ NextDue
    BY <1>1 DEF OneHandler, DialAlone, NextDue
<1>3. \A g \in Dials : Gapless(g)
    BY <1>1 DEF Gapless
<1> QED BY <1>2, <1>3 DEF Serial

LEMMA SerialNext ==
    ASSUME IInv, StreamShape, AnswersKept, SerialInv, [Next]_vars
    PROVE  SerialInv'
PROOF
<1> SUFFICES ASSUME serial, Serial PROVE Serial'
    <2>1. serial' = serial
        BY DEF Next, Forward, Receive, ForwardDrop, ForwardConnect, ForwardData, Write, WriteFails,
               HandlerTakes, HandlerCloses, Goroutine, DialFails, DialFailed, DialSucceeds,
               Announce, PumpReads, PumpQueues, PumpEnds, PumpTakes, PumpCloses, RemoteCloses, vars
    <2> QED BY <2>1 DEF SerialInv
<1>1. ASSUME NEW h \in Handlers, Receive(h) PROVE Serial'
    BY <1>1, ReceiveKeepsSerial
<1>2. ASSUME NEW h \in Handlers, Forward(h) PROVE Serial'
    <2>1. CASE ForwardDrop(h)
        <3>1. handler[h] # Idle /\ Idle \in HandlerStates
            BY <2>1 DEF ForwardDrop, Idle, HandlerStates
        <3> QED BY <2>1, <3>1, HandlerKeepsSerial DEF ForwardDrop, connState
    <2>2. CASE ForwardData(h)
        <3> DEFINE place == [at |-> "write", payload |-> handler[h].payload, conn |-> outbound]
        <3>1. /\ handler[h].at = "forward" /\ handler[h] # Idle /\ outbound \in Dials
              /\ handler' = [handler EXCEPT ![h] = place] /\ outbound # NoConn
              /\ UNCHANGED <<kinds, pushed, target, written, pump, outbound>>
            BY <2>2 DEF ForwardData, connState, Idle, IInv, Shape
        <3>2. handler[h].payload = pushed /\ Due(outbound) = pushed
            BY <3>1 DEF Serial, OneHandler, NextDue
        <3>3. place \in HandlerStates
            BY <3>1, <3>2 DEF HandlerStates, IInv, Shape
        <3>4. place.at = "write" /\ place.payload = pushed /\ place.conn = outbound'
            BY <3>1, <3>2
        <3> HIDE DEF place
        <3> QED BY <3>1, <3>2, <3>3, <3>4, HandlerKeepsSerial
    <2>3. CASE WriteFails(h)
        <3>1. handler[h] # Idle /\ At("close") \in HandlerStates /\ At("close").at = "close"
            BY <2>3 DEF WriteFails, Idle, At, HandlerStates
        <3> QED BY <2>3, <3>1, HandlerKeepsSerial DEF WriteFails, connState
    <2>4. CASE HandlerTakes(h)
        <3> DEFINE place == [at |-> "closing", conn |-> outbound]
        <3>1. handler[h] # Idle /\ place \in HandlerStates /\ place.at = "closing"
            BY <2>4 DEF HandlerTakes, Idle, HandlerStates, IInv, Shape
        <3>2. /\ handler' = [handler EXCEPT ![h] = place] /\ outbound' = NoConn
              /\ UNCHANGED <<kinds, pushed, target, written, pump>>
            BY <2>4 DEF HandlerTakes, TakeOutbound
        <3> HIDE DEF place
        <3> QED BY <3>1, <3>2, HandlerKeepsSerial
    <2>5. CASE HandlerCloses(h)
        <3>1. /\ handler[h] # Idle /\ Idle \in HandlerStates /\ outbound = NoConn
              /\ handler' = [handler EXCEPT ![h] = Idle]
              /\ UNCHANGED <<kinds, pushed, target, written, pump, outbound>>
            BY <2>5 DEF HandlerCloses, Idle, HandlerStates, connState, Serial, NextDue
        <3> QED BY <3>1, HandlerKeepsSerial
    <2> QED BY <1>2, <2>1, <2>2, <2>3, <2>4, <2>5, ConnectKeepsSerial, WriteKeepsSerial DEF Forward
<1>3. ASSUME NEW g \in Dials, Goroutine(g), ~DialSucceeds(g) PROVE Serial'
    <2>1. \A k \in Dials : pump'[k].at = "dial" => pump[k].at = "dial"
        BY <1>3, GoroutineAdvances
    <2>2. UNCHANGED <<kinds, pushed, handler, target, written>> /\ outbound' \in {outbound, NoConn}
        BY <1>3 DEF Goroutine, DialFails, DialFailed, Announce, PumpReads, PumpQueues,
                    PumpEnds, PumpTakes, PumpCloses, TakeOutbound, connState
    <2> QED BY <2>1, <2>2, PumpKeepsSerial
<1>4. ASSUME UNCHANGED vars \/ \E g \in Dials : RemoteCloses(g) PROVE Serial'
    <2>1. UNCHANGED <<kinds, pushed, handler, target, written, pump, outbound>>
        BY <1>4 DEF vars, connState, RemoteCloses
    <2> QED BY <2>1, PumpKeepsSerial
<1> QED BY <1>1, <1>2, <1>3, <1>4, DialKeepsSerial DEF Next

(* What a target receives when the client pushes one transaction at a time *)
(* is the payloads that follow its CONNECT, in order and without a gap     *)
(* (server.go:229-231, :265-271).                                          *)
THEOREM StreamsIntact == Spec => []StreamIntact
PROOF
<1> DEFINE Inv == StreamShape /\ AnswersKept /\ SerialInv
<1>1. Init => Inv
    BY StreamShapeInit, SerialInit DEF Init, AnswersKept, AnsweredFirst, Reading, Idle
<1>2. IInv /\ Inv /\ [Next]_vars => Inv'
    BY StreamShapeNext, AnswersNext, SerialNext
<1>3. Inv => StreamIntact
    BY DEF SerialInv, Serial, Gapless, StreamIntact
<1> QED BY <1>1, <1>2, <1>3, EgressAlways, PTL DEF Spec

-----------------------------------------------------------------------------
(* A goroutine that was started is dialing or about to announce, or has    *)
(* answered; in either of the first two places only it moves itself, and   *)
(* every step it can take brings it closer to its answer.                  *)
Answered(g) == \E i \in Answers : outbox[i].from = g
AtWork(g) == pump[g].at \in {"dial", "announce"}

StartedAnswers == \A g \in Dials : g <= dials => AtWork(g) \/ Answered(g)

LEMMA OthersWait ==
    ASSUME IInv, [Next]_vars, NEW g \in Dials, AtWork(g), ~Goroutine(g)
    PROVE  pump'[g] = pump[g]
PROOF
<1> USE DEF AtWork
<1>1. CASE UNCHANGED pump
    BY <1>1
<1>2. ASSUME NEW h \in Handlers, ForwardConnect(h) PROVE pump'[g] = pump[g]
    BY <1>2 DEF ForwardConnect, Idle, IInv, Shape, PayloadsOnce
<1>3. CASE \E h \in Handlers : Receive(h) \/ Forward(h)
    BY <1>1, <1>2, <1>3 DEF Forward, Receive, ForwardDrop, ForwardData, Write, WriteFails,
                HandlerTakes, HandlerCloses
<1>4. CASE \E k \in Dials : Goroutine(k)
    BY <1>4, GoroutineAdvances
<1>5. CASE \E k \in Dials : RemoteCloses(k)
    BY <1>1, <1>5 DEF RemoteCloses
<1> QED BY <1>1, <1>3, <1>4, <1>5 DEF Next, vars

LEMMA QueueAnswers ==
    ASSUME StreamShape, NEW g \in Dials, NEW what \in {"OK", "ERROR"}, Queue(g, what)
    PROVE  Answered(g)'
PROOF
<1>1. /\ DOMAIN outbox' = 1 .. Len(outbox) + 1 /\ Len(outbox) \in Nat
      /\ outbox'[Len(outbox) + 1] = [from |-> g, what |-> what]
    BY QueueAppends DEF Queue, StreamShape
<1> QED BY <1>1 DEF Answered, Answers

LEMMA AnswersStay ==
    ASSUME StreamShape, [Next]_vars, NEW g \in Dials, Answered(g)
    PROVE  Answered(g)'
PROOF
<1>1. CASE UNCHANGED outbox
    BY <1>1 DEF Answered, Answers
<1>2. ASSUME NEW k \in Dials, NEW what, Queue(k, what) PROVE Answered(g)'
    <2>1. PICK i \in DOMAIN outbox : outbox[i].from = g /\ outbox[i].what \in {"OK", "ERROR"}
        BY DEF Answered, Answers
    <2>2. i \in DOMAIN outbox' /\ outbox'[i] = outbox[i]
        BY <1>2, QueueAppends DEF Queue, StreamShape
    <2> QED BY <2>1, <2>2 DEF Answered, Answers
<1> QED BY <1>1, <1>2 DEF Next, Forward, Receive, ForwardDrop, ForwardConnect, ForwardData,
            Write, WriteFails, HandlerTakes, HandlerCloses, Goroutine, DialFails, DialFailed,
            DialSucceeds, Announce, PumpReads, PumpQueues, PumpEnds, PumpTakes, PumpCloses,
            RemoteCloses, vars

LEMMA GoroutineAnswers ==
    ASSUME IInv, StreamShape, NEW g \in Dials, Goroutine(g), AtWork(g)
    PROVE  Answered(g)' \/ (pump[g].at = "dial" /\ pump'[g].at = "announce")
PROOF
<1>1. CASE DialFails(g) \/ Announce(g)
    BY <1>1, QueueAnswers DEF DialFails, Announce
<1>2. CASE DialSucceeds(g)
    BY <1>2 DEF DialSucceeds, At, IInv, Shape
<1> QED BY <1>1, <1>2 DEF AtWork, Goroutine, DialFailed, PumpReads, PumpQueues, PumpEnds, PumpTakes,
            PumpCloses

LEMMA StartedAnswersNext ==
    ASSUME IInv, StreamShape, StartedAnswers, [Next]_vars
    PROVE  StartedAnswers'
PROOF
<1> SUFFICES ASSUME NEW g \in Dials, g <= dials' PROVE AtWork(g)' \/ Answered(g)'
    BY DEF StartedAnswers
<1>1. CASE g <= dials
    <2>1. CASE Answered(g)
        BY <2>1, AnswersStay
    <2>2. CASE AtWork(g)
        BY <2>2, OthersWait, GoroutineAnswers DEF AtWork
    <2> QED BY <1>1, <2>1, <2>2 DEF StartedAnswers
<1>2. CASE ~(g <= dials)
    <2>1. PICK h \in Handlers : ForwardConnect(h)
        BY <1>2 DEF Next, Forward, Receive, ForwardDrop, ForwardData, Write, WriteFails,
               HandlerTakes, HandlerCloses, TakeOutbound, Goroutine, DialFails, DialFailed,
               DialSucceeds, Announce, PumpReads, PumpQueues, PumpEnds, PumpTakes, PumpCloses,
               RemoteCloses, connState, vars
    <2>2. dials' = dials + 1 /\ dials \in Nat /\ g \in Nat /\ pump' = [pump EXCEPT ![dials'] = At("dial")]
        BY <2>1, EgressAssumption DEF ForwardConnect, IInv, Shape, Dials
    <2>3. g = dials'
        BY <1>2, <2>2
    <2> QED BY <2>2, <2>3 DEF AtWork, At, IInv, Shape
<1> QED BY <1>1, <1>2

(* What the fairness of one goroutine promises, as a formula of its own:   *)
(* the temporal prover sees no further into it than it needs.              *)
AnsweredAt(g) == (g <= dials) ~> Answered(g)

LEMMA StartedAlways == Spec => [](IInv /\ StreamShape /\ StartedAnswers)
PROOF
<1>1. Init => StartedAnswers
    <2>1. Init => \A g \in Dials : ~(g <= dials)
        BY EgressAssumption DEF Init, Dials
    <2> QED BY <2>1 DEF StartedAnswers
<1>2. Init => StreamShape
    BY StreamShapeInit
<1>3. IInv /\ StreamShape /\ StartedAnswers /\ [Next]_vars => (StreamShape /\ StartedAnswers)'
    BY StreamShapeNext, StartedAnswersNext
<1> QED BY <1>1, <1>2, <1>3, EgressAlways, PTL DEF Spec

(* A goroutine that a CONNECT has started is dialing, about to announce,   *)
(* or has queued its answer: none ends, or starts to pump, without one     *)
(* (server.go:279-308).                                                    *)
THEOREM NoneEndsUnanswered == Spec => []StartedAnswers
BY StartedAlways, PTL

(* A goroutine that dials or is about to announce waits for nobody: a dial *)
(* may fail at any time and an announcement is one append.  The guards of  *)
(* DialFails and Announce say so; that they ENABLE the steps is beyond the *)
(* provers, so it is a hypothesis.                                         *)
AtWorkRuns == \A g \in Dials : AtWork(g) => ENABLED <<Goroutine(g)>>_vars

(* Every CONNECT the server takes is answered (server.go:279-308), by the  *)
(* fairness of its own goroutine alone.                                    *)
THEOREM ConnectsGetAnswered == Spec /\ []AtWorkRuns => EveryConnectAnswered
PROOF
<1> DEFINE Inv == IInv /\ StreamShape /\ StartedAnswers
<1>1. Spec => []Inv
    BY StartedAlways
<1>2. ASSUME NEW g \in Dials PROVE Spec /\ []AtWorkRuns => AnsweredAt(g)
    <2> DEFINE Dial == pump[g].at = "dial"
               Ready == pump[g].at = "announce"
    <2>1. Inv /\ g <= dials => Dial \/ Ready \/ Answered(g)
        BY DEF StartedAnswers, AtWork
    <2>2. Inv /\ Dial /\ [Next]_vars => Dial' \/ Ready' \/ Answered(g)'
        BY OthersWait, GoroutineAnswers DEF AtWork
    <2>3. Inv /\ Dial /\ <<Goroutine(g)>>_vars => Ready' \/ Answered(g)'
        BY GoroutineAnswers DEF AtWork
    <2>4. Inv /\ Ready /\ [Next]_vars => Ready' \/ Answered(g)'
        BY OthersWait, GoroutineAnswers DEF AtWork
    <2>5. Inv /\ Ready /\ <<Goroutine(g)>>_vars => Answered(g)'
        BY GoroutineAnswers DEF AtWork
    <2>6. AtWorkRuns /\ (Dial \/ Ready) => ENABLED <<Goroutine(g)>>_vars
        BY DEF AtWorkRuns, AtWork
    <2>7. Spec => FairGoroutine(g) /\ [][Next]_vars
        <3>1. Spec => Fairness /\ [][Next]_vars
            BY DEF Spec
        <3>2. Fairness => FairGoroutine(g)
            BY DEF Fairness
        <3> QED BY <3>1, <3>2
    <2> HIDE DEF Inv, Dial, Ready
    <2> QED BY <1>1, <2>1, <2>2, <2>3, <2>4, <2>5, <2>6, <2>7, PTL DEF FairGoroutine, AnsweredAt
<1> QED BY <1>2 DEF EveryConnectAnswered, AnsweredAt, Answered
=============================================================================
