---------------------------- MODULE ServiceProofs ---------------------------
(***************************************************************************)
(* Proofs about Service, for any number of taps, revocations and deaths.   *)
(* The fields have no lock, so the invariant says what each thread may     *)
(* still assume of the tunnel it holds when the other one has run: a       *)
(* tunnel in the hands of a stop is past running, a tunnel being started   *)
(* is nobody else's, and the handle names no other than the one the main   *)
(* thread is stopping.                                                     *)
(*                                                                         *)
(* The button tells the truth on a settled app because it repeats the last *)
(* command: ONLINE means a start is still queued or being executed, or has *)
(* left a running tunnel; anything else means that a stop has been queued  *)
(* after every start.                                                      *)
(***************************************************************************)
EXTENDS Service, WellFoundedInduction, SequenceTheorems, TLAPS

States == {"starting", "running", "closing", "stopped", "failed", "gone"}

Past(t) == t # NoTunnel => tunnels[t] \in {"closing", "stopped"}

StartingOnMain ==
    \A t \in DOMAIN tunnels :
        tunnels[t] = "starting" <=> main.at \in {"established", "starting"} /\ t = main.tunnel

MainHolds ==
    /\ main.tunnel \in DOMAIN tunnels \cup {NoTunnel}
    /\ main = Idle \/ main.at # "idle"
    /\ main.at \in {"established", "starting"} => main.tunnel # NoTunnel /\ tunnelHandle = NoTunnel
    /\ main.at \in {"stop", "destroy"} =>
           Past(main.tunnel) /\ tunnelHandle \in {NoTunnel, main.tunnel}

BinderHolds ==
    /\ binder.tunnel \in DOMAIN tunnels \cup {NoTunnel}
    /\ Past(binder.tunnel)

RunningHeld ==
    overtaken \/ \A t \in DOMAIN tunnels : tunnels[t] = "running" => t = tunnelHandle

ServiceInv ==
    /\ TypeOK
    /\ tunnels \in Seq(States)
    /\ leaked \in BOOLEAN /\ overtaken \in BOOLEAN
    /\ StartingOnMain /\ MainHolds /\ BinderHolds /\ RunningHeld
    /\ InterfaceOwned

LEMMA ServiceInvInit == Init => ServiceInv
PROOF
<1> SUFFICES ASSUME Init PROVE ServiceInv
    OBVIOUS
<1>1. /\ tunnels = << >> /\ DOMAIN tunnels = {} /\ iface = 0 /\ tunnelHandle = 0
      /\ main = [at |-> "idle", tunnel |-> 0] /\ binder = main
    BY DEF Init, Idle, NoTunnel
<1>2. /\ vpnRunning \in BOOLEAN /\ doubt \in BOOLEAN
      /\ leaked \in BOOLEAN /\ overtaken \in BOOLEAN /\ tunFd = "none"
    BY Zenon DEF Init
<1>3. TypeOK /\ tunnels \in Seq(States)
  <2>1. main.at = "idle" /\ binder.at = "idle" /\ tunnels \in Seq(States)
      BY <1>1
  <2> QED BY <1>1, <1>2, <2>1 DEF TypeOK, NoTunnel
<1>4. StartingOnMain /\ RunningHeld /\ InterfaceOwned
    BY <1>1 DEF StartingOnMain, RunningHeld, InterfaceOwned, NoTunnel
<1>5. MainHolds /\ BinderHolds
    BY <1>1 DEF MainHolds, BinderHolds, Past, Idle, NoTunnel
<1> QED BY <1>2, <1>3, <1>4, <1>5 DEF ServiceInv

(* The parts of the invariant that speak of the service and its tunnels do *)
(* not depend on the app, the system and the counts.                       *)
LEMMA Untouched ==
    ASSUME ServiceInv, vpnRunning' \in BOOLEAN, doubt' \in BOOLEAN,
           UNCHANGED <<main, binder, tunnelHandle, tunFd, tunnels, iface, leaked, overtaken>>
    PROVE  ServiceInv'
PROOF
    BY DEF ServiceInv, TypeOK, StartingOnMain, MainHolds, BinderHolds, Past, RunningHeld,
           InterfaceOwned, Up

LEMMA EstablishesInv == ASSUME ServiceInv, StartEstablishes PROVE ServiceInv'
PROOF
<1>1. /\ tunnels' = Append(tunnels, "starting")
      /\ iface' = Len(tunnels') /\ tunFd' = "open"
      /\ main = Idle /\ main' = [at |-> "established", tunnel |-> Len(tunnels')]
      /\ tunnelHandle = NoTunnel
      /\ UNCHANGED <<vpnRunning, binder, tunnelHandle, leaked, overtaken, doubt>>
    BY DEF StartEstablishes, Takes, At, history
<1>2. /\ Len(tunnels) \in Nat /\ Len(tunnels') = Len(tunnels) + 1
      /\ tunnels' \in Seq(States)
      /\ DOMAIN tunnels = 1 .. Len(tunnels) /\ DOMAIN tunnels' = 1 .. Len(tunnels')
      /\ tunnels'[Len(tunnels')] = "starting"
      /\ \A t \in DOMAIN tunnels : tunnels'[t] = tunnels[t]
    BY <1>1 DEF ServiceInv, States
<1>3. TypeOK'
    BY <1>1, <1>2 DEF ServiceInv, TypeOK, NoTunnel
<1>4. StartingOnMain'
    BY <1>1, <1>2 DEF ServiceInv, StartingOnMain, Idle
<1>5. MainHolds' /\ BinderHolds'
    BY <1>1, <1>2 DEF ServiceInv, MainHolds, BinderHolds, Past, NoTunnel, Idle
<1>6. RunningHeld' /\ InterfaceOwned'
    BY <1>1, <1>2 DEF ServiceInv, RunningHeld, InterfaceOwned, Up
<1> QED BY <1>1, <1>2, <1>3, <1>4, <1>5, <1>6 DEF ServiceInv

-----------------------------------------------------------------------------
(* One tunnel changes its state.                                           *)
LEMMA TunnelSet ==
    ASSUME ServiceInv, NEW t \in DOMAIN tunnels, NEW state \in States,
           tunnels' = [tunnels EXCEPT ![t] = state]
    PROVE  /\ tunnels' \in Seq(States) /\ DOMAIN tunnels' = DOMAIN tunnels
           /\ tunnels'[t] = state
           /\ \A u \in DOMAIN tunnels : u # t => tunnels'[u] = tunnels[u]
PROOF
    BY DEF ServiceInv

LEMMA NoTunnelOutside == ASSUME ServiceInv PROVE NoTunnel \notin DOMAIN tunnels
PROOF
    BY DEF ServiceInv, NoTunnel

LEMMA StartReturnsInv == ASSUME ServiceInv, StartReturns PROVE ServiceInv'
PROOF
<1>1. /\ main.at = "starting" /\ main.tunnel \in DOMAIN tunnels
      /\ tunnelHandle = NoTunnel /\ tunnelHandle' = main.tunnel
      /\ main' = [at |-> "idle", tunnel |-> NoTunnel]
      /\ tunnels' = [tunnels EXCEPT ![main.tunnel] = "running"]
      /\ UNCHANGED <<vpnRunning, doubt, binder, tunFd, iface, leaked, overtaken>>
    BY DEF StartReturns, ServiceInv, MainHolds, Idle, app, history
<1>2. /\ tunnels' \in Seq(States) /\ DOMAIN tunnels' = DOMAIN tunnels
      /\ tunnels'[main.tunnel] = "running"
      /\ \A u \in DOMAIN tunnels : u # main.tunnel => tunnels'[u] = tunnels[u]
    BY <1>1, TunnelSet DEF States
<1>3. NoTunnel \notin DOMAIN tunnels /\ tunnels[main.tunnel] = "starting"
    BY <1>1, NoTunnelOutside DEF ServiceInv, StartingOnMain
<1>4. TypeOK'
    BY <1>1, <1>2 DEF ServiceInv, TypeOK
<1>5. StartingOnMain' /\ RunningHeld'
    BY <1>1, <1>2, <1>3 DEF ServiceInv, StartingOnMain, RunningHeld
<1>6. MainHolds' /\ BinderHolds'
    BY <1>1, <1>2, <1>3 DEF ServiceInv, MainHolds, BinderHolds, Past, Idle
<1>7. InterfaceOwned'
    BY <1>1, <1>2, <1>3 DEF ServiceInv, TypeOK, InterfaceOwned, Up
<1> QED BY <1>1, <1>2, <1>4, <1>5, <1>6, <1>7 DEF ServiceInv

(* A Start that fails, and leaves the interface to its stack or to nobody. *)
LEMMA StartThrowsInv ==
    ASSUME ServiceInv, StartThrows, leaked' \in BOOLEAN,
           \/ iface' = Closed(main.tunnel) /\ leaked' = leaked
           \/ iface' = iface /\ leaked' = TRUE
    PROVE  ServiceInv'
PROOF
<1>1. /\ main.at = "starting" /\ main.tunnel \in DOMAIN tunnels
      /\ main' = [at |-> "idle", tunnel |-> NoTunnel]
      /\ tunFd' = "none" /\ doubt' = TRUE
      /\ tunnels' = [tunnels EXCEPT ![main.tunnel] = "failed"]
      /\ tunnelHandle = NoTunnel
      /\ UNCHANGED <<vpnRunning, binder, tunnelHandle, overtaken>>
    BY DEF StartThrows, ServiceInv, MainHolds, Idle, app
<1>2. /\ tunnels' \in Seq(States) /\ DOMAIN tunnels' = DOMAIN tunnels
      /\ tunnels'[main.tunnel] = "failed"
      /\ \A u \in DOMAIN tunnels : u # main.tunnel => tunnels'[u] = tunnels[u]
    BY <1>1, TunnelSet DEF States
<1>3. NoTunnel \notin DOMAIN tunnels /\ tunnels[main.tunnel] = "starting"
    BY <1>1, NoTunnelOutside DEF ServiceInv, StartingOnMain
<1>4. iface' \in {iface, NoTunnel} /\ (leaked' \/ iface' # main.tunnel)
    BY <1>1, <1>3 DEF Closed
<1>5. TypeOK'
    BY <1>1, <1>2, <1>4 DEF ServiceInv, TypeOK
<1>6. StartingOnMain' /\ RunningHeld'
    BY <1>1, <1>2, <1>3 DEF ServiceInv, StartingOnMain, RunningHeld
<1>7. MainHolds' /\ BinderHolds'
    BY <1>1, <1>2, <1>3 DEF ServiceInv, MainHolds, BinderHolds, Past, Idle
<1>8. InterfaceOwned'
    BY <1>1, <1>2, <1>3, <1>4 DEF ServiceInv, TypeOK, InterfaceOwned, Up, Closed
<1> QED BY <1>1, <1>2, <1>5, <1>6, <1>7, <1>8 DEF ServiceInv

LEMMA StopTakesInv ==
    ASSUME ServiceInv, NEW command \in {"stop", "destroy"}, StopTakes(command)
    PROVE  ServiceInv'
PROOF
<1>1. /\ main = Idle /\ main' = [at |-> command, tunnel |-> tunnelHandle]
      /\ CloseTunnel(tunnelHandle)
      /\ UNCHANGED <<vpnRunning, doubt, binder, tunnelHandle, tunFd, leaked, overtaken>>
    BY DEF StopTakes, Takes, At, fields, history
<1>2. NoTunnel \notin DOMAIN tunnels
    BY NoTunnelOutside
<1>3. CASE tunnelHandle = NoTunnel
  <2>1. UNCHANGED <<tunnels, iface>>
      BY <1>1, <1>3 DEF CloseTunnel, network
  <2>2. TypeOK' /\ RunningHeld' /\ InterfaceOwned' /\ BinderHolds'
      BY <1>1, <2>1 DEF ServiceInv, TypeOK, RunningHeld, InterfaceOwned, Up, BinderHolds, Past
  <2>3. StartingOnMain' /\ MainHolds'
      BY <1>1, <1>3, <2>1 DEF ServiceInv, StartingOnMain, MainHolds, Past, Idle
  <2> QED BY <1>1, <2>1, <2>2, <2>3 DEF ServiceInv
<1>4. CASE tunnelHandle # NoTunnel
  <2>1. /\ tunnelHandle \in DOMAIN tunnels
        /\ tunnels[tunnelHandle] \in {"running", "closing"}
        /\ tunnels' = [tunnels EXCEPT ![tunnelHandle] = "closing"]
        /\ iface' = Closed(tunnelHandle)
      BY <1>1, <1>4 DEF CloseTunnel, ServiceInv, TypeOK
  <2>2. /\ tunnels' \in Seq(States) /\ DOMAIN tunnels' = DOMAIN tunnels
        /\ tunnels'[tunnelHandle] = "closing"
        /\ \A u \in DOMAIN tunnels : u # tunnelHandle => tunnels'[u] = tunnels[u]
      BY <2>1, TunnelSet DEF States
  <2>3. iface' \in {iface, NoTunnel} /\ iface' # tunnelHandle
      BY <1>4, <2>1 DEF Closed
  <2>4. TypeOK'
      BY <1>1, <2>1, <2>2, <2>3 DEF ServiceInv, TypeOK
  <2>5. StartingOnMain' /\ RunningHeld'
      BY <1>1, <2>1, <2>2 DEF ServiceInv, StartingOnMain, RunningHeld, Idle
  <2>6. MainHolds' /\ BinderHolds'
      BY <1>1, <2>1, <2>2 DEF ServiceInv, MainHolds, BinderHolds, Past, Idle
  <2>7. InterfaceOwned'
      BY <1>1, <2>1, <2>2, <2>3 DEF ServiceInv, TypeOK, InterfaceOwned, Up
  <2> QED BY <1>1, <2>2, <2>4, <2>5, <2>6, <2>7 DEF ServiceInv
<1> QED BY <1>3, <1>4

(* What a stop that returns, on either thread, does to its tunnel.         *)
LEMMA StoppedTunnel ==
    ASSUME ServiceInv, NEW t \in DOMAIN tunnels \cup {NoTunnel}, Past(t),
           tunnels' = Stopped(t), iface' = CloseFd(iface)
    PROVE  /\ tunnels' \in Seq(States) /\ DOMAIN tunnels' = DOMAIN tunnels
           /\ \A u \in DOMAIN tunnels :
                  \/ tunnels'[u] = tunnels[u]
                  \/ tunnels[u] \in {"closing", "stopped"} /\ tunnels'[u] = "stopped"
           /\ iface' \in {iface, NoTunnel}
PROOF
<1>1. iface' \in {iface, NoTunnel}
    BY DEF CloseFd
<1>2. CASE t = NoTunnel
    BY <1>1, <1>2 DEF Stopped, ServiceInv
<1>3. CASE t # NoTunnel
  <2>1. t \in DOMAIN tunnels /\ tunnels' = [tunnels EXCEPT ![t] = "stopped"]
      BY <1>3 DEF Stopped
  <2>2. /\ tunnels' \in Seq(States) /\ DOMAIN tunnels' = DOMAIN tunnels
        /\ tunnels'[t] = "stopped"
        /\ \A u \in DOMAIN tunnels : u # t => tunnels'[u] = tunnels[u]
      BY <2>1, TunnelSet DEF States
  <2> QED BY <1>1, <1>3, <2>1, <2>2 DEF Past
<1> QED BY <1>2, <1>3

LEMMA StopReturnsInv == ASSUME ServiceInv, StopReturns PROVE ServiceInv'
PROOF
<1>1. /\ main.at \in {"stop", "destroy"} /\ main' = [at |-> "idle", tunnel |-> NoTunnel]
      /\ tunnels' = Stopped(main.tunnel) /\ iface' = CloseFd(iface)
      /\ tunnelHandle' = NoTunnel /\ tunFd' = "none"
      /\ UNCHANGED <<vpnRunning, doubt, binder, leaked, overtaken>>
    BY DEF StopReturns, Idle, app, history
<1>2. /\ main.tunnel \in DOMAIN tunnels \cup {NoTunnel} /\ Past(main.tunnel)
      /\ tunnelHandle \in {NoTunnel, main.tunnel} /\ NoTunnel \notin DOMAIN tunnels
    BY <1>1, NoTunnelOutside DEF ServiceInv, MainHolds
<1>3. /\ tunnels' \in Seq(States) /\ DOMAIN tunnels' = DOMAIN tunnels
      /\ \A u \in DOMAIN tunnels :
             \/ tunnels'[u] = tunnels[u]
             \/ tunnels[u] \in {"closing", "stopped"} /\ tunnels'[u] = "stopped"
      /\ iface' \in {iface, NoTunnel}
    BY <1>1, <1>2, StoppedTunnel
<1>4. TypeOK'
    BY <1>1, <1>3 DEF ServiceInv, TypeOK
<1>5. StartingOnMain'
    BY <1>1, <1>3 DEF ServiceInv, StartingOnMain
<1>6. RunningHeld'
    BY <1>1, <1>2, <1>3 DEF ServiceInv, RunningHeld, Past
<1>7. MainHolds' /\ BinderHolds'
    BY <1>1, <1>2, <1>3 DEF ServiceInv, MainHolds, BinderHolds, Past, Idle
<1>8. InterfaceOwned'
    BY <1>1, <1>3 DEF ServiceInv, TypeOK, InterfaceOwned, Up
<1> QED BY <1>1, <1>3, <1>4, <1>5, <1>6, <1>7, <1>8 DEF ServiceInv

LEMMA RevokeReturnsInv == ASSUME ServiceInv, RevokeReturns PROVE ServiceInv'
PROOF
<1>1. /\ binder' = [at |-> "idle", tunnel |-> NoTunnel]
      /\ tunnels' = Stopped(binder.tunnel) /\ iface' = CloseFd(iface)
      /\ overtaken' = (overtaken \/ tunnelHandle \notin {NoTunnel, binder.tunnel})
      /\ tunnelHandle' = NoTunnel /\ tunFd' = "none"
      /\ UNCHANGED <<vpnRunning, doubt, main, leaked>>
    BY DEF RevokeReturns, Idle, app
<1>2. /\ binder.tunnel \in DOMAIN tunnels \cup {NoTunnel} /\ Past(binder.tunnel)
      /\ NoTunnel \notin DOMAIN tunnels
    BY NoTunnelOutside DEF ServiceInv, BinderHolds
<1>3. /\ tunnels' \in Seq(States) /\ DOMAIN tunnels' = DOMAIN tunnels
      /\ \A u \in DOMAIN tunnels :
             \/ tunnels'[u] = tunnels[u]
             \/ tunnels[u] \in {"closing", "stopped"} /\ tunnels'[u] = "stopped"
      /\ iface' \in {iface, NoTunnel}
    BY <1>1, <1>2, StoppedTunnel
<1>4. TypeOK' /\ overtaken' \in BOOLEAN
    BY <1>1, <1>3 DEF ServiceInv, TypeOK
<1>5. StartingOnMain'
    BY <1>1, <1>3 DEF ServiceInv, StartingOnMain
<1>6. RunningHeld'
    BY <1>1, <1>2, <1>3 DEF ServiceInv, RunningHeld, Past
<1>7. MainHolds' /\ BinderHolds'
    BY <1>1, <1>2, <1>3 DEF ServiceInv, MainHolds, BinderHolds, Past, Idle
<1>8. InterfaceOwned'
    BY <1>1, <1>3 DEF ServiceInv, TypeOK, InterfaceOwned, Up
<1> QED BY <1>1, <1>3, <1>4, <1>5, <1>6, <1>7, <1>8 DEF ServiceInv

LEMMA RevokeBeginsInv == ASSUME ServiceInv, RevokeBegins PROVE ServiceInv'
PROOF
<1>1. /\ binder' = [at |-> "revoke", tunnel |-> tunnelHandle]
      /\ iface' = NoTunnel /\ doubt' = TRUE
      /\ tunnels' = IF tunnelHandle = NoTunnel THEN tunnels
                    ELSE [tunnels EXCEPT ![tunnelHandle] = "closing"]
      /\ UNCHANGED <<vpnRunning, main, tunnelHandle, tunFd, leaked, overtaken>>
    BY DEF RevokeBegins, At, app, fields
<1>2. NoTunnel \notin DOMAIN tunnels
    BY NoTunnelOutside
<1>3. CASE tunnelHandle = NoTunnel
  <2>1. TypeOK' /\ RunningHeld' /\ InterfaceOwned'
      BY <1>1, <1>3 DEF ServiceInv, TypeOK, RunningHeld, InterfaceOwned
  <2>2. StartingOnMain' /\ MainHolds' /\ BinderHolds'
      BY <1>1, <1>3 DEF ServiceInv, StartingOnMain, MainHolds, BinderHolds, Past
  <2> QED BY <1>1, <1>3, <2>1, <2>2 DEF ServiceInv
<1>4. CASE tunnelHandle # NoTunnel
  <2>1. /\ tunnelHandle \in DOMAIN tunnels
        /\ tunnels[tunnelHandle] \in {"running", "closing"}
        /\ tunnels' = [tunnels EXCEPT ![tunnelHandle] = "closing"]
      BY <1>1, <1>4 DEF ServiceInv, TypeOK
  <2>2. /\ tunnels' \in Seq(States) /\ DOMAIN tunnels' = DOMAIN tunnels
        /\ tunnels'[tunnelHandle] = "closing"
        /\ \A u \in DOMAIN tunnels : u # tunnelHandle => tunnels'[u] = tunnels[u]
      BY <2>1, TunnelSet DEF States
  <2>3. TypeOK' /\ InterfaceOwned'
      BY <1>1, <2>1, <2>2 DEF ServiceInv, TypeOK, InterfaceOwned
  <2>4. StartingOnMain' /\ RunningHeld'
      BY <1>1, <2>1, <2>2 DEF ServiceInv, StartingOnMain, RunningHeld
  <2>5. MainHolds' /\ BinderHolds'
      BY <1>1, <1>2, <2>1, <2>2 DEF ServiceInv, MainHolds, BinderHolds, Past
  <2> QED BY <1>1, <2>2, <2>3, <2>4, <2>5 DEF ServiceInv
<1> QED BY <1>3, <1>4

LEMMA ProcessDiesInv == ASSUME ServiceInv, ProcessDies PROVE ServiceInv'
PROOF
<1>1. /\ vpnRunning' = FALSE /\ doubt' = TRUE
      /\ main' = [at |-> "idle", tunnel |-> NoTunnel] /\ binder' = main'
      /\ tunnelHandle' = NoTunnel /\ tunFd' = "none" /\ iface' = NoTunnel
      /\ tunnels' = [t \in DOMAIN tunnels |-> "gone"]
      /\ UNCHANGED <<leaked, overtaken>>
    BY DEF ProcessDies, Idle
<1>2. /\ tunnels' \in Seq(States) /\ DOMAIN tunnels' = DOMAIN tunnels
      /\ \A t \in DOMAIN tunnels : tunnels'[t] = "gone"
    BY <1>1 DEF ServiceInv, States
<1>3. TypeOK'
  <2>1. main'.at = "idle" /\ binder'.at = "idle"
      BY <1>1
  <2> QED BY <1>1, <2>1 DEF TypeOK
<1>4. StartingOnMain' /\ RunningHeld' /\ InterfaceOwned'
    BY <1>1, <1>2 DEF StartingOnMain, RunningHeld, InterfaceOwned
<1>5. MainHolds' /\ BinderHolds'
    BY <1>1, <1>2 DEF MainHolds, BinderHolds, Past, Idle
<1> QED BY <1>1, <1>2, <1>3, <1>4, <1>5 DEF ServiceInv

(* The descriptor changes hands; the tunnel stays the main thread's.       *)
LEMMA DetachFdInv == ASSUME ServiceInv, DetachFd PROVE ServiceInv'
PROOF
<1>1. /\ main.at = "established" /\ main' = [at |-> "starting", tunnel |-> main.tunnel]
      /\ tunFd' = "detached"
      /\ UNCHANGED <<vpnRunning, doubt, binder, tunnelHandle, tunnels, iface, leaked, overtaken>>
    BY DEF DetachFd, At, app, network, history
<1>2. TypeOK' /\ RunningHeld' /\ InterfaceOwned'
    BY <1>1 DEF ServiceInv, TypeOK, RunningHeld, InterfaceOwned, Up
<1>3. StartingOnMain'
    BY <1>1 DEF ServiceInv, StartingOnMain
<1>4. MainHolds' /\ BinderHolds'
    BY <1>1 DEF ServiceInv, MainHolds, BinderHolds, Past, Idle
<1> QED BY <1>1, <1>2, <1>3, <1>4 DEF ServiceInv

-----------------------------------------------------------------------------
(* A tap, by its Boolean parts: the prover's sets want them as such.       *)
LEMMA TapPowerInv == ASSUME ServiceInv, TapPower PROVE ServiceInv'
PROOF
<1>1. vpnRunning' \in BOOLEAN /\ doubt' \in BOOLEAN
    BY Zenon DEF TapPower
<1>2. UNCHANGED <<main, binder, tunnelHandle, tunFd, tunnels, iface, leaked, overtaken>>
    BY DEF TapPower, StartService, fields, network
<1> QED BY <1>1, <1>2, Untouched

LEMMA MainStepInv == ASSUME ServiceInv, MainStep PROVE ServiceInv'
PROOF
<1>1. CASE StartIgnored
    BY <1>1, Untouched DEF StartIgnored, ServiceInv, TypeOK, fields, network, history
<1>2. CASE StartNotPrepared
    BY <1>2, Untouched DEF StartNotPrepared, ServiceInv, TypeOK, fields, network
<1>3. CASE StartEstablishes
    BY <1>3, EstablishesInv
<1>4. CASE DetachFd
    BY <1>4, DetachFdInv
<1>5. CASE DetachThrows
    BY <1>5, ProcessDiesInv DEF DetachThrows
<1>6. CASE StartReturns
    BY <1>6, StartReturnsInv
<1>7. CASE RelayFails
    BY <1>7, StartThrowsInv DEF RelayFails, ServiceInv
<1>8. CASE StackFails
    BY <1>8, StartThrowsInv DEF StackFails
<1>9. CASE StopBegins
    BY <1>9, StopTakesInv DEF StopBegins
<1>10. CASE DestroyBegins
    BY <1>10, StopTakesInv DEF DestroyBegins
<1>11. CASE StopReturns
    BY <1>11, StopReturnsInv
<1> QED BY <1>1, <1>2, <1>3, <1>4, <1>5, <1>6, <1>7, <1>8, <1>9, <1>10, <1>11 DEF MainStep

LEMMA ServiceInvStep == ServiceInv /\ [Next]_vars => ServiceInv'
PROOF
<1> SUFFICES ASSUME ServiceInv, [Next]_vars PROVE ServiceInv'
    OBVIOUS
<1>1. CASE TapPower
    BY <1>1, TapPowerInv
<1>2. CASE TapNotification
    BY <1>2, Untouched DEF TapNotification, StartService, ServiceInv, TypeOK, fields, network
<1>3. CASE MainStep
    BY <1>3, MainStepInv
<1>4. CASE RevokeBegins
    BY <1>4, RevokeBeginsInv
<1>5. CASE RevokeReturns
    BY <1>5, RevokeReturnsInv
<1>6. CASE Unbind
    BY <1>6, Untouched DEF Unbind, ServiceInv, TypeOK, app, fields, network, history
<1>7. CASE BringDown
    BY <1>7, Untouched DEF BringDown, ServiceInv, TypeOK, fields, network, history
<1>8. CASE Killed
    BY <1>8, ProcessDiesInv DEF Killed
<1>9. CASE ActivityRecreated
    BY <1>9, Untouched DEF ActivityRecreated, fields, network
<1>10. CASE UNCHANGED vars
    BY <1>10, Untouched DEF vars, app, fields, network, history, ServiceInv, TypeOK
<1> QED BY <1>1, <1>2, <1>3, <1>4, <1>5, <1>6, <1>7, <1>8, <1>9, <1>10 DEF Next

THEOREM ServiceInvariant == Spec => []ServiceInv
PROOF
    BY ServiceInvInit, ServiceInvStep, PTL DEF Spec

(* The fields are well formed, for any number of taps, revocations and     *)
(* deaths: the handle names a tunnel that Start has returned and that no   *)
(* Stop has finished (TunnelService.kt:34-35, :112-138).                   *)
THEOREM ServiceTypeCorrect == Spec => []TypeOK
PROOF
    BY ServiceInvariant, PTL DEF ServiceInv

(* As long as no onRevoke has overtaken a newer start, every tunnel that   *)
(* is up is the service's or is being started, so that stopping the        *)
(* service stops them all (TunnelService.kt:63, :118-138, :174-177).       *)
THEOREM TunnelsAreHeld == Spec => []NoTunnelForgotten
PROOF
<1>1. ServiceInv => NoTunnelForgotten
    BY DEF ServiceInv, StartingOnMain, RunningHeld, NoTunnelForgotten, Up
<1> QED BY <1>1, ServiceInvariant, PTL

(* The interface always has a tunnel behind it, or comes from a Start that *)
(* failed before its stack was complete (tunnel.go:107-168, :220-229).     *)
THEOREM InterfaceIsOwned == Spec => []InterfaceOwned
PROOF
    BY ServiceInvariant, PTL DEF ServiceInv

-----------------------------------------------------------------------------
(* The button.  When the last tap that counted turned it off, a stop comes *)
(* after the last start, or nothing is left to stop; when it turned it on, *)
(* the start is coming, under way or done.  A handle that is being closed  *)
(* is being closed by one of the threads, so a start that finds a handle   *)
(* finds a running tunnel.  That the last tap was made in doubt, and what  *)
(* failed or was revoked since, matters to ONLINE alone.                   *)
HandleClosing ==
    tunnelHandle # NoTunnel /\ tunnels[tunnelHandle] = "closing" =>
        \/ main.at \in {"stop", "destroy"} /\ main.tunnel = tunnelHandle
        \/ binder.at = "revoke" /\ binder.tunnel = tunnelHandle

OffComes ==
    \/ \E i \in DOMAIN inbox :
          /\ inbox[i] \in {"stop", "destroy"}
          /\ \A j \in i + 1 .. Len(inbox) : inbox[j] # "start"
    \/ /\ \A j \in DOMAIN inbox : inbox[j] # "start"
       /\ \A t \in DOMAIN tunnels : ~Up(t)

OnComes ==
    /\ wanted /\ binder = Idle
    /\ \/ inbox = <<"start">> /\ main = Idle
       \/ inbox = << >> /\ main.at \in {"established", "starting"}
       \/ inbox = << >> /\ main = Idle /\ tunnelHandle # NoTunnel

Commands == {"start", "stop", "destroy"}

Counts == [taps : Nat, revokes : Nat, deaths : Nat]

SureOfOff == ~overtaken /\ (~doubt \/ counts.deaths = 0)

UiInv ==
    /\ inbox \in Seq(Commands) /\ counts \in Counts
    /\ HandleClosing
    /\ SureOfOff /\ ~vpnRunning => OffComes
    /\ ~doubt /\ ~overtaken /\ vpnRunning => OnComes

LEMMA UiInvTells == ServiceInv /\ UiInv => UiTellsTruth
PROOF
<1> SUFFICES ASSUME ServiceInv, UiInv, Settled, ~doubt, ~overtaken
             PROVE  vpnRunning <=> \E t \in DOMAIN tunnels : tunnels[t] = "running"
    BY DEF UiTellsTruth
<1>1. /\ inbox = << >> /\ main.at = "idle" /\ binder.at = "idle" /\ DOMAIN inbox = {}
    BY DEF Settled, Idle
<1>2. CASE vpnRunning
    <2>1. tunnelHandle # NoTunnel
        BY <1>1, <1>2 DEF UiInv, OnComes
    <2>2. tunnelHandle \in DOMAIN tunnels /\ tunnels[tunnelHandle] = "running"
        BY <1>1, <2>1 DEF UiInv, HandleClosing, ServiceInv, TypeOK
    <2> QED BY <1>2, <2>2
<1>3. CASE ~vpnRunning
    BY <1>1, <1>3 DEF UiInv, SureOfOff, OffComes, Up
<1> QED BY <1>2, <1>3

(* The tail of the inbox, and one more command.                            *)
LEMMA OffTail ==
    ASSUME NEW box \in Seq(Commands), box # << >>, NEW i \in DOMAIN box, i > 1,
           box[i] \in {"stop", "destroy"}, \A j \in i + 1 .. Len(box) : box[j] # "start"
    PROVE  \E k \in DOMAIN Tail(box) :
              /\ Tail(box)[k] \in {"stop", "destroy"}
              /\ \A j \in k + 1 .. Len(Tail(box)) : Tail(box)[j] # "start"
PROOF
<1>1. PICK rest : rest = Tail(box)
    OBVIOUS
<1>2. PICK n \in Nat : n = Len(box) /\ DOMAIN box = 1 .. n
    OBVIOUS
<1>3. /\ rest \in Seq(Commands) /\ Len(rest) = n - 1 /\ DOMAIN rest = 1 .. n - 1
      /\ \A k \in 1 .. n - 1 : rest[k] = box[k + 1]
    BY <1>1, <1>2
<1>4. i - 1 \in 1 .. n - 1 /\ rest[i - 1] = box[i]
    BY <1>2, <1>3
<1>5. ASSUME NEW j \in i - 1 + 1 .. n - 1 PROVE rest[j] # "start"
    <2>1. j \in 1 .. n - 1 /\ j + 1 \in i + 1 .. n /\ rest[j] = box[j + 1]
        BY <1>2, <1>3
    <2> QED BY <1>2, <2>1
<1> QED BY <1>1, <1>3, <1>4, <1>5

LEMMA UiInvTellsOff == ServiceInv /\ UiInv => OffIsOff
PROOF
<1> SUFFICES ASSUME ServiceInv, UiInv, Settled, ~vpnRunning, counts.deaths = 0, ~overtaken
             PROVE  /\ \A t \in DOMAIN tunnels : ~Up(t)
                    /\ iface = NoTunnel \/ leaked
    BY DEF OffIsOff
<1>1. DOMAIN inbox = {} /\ OffComes
    BY DEF UiInv, SureOfOff, Settled
<1>2. \A t \in DOMAIN tunnels : ~Up(t)
    BY <1>1 DEF OffComes
<1> QED BY <1>2 DEF ServiceInv, TypeOK, InterfaceOwned

LEMMA UiInvInit == Init => UiInv
PROOF
<1> SUFFICES ASSUME Init PROVE UiInv
    OBVIOUS
<1>1. /\ inbox = << >> /\ tunnels = << >> /\ tunnelHandle = NoTunnel /\ ~vpnRunning
      /\ DOMAIN inbox = {} /\ DOMAIN tunnels = {} /\ inbox \in Seq(Commands)
      /\ counts \in Counts
    BY DEF Init, Counts
<1> QED BY <1>1 DEF UiInv, HandleClosing, OffComes

LEMMA UiInvTapPower == ServiceInv /\ UiInv /\ TapPower => UiInv'
PROOF
<1> SUFFICES ASSUME ServiceInv, UiInv, TapPower PROVE UiInv'
    OBVIOUS
<1>1. /\ main = Idle /\ vpnRunning' = ~vpnRunning
      /\ doubt' = (~vpnRunning /\ ~Settled) /\ wanted' = TRUE
      /\ UNCHANGED <<main, binder, tunnelHandle, tunnels, overtaken>>
      /\ counts' \in Counts
    BY DEF TapPower, StartService, fields, network, UiInv, Counts
<1>2. PICK action \in Commands :
          action = (IF vpnRunning THEN "stop" ELSE "start") /\ inbox' = Append(inbox, action)
    BY DEF TapPower, StartService, Commands
<1>3. PICK n \in Nat : n = Len(inbox)
    BY DEF UiInv
<1>4. /\ inbox' \in Seq(Commands) /\ Len(inbox') = n + 1 /\ inbox'[n + 1] = action
      /\ n + 1 \in DOMAIN inbox'
    BY <1>2, <1>3 DEF UiInv
<1>5. HandleClosing'
    BY <1>1 DEF UiInv, HandleClosing
<1>6. CASE vpnRunning
    <2>1. ~vpnRunning' /\ inbox'[n + 1] = "stop"
        BY <1>1, <1>2, <1>4, <1>6
    <2>2. OffComes'
        BY <1>4, <2>1 DEF OffComes
    <2> QED BY <1>1, <1>4, <1>5, <2>1, <2>2 DEF UiInv
<1>7. CASE ~vpnRunning
    <2>1. vpnRunning' /\ action = "start"
        BY <1>1, <1>2, <1>7
    <2>2. ASSUME ~doubt' PROVE OnComes'
        <3>1. inbox = << >> /\ binder = Idle
            BY <1>1, <1>7, <2>2 DEF Settled
        <3>2. inbox' = <<"start">>
            BY <1>2, <2>1, <3>1
        <3> QED BY <1>1, <3>1, <3>2 DEF OnComes
    <2> QED BY <1>1, <1>4, <1>5, <2>1, <2>2 DEF UiInv
<1> QED BY <1>6, <1>7

(* A command is taken from the inbox.                                      *)
LEMMA Taken ==
    ASSUME UiInv, NEW command, Takes(command)
    PROVE  /\ main = Idle /\ inbox # << >> /\ inbox[1] = command /\ inbox' = Tail(inbox)
           /\ 1 \in DOMAIN inbox /\ inbox' \in Seq(Commands)
           /\ \A j \in DOMAIN inbox' : j + 1 \in DOMAIN inbox /\ inbox'[j] = inbox[j + 1]
           /\ inbox = <<"start">> => inbox' = << >>
PROOF
<1>1. main = Idle /\ inbox # << >> /\ Head(inbox) = command /\ inbox' = Tail(inbox)
    BY DEF Takes
<1>2. inbox \in Seq(Commands)
    BY DEF UiInv
<1>3. /\ 1 \in DOMAIN inbox /\ Tail(inbox) \in Seq(Commands)
      /\ \A j \in DOMAIN Tail(inbox) : j + 1 \in DOMAIN inbox /\ Tail(inbox)[j] = inbox[j + 1]
    BY <1>1, <1>2
<1> QED BY <1>1, <1>3

LEMMA UiInvStart ==
    ServiceInv /\ UiInv /\ (StartIgnored \/ StartEstablishes \/ StartNotPrepared) => UiInv'
PROOF
<1> SUFFICES ASSUME ServiceInv, UiInv, StartIgnored \/ StartEstablishes \/ StartNotPrepared
             PROVE  UiInv'
    OBVIOUS
<1>0. Takes("start")
    BY DEF StartIgnored, StartEstablishes, StartNotPrepared
<1>1. /\ main = Idle /\ inbox # << >> /\ inbox[1] = "start" /\ inbox' = Tail(inbox)
      /\ 1 \in DOMAIN inbox /\ inbox' \in Seq(Commands)
      /\ inbox = <<"start">> => inbox' = << >>
    BY <1>0, Taken
<1>2. UNCHANGED <<vpnRunning, binder, tunnelHandle, overtaken, counts>>
    BY DEF StartIgnored, StartEstablishes, StartNotPrepared, fields, history
<1>3. HandleClosing'
    <2>1. CASE StartEstablishes
        BY <1>2, <2>1 DEF StartEstablishes, HandleClosing
    <2>2. CASE StartIgnored \/ StartNotPrepared
        BY <1>2, <2>2 DEF StartIgnored, StartNotPrepared, HandleClosing, UiInv, network
    <2> QED BY <2>1, <2>2
<1>4. OffComes => OffComes'
    <2> SUFFICES ASSUME OffComes PROVE OffComes'
        OBVIOUS
    <2>1. PICK i \in DOMAIN inbox : /\ inbox[i] \in {"stop", "destroy"}
                                    /\ \A j \in i + 1 .. Len(inbox) : inbox[j] # "start"
        BY <1>1 DEF OffComes
    <2>2. i > 1
        BY <1>1, <2>1 DEF UiInv
    <2> QED BY <1>1, <2>1, <2>2, OffTail DEF UiInv, OffComes
<1>5. OnComes => doubt' \/ OnComes'
    <2> SUFFICES ASSUME OnComes, ~doubt' PROVE OnComes'
        OBVIOUS
    <2>1. wanted /\ binder = Idle /\ inbox' = << >>
        BY <1>1 DEF OnComes
    <2>2. CASE StartIgnored
        BY <1>1, <2>1, <2>2 DEF StartIgnored, OnComes, fields, system
    <2>3. CASE StartEstablishes
        BY <1>1, <2>1, <2>3 DEF StartEstablishes, OnComes, At
    <2>4. CASE StartNotPrepared
        BY <2>4 DEF StartNotPrepared
    <2> QED BY <2>2, <2>3, <2>4
<1>6. ~doubt' => ~doubt
    BY DEF StartIgnored, StartEstablishes, StartNotPrepared, history
<1> QED BY <1>1, <1>2, <1>3, <1>4, <1>5, <1>6 DEF UiInv, SureOfOff

(* A stop takes the tunnel there is: none is left that could be up.        *)
LEMMA UiInvStop == ServiceInv /\ UiInv /\ (StopBegins \/ DestroyBegins) => UiInv'
PROOF
<1> SUFFICES ASSUME ServiceInv, UiInv, StopBegins \/ DestroyBegins PROVE UiInv'
    OBVIOUS
<1>0. PICK command \in {"stop", "destroy"} : StopTakes(command)
    BY DEF StopBegins, DestroyBegins
<1>1. /\ main = Idle /\ inbox # << >> /\ inbox[1] = command /\ inbox' = Tail(inbox)
      /\ 1 \in DOMAIN inbox /\ inbox' \in Seq(Commands)
      /\ \A j \in DOMAIN inbox' : j + 1 \in DOMAIN inbox /\ inbox'[j] = inbox[j + 1]
    BY <1>0, Taken DEF StopTakes
<1>2. /\ main' = [at |-> command, tunnel |-> tunnelHandle] /\ CloseTunnel(tunnelHandle)
      /\ UNCHANGED <<vpnRunning, binder, tunnelHandle, counts, doubt, overtaken>>
    BY <1>0 DEF StopTakes, At, fields, history
<1>3. HandleClosing'
    BY <1>2 DEF HandleClosing
<1>4. ~OnComes
    BY <1>1 DEF OnComes, Idle
<1>5. ~overtaken => \A t \in DOMAIN tunnels' : ~Up(t)'
    <2>1. ServiceInv'
        BY <1>0, StopTakesInv
    <2>2. ~overtaken => \A t \in DOMAIN tunnels' : tunnels'[t] = "running" => t = tunnelHandle
        BY <1>2, <2>1 DEF ServiceInv, RunningHeld
    <2>3. \A t \in DOMAIN tunnels' : tunnels'[t] # "starting"
        BY <1>0, <1>2, <2>1 DEF ServiceInv, StartingOnMain
    <2>4. tunnelHandle \in DOMAIN tunnels' => tunnels'[tunnelHandle] # "running"
        <3>1. tunnelHandle \in DOMAIN tunnels' => Past(tunnelHandle)'
            BY <1>0, <1>2, <2>1 DEF ServiceInv, MainHolds
        <3>2. NoTunnel \notin DOMAIN tunnels'
            BY <2>1 DEF ServiceInv, NoTunnel
        <3> QED BY <1>2, <3>1, <3>2 DEF Past
    <2> QED BY <2>2, <2>3, <2>4 DEF Up
<1>6. ~overtaken /\ OffComes => OffComes'
    <2> SUFFICES ASSUME ~overtaken, OffComes PROVE OffComes'
        OBVIOUS
    <2>1. CASE \A j \in DOMAIN inbox : inbox[j] # "start"
        BY <1>1, <1>5, <2>1 DEF OffComes
    <2>2. ASSUME NEW i \in DOMAIN inbox, i > 1, inbox[i] \in {"stop", "destroy"},
                 \A j \in i + 1 .. Len(inbox) : inbox[j] # "start"
          PROVE  OffComes'
        BY <1>1, <2>2, OffTail DEF UiInv, OffComes
    <2>3. ASSUME \A j \in 2 .. Len(inbox) : inbox[j] # "start" PROVE OffComes'
        <3>1. \A j \in DOMAIN inbox : j = 1 \/ j \in 2 .. Len(inbox)
            BY DEF UiInv
        <3>2. \A j \in DOMAIN inbox' : j + 1 # 1
            BY <1>1
        <3>3. \A j \in DOMAIN inbox' : inbox'[j] # "start"
            BY <1>1, <2>3, <3>1, <3>2
        <3> QED BY <1>5, <3>3 DEF OffComes
    <2>4. \A i \in DOMAIN inbox : i = 1 \/ i > 1
        BY DEF UiInv
    <2> QED BY <2>1, <2>2, <2>3, <2>4 DEF OffComes
<1> QED BY <1>1, <1>2, <1>3, <1>4, <1>6 DEF UiInv, SureOfOff

(* A call on the main thread returns or goes on.                           *)
LEMMA UiInvMain ==
    ServiceInv /\ UiInv /\ (DetachFd \/ StartReturns \/ RelayFails \/ StackFails \/ StopReturns)
        => UiInv'
PROOF
<1> SUFFICES ASSUME ServiceInv, UiInv,
                    DetachFd \/ StartReturns \/ RelayFails \/ StackFails \/ StopReturns
             PROVE  UiInv'
    OBVIOUS
<1>0. UNCHANGED <<vpnRunning, inbox, binder, counts, overtaken>>
    BY DEF DetachFd, StartReturns, RelayFails, StackFails, StartThrows, StopReturns, app, history
<1>1. CASE DetachFd
    <2>1. /\ main.at = "established" /\ main' = [at |-> "starting", tunnel |-> main.tunnel]
          /\ UNCHANGED <<tunnelHandle, tunnels, wanted, doubt>>
        BY <1>1 DEF DetachFd, At, network, system, history
    <2>2. HandleClosing'
        BY <1>0, <2>1 DEF UiInv, HandleClosing
    <2>3. OffComes => OffComes'
        BY <1>0, <2>1 DEF OffComes, Up
    <2>4. OnComes => OnComes'
        BY <1>0, <2>1 DEF OnComes, Idle
    <2> QED BY <1>0, <2>1, <2>2, <2>3, <2>4 DEF UiInv, SureOfOff
<1>2. CASE StartReturns
    <2>1. /\ main.at = "starting" /\ main' = Idle /\ tunnelHandle' = main.tunnel
          /\ tunnels' = [tunnels EXCEPT ![main.tunnel] = "running"]
          /\ UNCHANGED <<wanted, doubt>>
        BY <1>2 DEF StartReturns, system, history
    <2>2. /\ main.tunnel \in DOMAIN tunnels /\ main.tunnel # NoTunnel
          /\ tunnels[main.tunnel] = "starting" /\ tunnels'[main.tunnel] = "running"
        BY <2>1 DEF ServiceInv, MainHolds, StartingOnMain
    <2>3. HandleClosing'
        BY <2>1, <2>2 DEF HandleClosing
    <2>4. OffComes => OffComes'
        BY <1>0, <2>2 DEF OffComes, Up
    <2>5. OnComes => OnComes'
        BY <1>0, <2>1, <2>2 DEF OnComes, Idle
    <2> QED BY <1>0, <2>1, <2>3, <2>4, <2>5 DEF UiInv, SureOfOff
<1>3. CASE RelayFails \/ StackFails
    <2>1. /\ doubt' = TRUE /\ tunnelHandle = NoTunnel /\ UNCHANGED tunnelHandle
        BY <1>3 DEF RelayFails, StackFails, StartThrows, ServiceInv, MainHolds
    <2>2. tunnels' = [tunnels EXCEPT ![main.tunnel] = "failed"]
        BY <1>3 DEF RelayFails, StackFails, StartThrows
    <2>3. OffComes => OffComes'
        BY <1>0, <2>2 DEF OffComes, Up
    <2> QED BY <1>0, <2>1, <2>3 DEF UiInv, SureOfOff, HandleClosing
<1>4. CASE StopReturns
    <2>1. /\ main.at \in {"stop", "destroy"} /\ tunnels' = Stopped(main.tunnel)
          /\ tunnelHandle' = NoTunnel /\ UNCHANGED doubt
        BY <1>4 DEF StopReturns, history
    <2>2. ~OnComes
        BY <2>1 DEF OnComes, Idle
    <2>3. OffComes => OffComes'
        <3>1. /\ DOMAIN tunnels' = DOMAIN tunnels
              /\ \A t \in DOMAIN tunnels : Up(t)' => Up(t)
            BY <2>1 DEF Stopped, Up
        <3> QED BY <1>0, <3>1 DEF OffComes
    <2> QED BY <1>0, <2>1, <2>2, <2>3 DEF UiInv, SureOfOff, HandleClosing
<1> QED BY <1>1, <1>2, <1>3, <1>4

LEMMA UiInvRevoke == ServiceInv /\ UiInv /\ (RevokeBegins \/ RevokeReturns) => UiInv'
PROOF
<1> SUFFICES ASSUME ServiceInv, UiInv, RevokeBegins \/ RevokeReturns PROVE UiInv'
    OBVIOUS
<1>1. CASE RevokeBegins
    <2>1. /\ UNCHANGED <<vpnRunning, inbox, tunnelHandle, overtaken>> /\ doubt' = TRUE
          /\ binder' = [at |-> "revoke", tunnel |-> tunnelHandle]
          /\ counts' \in Counts /\ counts'.deaths = counts.deaths
        BY <1>1 DEF RevokeBegins, At, app, fields, UiInv, Counts
    <2>2. HandleClosing'
        BY <2>1 DEF HandleClosing
    <2>3. OffComes => OffComes'
        <3>1. /\ DOMAIN tunnels' = DOMAIN tunnels
              /\ \A t \in DOMAIN tunnels : Up(t)' => Up(t)
            BY <1>1 DEF RevokeBegins, Up
        <3> QED BY <2>1, <3>1 DEF OffComes
    <2> QED BY <2>1, <2>2, <2>3 DEF UiInv, SureOfOff
<1>2. CASE RevokeReturns
    <2>1. /\ UNCHANGED <<vpnRunning, inbox, counts, doubt>> /\ tunnelHandle' = NoTunnel
          /\ tunnels' = Stopped(binder.tunnel) /\ binder.at = "revoke"
          /\ ~overtaken' => ~overtaken
        BY <1>2 DEF RevokeReturns, app
    <2>2. ~OnComes
        BY <2>1 DEF OnComes, Idle
    <2>3. OffComes => OffComes'
        <3>1. /\ DOMAIN tunnels' = DOMAIN tunnels
              /\ \A t \in DOMAIN tunnels : Up(t)' => Up(t)
            BY <2>1 DEF Stopped, Up
        <3> QED BY <2>1, <3>1 DEF OffComes
    <2> QED BY <2>1, <2>2, <2>3 DEF UiInv, SureOfOff, HandleClosing
<1> QED BY <1>1, <1>2

(* What is left of the inbox is a sequence of commands again: every prefix *)
(* of it can be filtered.                                                  *)
LEMMA LeastNat ==
    ASSUME NEW T \in SUBSET Nat, T # {}
    PROVE  \E x \in T : \A y \in T : x <= y
PROOF
<1>1. PICK less : less = OpToRel(<, Nat)
    OBVIOUS
<1>2. IsWellFoundedOn(less, Nat)
    BY <1>1, NatLessThanWellFounded
<1>3. \A y, z \in Nat : y < z => <<y, z>> \in less
    BY <1>1 DEF OpToRel
<1>4. PICK x \in T : \A y \in T : <<y, x>> \notin less
    BY <1>2, WFMin
<1>5. \A y \in T : ~(y < x)
    BY <1>3, <1>4
<1> QED BY <1>4, <1>5

Filters(f, k) ==
    /\ f = [n \in 0 .. k |-> f[n]]
    /\ f[0] = << >>
    /\ \A n \in 1 .. k : f[n] = Redeliver(f[n - 1], inbox[n])

LEMMA FiltersExists == \A k \in Nat : \E f : Filters(f, k)
PROOF
<1> DEFINE Bad == {k \in Nat : ~\E f : Filters(f, k)}
<1>1. ASSUME Bad # {} PROVE FALSE
    <2>1. PICK k \in Bad : \A j \in Bad : k <= j
        BY <1>1, LeastNat
    <2>2. CASE k = 0
        <3>1. PICK f : f = [n \in 0 .. 0 |-> << >>]
            OBVIOUS
        <3>2. Filters(f, 0)
            BY <3>1 DEF Filters
        <3> QED BY <2>1, <2>2, <3>2
    <2>3. CASE k # 0
        <3>1. k - 1 \in Nat /\ k - 1 \notin Bad
            BY <2>1, <2>3
        <3>2. PICK f : Filters(f, k - 1)
            BY <3>1
        <3>3. PICK last : last = Redeliver(f[k - 1], inbox[k])
            OBVIOUS
        <3>4. PICK g : g = [n \in 0 .. k |-> IF n = k THEN last ELSE f[n]]
            OBVIOUS
        <3>5. g = [n \in 0 .. k |-> g[n]] /\ g[0] = << >>
            BY <2>3, <3>1, <3>2, <3>4 DEF Filters
        <3>6. ASSUME NEW n \in 1 .. k PROVE g[n] = Redeliver(g[n - 1], inbox[n])
            <4>1. g[n - 1] = f[n - 1]
                BY <3>1, <3>4
            <4>2. CASE n = k
                BY <3>3, <3>4, <4>1, <4>2
            <4>3. CASE n # k
                <5>1. n \in 1 .. k - 1 /\ g[n] = f[n]
                    BY <3>1, <3>4, <4>3
                <5> QED BY <3>2, <4>1, <5>1 DEF Filters
            <4> QED BY <4>2, <4>3
        <3>7. Filters(g, k)
            BY <3>5, <3>6 DEF Filters
        <3> QED BY <2>1, <3>7
    <2> QED BY <2>2, <2>3
<1> QED BY <1>1

LEMMA UnfinishedCommands == inbox \in Seq(Commands) => Unfinished \in Seq(Commands)
PROOF
<1> SUFFICES ASSUME inbox \in Seq(Commands) PROVE Unfinished \in Seq(Commands)
    OBVIOUS
<1>1. PICK length \in Nat : length = Len(inbox) /\ DOMAIN inbox = 1 .. length
    OBVIOUS
<1> DEFINE Step(f) ==
        [n \in 0 .. length |-> IF n = 0 THEN << >> ELSE Redeliver(f[n - 1], inbox[n])]
<1>2. PICK f : Filters(f, length)
    BY FiltersExists
<1>3. f = Step(f)
    BY <1>2 DEF Filters
<1>4. PICK g : g = CHOOSE h : h = Step(h)
    OBVIOUS
<1>5. g = Step(g)
    BY <1>3, <1>4
<1>6. Unfinished = Executing \o g[length]
    BY <1>1, <1>4 DEF Unfinished
<1>7. Filters(g, length)
    BY <1>5 DEF Filters
<1> HIDE DEF Step
<1> DEFINE Bad == {k \in 0 .. length : g[k] \notin Seq(Commands)}
<1>8. ASSUME Bad # {} PROVE FALSE
    <2>1. Bad \in SUBSET Nat
        OBVIOUS
    <2>2. PICK k \in Bad : \A j \in Bad : k <= j
        BY <1>8, <2>1, LeastNat
    <2>3. g[0] \in Seq(Commands)
        <3>1. g[0] = << >>
            BY <1>7 DEF Filters
        <3>2. << >> \in Seq(Commands)
            OBVIOUS
        <3> QED BY <3>1, <3>2
    <2>4. k \in 1 .. length /\ k - 1 \in 0 .. length /\ k - 1 \notin Bad
        BY <2>2, <2>3
    <2>5. PICK before \in Seq(Commands) : before = g[k - 1]
        BY <2>4
    <2>6. PICK command \in Commands : command = inbox[k]
        BY <1>1, <2>4
    <2>7. Append(before, command) \in Seq(Commands)
        BY AppendProperties
    <2>8. g[k] = before \/ g[k] = Append(before, command)
        BY <1>7, <2>4, <2>5, <2>6 DEF Filters, Redeliver
    <2> QED BY <2>2, <2>7, <2>8
<1>9. g[length] \in Seq(Commands)
    BY <1>8
<1>10. Executing \in Seq(Commands)
    <2>1. Executing \in {<<"start">>, <<"stop">>, << >>}
        BY Zenon DEF Executing
    <2>2. <<"start">> \in Seq(Commands) /\ <<"stop">> \in Seq(Commands) /\ << >> \in Seq(Commands)
        BY DEF Commands
    <2> QED BY <2>1, <2>2
<1> QED BY <1>6, <1>9, <1>10, ConcatProperties

(* The process dies with its tunnels; what it leaves is in doubt.          *)
LEMMA UiInvDies == ServiceInv /\ UiInv /\ ProcessDies => UiInv'
PROOF
<1> SUFFICES ASSUME ServiceInv, UiInv, ProcessDies PROVE UiInv'
    OBVIOUS
<1>1. /\ doubt' = TRUE /\ tunnelHandle' = NoTunnel /\ inbox' = Restarted
      /\ counts' \in Counts /\ counts'.deaths # 0
    BY DEF ProcessDies, UiInv, Counts
<1>2. Restarted \in Seq(Commands)
    <2>1. <<"start">> \in Seq(Commands) /\ << >> \in Seq(Commands)
        BY DEF Commands
    <2> QED BY <2>1, UnfinishedCommands DEF UiInv, Restarted
<1> QED BY <1>1, <1>2 DEF UiInv, SureOfOff, HandleClosing

(* Steps that the button and its commands do not notice.                   *)
LEMMA UiInvUntouched ==
    ASSUME UiInv, UNCHANGED <<inbox, main, binder, tunnelHandle, tunnels, overtaken>>,
           \/ counts' \in Counts /\ counts'.deaths # 0 /\ doubt' = TRUE
           \/ UNCHANGED <<vpnRunning, wanted, counts, doubt>>
    PROVE  UiInv'
PROOF
<1>1. HandleClosing' /\ inbox' \in Seq(Commands)
    BY DEF UiInv, HandleClosing
<1>2. OffComes => OffComes'
    BY DEF OffComes, Up
<1>3. CASE counts' \in Counts /\ counts'.deaths # 0 /\ doubt' = TRUE
    BY <1>1, <1>3 DEF UiInv, SureOfOff
<1>4. CASE UNCHANGED <<vpnRunning, wanted, counts, doubt>>
    <2>1. OnComes => OnComes'
        BY <1>4 DEF OnComes
    <2> QED BY <1>1, <1>2, <1>4, <2>1 DEF UiInv, SureOfOff
<1> QED BY <1>3, <1>4

LEMMA UiInvPosted ==
    ServiceInv /\ UiInv /\ (TapNotification \/ BringDown) => UiInv'
PROOF
<1> SUFFICES ASSUME ServiceInv, UiInv, TapNotification \/ BringDown PROVE UiInv'
    OBVIOUS
<1>1. PICK command \in {"stop", "destroy"} : inbox' = Append(inbox, command)
    BY DEF TapNotification, StartService, BringDown
<1>2. PICK n \in Nat : n = Len(inbox)
    BY DEF UiInv
<1>3. /\ inbox' \in Seq(Commands) /\ Len(inbox') = n + 1 /\ inbox'[n + 1] = command
      /\ n + 1 \in DOMAIN inbox'
    BY <1>1, <1>2 DEF UiInv, Commands
<1>4. /\ UNCHANGED <<vpnRunning, main, binder, tunnelHandle, tunnels, overtaken>>
      /\ counts' \in Counts
    BY DEF TapNotification, StartService, BringDown, fields, network, history, UiInv, Counts
<1>5. HandleClosing' /\ OffComes'
    BY <1>3, <1>4 DEF UiInv, HandleClosing, OffComes
<1>6. OnComes => doubt' = TRUE
    BY DEF OnComes, TapNotification, BringDown
<1>7. doubt' = TRUE \/ UNCHANGED doubt
    BY DEF TapNotification, BringDown, history
<1> QED BY <1>3, <1>4, <1>5, <1>6, <1>7 DEF UiInv

LEMMA UiInvStep == ServiceInv /\ UiInv /\ [Next]_vars => UiInv'
PROOF
<1> SUFFICES ASSUME ServiceInv, UiInv, [Next]_vars PROVE UiInv'
    OBVIOUS
<1>1. CASE Unbind
    BY <1>1, UiInvUntouched DEF Unbind, app, fields, network, history
<1>2. CASE ActivityRecreated
    <2>1. counts' \in Counts /\ counts'.deaths # 0
        BY <1>2 DEF ActivityRecreated, UiInv, Counts
    <2> QED BY <1>2, <2>1, UiInvUntouched DEF ActivityRecreated, fields, network
<1>3. CASE UNCHANGED vars
    BY <1>3, UiInvUntouched DEF vars, app, fields, network, system, history
<1>4. CASE MainStep
    BY <1>4, UiInvStart, UiInvStop, UiInvMain, UiInvDies DEF MainStep, DetachThrows
<1> QED BY <1>1, <1>2, <1>3, <1>4, UiInvTapPower, UiInvPosted, UiInvRevoke, UiInvDies
        DEF Next, Killed

(* The button's invariant holds in every reachable state.                  *)
THEOREM UiInvariant == Spec => []UiInv
PROOF
<1> QED BY ServiceInvariant, UiInvInit, UiInvStep, PTL DEF Spec

(* When everything has settled the button shows whether a tunnel runs,     *)
(* unless something since the last tap has put that in doubt               *)
(* (MainActivity.kt:136-158, :186-192; TunnelService.kt:46-55, :134-138).  *)
THEOREM UiAlwaysTellsTruth == Spec => []UiTellsTruth
PROOF
<1> QED BY ServiceInvariant, UiInvariant, UiInvTells, PTL

(* A settled app whose button is off has no tunnel and no interface left,  *)
(* whatever failed, was revoked or was stopped from the notification       *)
(* (TunnelService.kt:46-55, :63, :127-138).                                *)
THEOREM OffAlwaysOff == Spec => []OffIsOff
PROOF
<1> QED BY ServiceInvariant, UiInvariant, UiInvTellsOff, PTL
=============================================================================
