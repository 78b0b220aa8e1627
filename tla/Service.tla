------------------------------ MODULE Service -------------------------------
(***************************************************************************)
(* The Android side of the VPN: the power button and its flag              *)
(* (MainActivity.kt), the service that owns the tunnel (TunnelService.kt)  *)
(* and the Go tunnel behind it (vpntun.Start and Stop, tunnel.go, through  *)
(* gomobilebridge).  One main thread runs the taps and, one at a time, the *)
(* commands the system posts to the service; onRevoke runs on a binder     *)
(* thread, and the service's fields have no lock.                          *)
(*                                                                         *)
(* The system is modelled from what this code relies on: startService      *)
(* posts a command and marks the service wanted; stopSelf() clears the     *)
(* mark, commands still queued notwithstanding; an established interface   *)
(* keeps the service bound until it is gone; a service neither wanted nor  *)
(* bound is destroyed; one that is wanted when its process dies is started *)
(* again (START_STICKY).                                                   *)
(***************************************************************************)
EXTENDS Integers, Sequences

CONSTANTS
    MaxTaps,        \* bound: taps on the power button and the notification
    MaxRevokes,     \* bound: VPN permission taken away
    MaxDeaths       \* bound: deaths of the process and of the Activity

ASSUME ServiceAssumption ==
    MaxTaps \in Nat /\ MaxRevokes \in Nat /\ MaxDeaths \in Nat

VARIABLES
    vpnRunning,     \* the Activity's flag: what the button shows
    inbox,          \* commands posted to the main thread
    main,           \* where the main thread is
    binder,         \* where onRevoke is
    tunnelHandle,   \* the service's fields: the tunnel, NoTunnel for null,
    tunFd,          \* and the descriptor: "none", "open" or "detached"
    tunnels,        \* the Go tunnels of this process, in order of creation
    iface,          \* the tunnel whose interface is up
    wanted, bound, alive,       \* what the system knows of the service
    counts,         \* taps, revokes and deaths so far
    leaked,         \* history: Start has failed with the descriptor open
    overtaken,      \* history: onRevoke has overwritten a newer handle
    doubt           \* history: why the button may be wrong

app     == <<vpnRunning, inbox>>
fields  == <<tunnelHandle, tunFd>>
network == <<tunnels, iface>>
system  == <<wanted, bound, alive>>
history == <<counts, leaked, overtaken, doubt>>
vars == <<app, main, binder, fields, network, system, history>>

NoTunnel == 0
Idle == [at |-> "idle", tunnel |-> NoTunnel]
At(place, t) == [at |-> place, tunnel |-> t]

Up(t) == tunnels[t] \in {"starting", "running"}

(* Nothing is under way, on any thread or in the system.                   *)
Settled ==
    /\ inbox = << >> /\ main = Idle /\ binder = Idle
    /\ bound <=> iface # NoTunnel
    /\ alive => wanted \/ bound

Init ==
    /\ vpnRunning = FALSE /\ inbox = << >>
    /\ main = Idle /\ binder = Idle
    /\ tunnelHandle = NoTunnel /\ tunFd = "none"
    /\ tunnels = << >> /\ iface = NoTunnel
    /\ wanted = FALSE /\ bound = FALSE /\ alive = FALSE
    /\ counts = [taps |-> 0, revokes |-> 0, deaths |-> 0]
    /\ leaked = FALSE /\ overtaken = FALSE /\ doubt = FALSE

-----------------------------------------------------------------------------
(* The user.                                                               *)
StartService(action) ==
    /\ counts.taps < MaxTaps
    /\ inbox' = Append(inbox, action)
    /\ wanted' = TRUE /\ alive' = TRUE
    /\ counts' = [counts EXCEPT !.taps = @ + 1]
    /\ UNCHANGED <<main, binder, fields, network, bound, leaked, overtaken>>

(* onPowerClicked: startVpn or stopVpn, by the flag alone.                 *)
TapPower ==
    /\ main = Idle
    /\ StartService(IF vpnRunning THEN "stop" ELSE "start")
    /\ vpnRunning' = ~vpnRunning
    /\ doubt' = (~vpnRunning /\ ~Settled)

(* The notification's Stop action, which the system posts: the Activity is *)
(* not told.                                                               *)
TapNotification ==
    /\ alive /\ (tunnelHandle # NoTunnel \/ main # Idle)
    /\ StartService("stop")
    /\ doubt' = TRUE
    /\ UNCHANGED vpnRunning

-----------------------------------------------------------------------------
(* startTunnel, up to the call into Go.                                    *)
Takes(command) == main = Idle /\ inbox # << >> /\ Head(inbox) = command /\ inbox' = Tail(inbox)

StopSelf == wanted' = FALSE

StartIgnored ==
    /\ Takes("start") /\ tunnelHandle # NoTunnel
    /\ UNCHANGED <<vpnRunning, main, binder, fields, network, system, history>>

(* Mutant: "already running" is not tested.                                *)
StartEstablishes_Always ==
    /\ Takes("start")
    /\ tunnels' = Append(tunnels, "starting")
    /\ iface' = Len(tunnels')
    /\ bound' = TRUE /\ alive' = TRUE
    /\ tunFd' = "open"
    /\ main' = At("established", Len(tunnels'))
    /\ UNCHANGED <<vpnRunning, binder, tunnelHandle, wanted, history>>

StartEstablishes ==
    /\ Takes("start") /\ tunnelHandle = NoTunnel
    /\ tunnels' = Append(tunnels, "starting")
    /\ iface' = Len(tunnels')
    /\ bound' = TRUE /\ alive' = TRUE
    /\ tunFd' = "open"
    /\ main' = At("established", Len(tunnels'))
    /\ UNCHANGED <<vpnRunning, binder, tunnelHandle, wanted, history>>

(* establish() returns null: startVpn has asked for the permission, but it *)
(* has been taken away since.                                              *)
StartNotPrepared ==
    /\ Takes("start") /\ tunnelHandle = NoTunnel /\ counts.revokes > 0
    /\ StopSelf
    /\ doubt' = TRUE
    /\ UNCHANGED <<vpnRunning, main, binder, fields, network, bound, alive,
                   counts, leaked, overtaken>>

DetachFd ==
    /\ main.at = "established" /\ tunFd = "open"
    /\ tunFd' = "detached"
    /\ main' = At("starting", main.tunnel)
    /\ UNCHANGED <<app, binder, tunnelHandle, network, system, history>>

-----------------------------------------------------------------------------
(* Go's Start returns: a running tunnel, or an error.                      *)
StartReturns ==
    /\ main.at = "starting"
    /\ tunnels' = [tunnels EXCEPT ![main.tunnel] = "running"]
    /\ tunnelHandle' = main.tunnel
    /\ main' = Idle
    /\ UNCHANGED <<app, binder, tunFd, iface, system, history>>

Closed(t) == IF iface = t THEN NoTunnel ELSE iface

StartThrows ==
    /\ main.at = "starting"
    /\ tunnels' = [tunnels EXCEPT ![main.tunnel] = "failed"]
    /\ tunFd' = "none"
    /\ StopSelf
    /\ doubt' = TRUE
    /\ main' = Idle
    /\ UNCHANGED <<app, binder, tunnelHandle, bound, alive, counts, overtaken>>

(* Mutant: the stack is not closed.                                        *)
RelayFails_NotClosed ==
    /\ StartThrows
    /\ UNCHANGED <<iface, leaked>>

(* No DNS session: the stack is closed, and the descriptor with it.        *)
RelayFails ==
    /\ StartThrows
    /\ iface' = Closed(main.tunnel)
    /\ UNCHANGED leaked

(* No endpoint, no NIC or no address: the descriptor stays open.           *)
StackFails ==
    /\ StartThrows
    /\ leaked' = TRUE
    /\ UNCHANGED iface

-----------------------------------------------------------------------------
(* stopTunnel.  Stop closes the stack, and with it the interface, and      *)
(* waits for the flows; the fields are cleared when it has returned.       *)
CloseTunnel(t) ==
    IF t = NoTunnel THEN UNCHANGED network
    ELSE /\ tunnels' = [tunnels EXCEPT ![t] = "closing"]
         /\ iface' = Closed(t)

(* Closing a detached descriptor does nothing.                             *)
CloseFd(network_iface) == IF tunFd = "open" THEN NoTunnel ELSE network_iface

StopTakes(command) ==
    /\ Takes(command)
    /\ CloseTunnel(tunnelHandle)
    /\ main' = At(command, tunnelHandle)
    /\ UNCHANGED <<vpnRunning, binder, fields, system, history>>

(* Mutant: the stop command leaves the tunnel to onDestroy.                *)
StopBegins_NoStop ==
    /\ Takes("stop")
    /\ main' = At("stop", NoTunnel)
    /\ UNCHANGED <<vpnRunning, binder, fields, network, system, history>>

StopBegins == StopTakes("stop")

DestroyBegins == StopTakes("destroy")

Stopped(t) == IF t = NoTunnel THEN tunnels ELSE [tunnels EXCEPT ![t] = "stopped"]

(* Mutant: the handle is kept.                                             *)
StopReturns_HandleKept ==
    /\ main.at \in {"stop", "destroy"}
    /\ tunnels' = Stopped(main.tunnel)
    /\ iface' = CloseFd(iface)
    /\ tunFd' = "none"
    /\ wanted' = IF main.at = "stop" THEN FALSE ELSE wanted
    /\ main' = Idle
    /\ UNCHANGED <<app, binder, tunnelHandle, bound, alive, history>>

(* The stop command also calls stopSelf.  After onDestroy a new instance   *)
(* would start with the same empty fields.                                 *)
StopReturns ==
    /\ main.at \in {"stop", "destroy"}
    /\ tunnels' = Stopped(main.tunnel)
    /\ iface' = CloseFd(iface)
    /\ tunnelHandle' = NoTunnel /\ tunFd' = "none"
    /\ wanted' = IF main.at = "stop" THEN FALSE ELSE wanted
    /\ main' = Idle
    /\ UNCHANGED <<app, binder, bound, alive, history>>

-----------------------------------------------------------------------------
(* onRevoke: the system has taken the interface away; stopTunnel then runs *)
(* beside the main thread, on the fields as it finds them.                 *)
RevokeBegins ==
    /\ binder = Idle /\ iface # NoTunnel /\ counts.revokes < MaxRevokes
    /\ counts' = [counts EXCEPT !.revokes = @ + 1]
    /\ doubt' = TRUE
    /\ iface' = NoTunnel /\ bound' = FALSE
    /\ tunnels' = IF tunnelHandle = NoTunnel THEN tunnels
                  ELSE [tunnels EXCEPT ![tunnelHandle] = "closing"]
    /\ binder' = At("revoke", tunnelHandle)
    /\ UNCHANGED <<app, main, fields, wanted, alive, leaked, overtaken>>

RevokeReturns ==
    /\ binder.at = "revoke"
    /\ tunnels' = Stopped(binder.tunnel)
    /\ overtaken' = (overtaken \/ tunnelHandle \notin {NoTunnel, binder.tunnel})
    /\ tunnelHandle' = NoTunnel
    /\ iface' = CloseFd(iface)
    /\ tunFd' = "none"
    /\ StopSelf
    /\ binder' = Idle
    /\ UNCHANGED <<app, main, bound, alive, counts, leaked, doubt>>

-----------------------------------------------------------------------------
(* The system.                                                             *)
Unbind ==
    /\ bound /\ iface = NoTunnel
    /\ bound' = FALSE
    /\ UNCHANGED <<app, main, binder, fields, network, wanted, alive, history>>

BringDown ==
    /\ alive /\ ~wanted /\ ~bound
    /\ alive' = FALSE
    /\ inbox' = Append(inbox, "destroy")
    /\ UNCHANGED <<vpnRunning, main, binder, fields, network, wanted, bound, history>>

(* The commands a dying process leaves unfinished, in order: they are      *)
(* delivered again, and if there is none the service is started anew.      *)
Executing ==
    CASE main.at \in {"established", "starting"} -> <<"start">>
      [] main.at = "stop" -> <<"stop">>
      [] OTHER -> << >>

Redeliver(before, command) == IF command = "destroy" THEN before ELSE Append(before, command)

Unfinished ==
    LET left[n \in 0 .. Len(inbox)] ==
            IF n = 0 THEN << >> ELSE Redeliver(left[n - 1], inbox[n])
    IN  Executing \o left[Len(inbox)]

Restarted ==
    IF ~wanted THEN << >> ELSE IF Unfinished = << >> THEN <<"start">> ELSE Unfinished

(* The process is gone: Go, the interface and the Activity with it.        *)
ProcessDies ==
    /\ vpnRunning' = FALSE /\ inbox' = Restarted
    /\ main' = Idle /\ binder' = Idle
    /\ tunnelHandle' = NoTunnel /\ tunFd' = "none"
    /\ tunnels' = [t \in DOMAIN tunnels |-> "gone"] /\ iface' = NoTunnel
    /\ bound' = FALSE /\ alive' = wanted
    /\ counts' = [counts EXCEPT !.deaths = @ + 1]
    /\ doubt' = TRUE
    /\ UNCHANGED <<wanted, leaked, overtaken>>

(* The system needs the memory.                                            *)
Killed == counts.deaths < MaxDeaths /\ ProcessDies

(* detachFd on a descriptor that onRevoke has closed: nothing catches it.  *)
DetachThrows == main.at = "established" /\ tunFd # "open" /\ ProcessDies

(* A rotation: a new Activity, whose flag is false.                        *)
ActivityRecreated ==
    /\ main = Idle /\ counts.deaths < MaxDeaths
    /\ counts' = [counts EXCEPT !.deaths = @ + 1]
    /\ vpnRunning' = FALSE
    /\ doubt' = TRUE
    /\ UNCHANGED <<inbox, main, binder, fields, network, system, leaked, overtaken>>

-----------------------------------------------------------------------------
MainStep ==
    \/ StartIgnored \/ StartEstablishes \/ StartNotPrepared
    \/ DetachFd \/ DetachThrows
    \/ StartReturns \/ RelayFails \/ StackFails
    \/ StopBegins \/ DestroyBegins \/ StopReturns

Next ==
    \/ TapPower \/ TapNotification
    \/ MainStep
    \/ RevokeBegins \/ RevokeReturns
    \/ Unbind \/ BringDown
    \/ Killed \/ ActivityRecreated

(* The main thread takes its commands, and calls into Go return (Tunnel    *)
(* shows that Stop does).                                                  *)
Spec == Init /\ [][Next]_vars /\ WF_vars(MainStep) /\ WF_vars(RevokeReturns)

-----------------------------------------------------------------------------
(* The fields are well formed, and the handle names a tunnel that Start    *)
(* has returned and whose Stop has not (TunnelService.kt:34-35, :112-138). *)
TypeOK ==
    /\ vpnRunning \in BOOLEAN /\ doubt \in BOOLEAN
    /\ main.at \in {"idle", "established", "starting", "stop", "destroy"}
    /\ binder.at \in {"idle", "revoke"}
    /\ iface \in DOMAIN tunnels \cup {NoTunnel}
    /\ tunFd \in {"none", "open", "detached"}
    /\ \/ tunnelHandle = NoTunnel
       \/ /\ tunnelHandle \in DOMAIN tunnels
          /\ tunnels[tunnelHandle] \in {"running", "closing"}

(* Every tunnel that is up is in somebody's hands: the service's field, or *)
(* a call that is starting it.  Only an onRevoke that overlaps a newer     *)
(* start can lose one (TunnelService.kt:63, :118-138, :174-177).           *)
NoTunnelForgotten ==
    overtaken \/ \A t \in DOMAIN tunnels : Up(t) => t \in {tunnelHandle, main.tunnel}

(* The interface that takes the apps' packets has a tunnel behind it,      *)
(* except after a Start that failed before its stack was complete          *)
(* (tunnel.go:163-167, :220-225; TunnelService.kt:96-131).                 *)
InterfaceOwned == iface # NoTunnel => Up(iface) \/ leaked

(* When everything has settled the button is right, if the last tap was    *)
(* made on a settled app and nothing failed, was revoked, died or was      *)
(* stopped from the notification since (MainActivity.kt:136-158, :186-192).*)
UiTellsTruth ==
    Settled /\ ~doubt /\ ~overtaken =>
        (vpnRunning <=> \E t \in DOMAIN tunnels : tunnels[t] = "running")

(* With the button off and everything settled no tunnel runs and no        *)
(* interface is up, also after a stop from the notification, a revocation  *)
(* or a failed start (TunnelService.kt:46-55, :63, :127-138).              *)
OffIsOff ==
    Settled /\ ~vpnRunning /\ counts.deaths = 0 /\ ~overtaken =>
        /\ \A t \in DOMAIN tunnels : ~Up(t)
        /\ iface = NoTunnel \/ leaked

(* Once the user leaves the button off, the tunnel and its interface are   *)
(* gone in the end, however quickly it was tapped and whatever failed or   *)
(* was revoked on the way (TunnelService.kt:46-55, :134-138).              *)
OffMeansOff ==
    (<>[]~vpnRunning /\ [](counts.deaths = 0 /\ ~overtaken)) =>
        <>[](/\ \A t \in DOMAIN tunnels : ~Up(t)
             /\ iface = NoTunnel \/ leaked)
=============================================================================
