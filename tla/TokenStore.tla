----------------------------- MODULE TokenStore -----------------------------
(***************************************************************************)
(* The binding of devices to provisioning tokens (server/binding.go) and   *)
(* the handlers that use it (server/server.go).  Each TokenStore method    *)
(* holds the store's mutex and is one step; handleOpen calls TryBind, then *)
(* Touch, then makes the session, with other requests and revocations in   *)
(* between.  Push and pull look the session up and never ask the store.    *)
(*                                                                         *)
(* Time is `clock'.  A revocation of a token starts a new epoch of it:     *)
(* moving to another device is then what was asked for.                    *)
(***************************************************************************)
EXTENDS Integers

CONSTANTS
    Devices,
    Tokens,
    InactivityTTL,
    Never,          \* no transaction of this device yet
    MaxClock,       \* bound: ticks
    MaxRevocations  \* bound: revocations of one token

ASSUME TokenAssumption ==
    /\ InactivityTTL \in Nat
    /\ Never \notin Nat

VARIABLES
    clock,
    bindings,       \* per token: unknown, free, or bound to a device
    opener,         \* per device: where its handleOpen is, and its token
    sessions,       \* the devices' live sessions, with the token that opened them
    epoch,          \* history: revocations of each token
    opened,         \* history: the handshakes TryBind accepted
    used,           \* history: each device's last successful transaction
    displaced       \* history: bindings taken over, and the idle time then

vars == <<clock, bindings, opener, sessions, epoch, opened, used, displaced>>

Unknown == [state |-> "unknown"]
Free == [state |-> "free"]
Bound(d, t) == [state |-> "bound", device |-> d, lastSeen |-> t]
Bindings == {Unknown, Free} \cup [state : {"bound"}, device : Devices, lastSeen : Nat]

Idle == [at |-> "idle"]
Openers == {Idle} \cup [at : {"touch", "session"}, token : Tokens]

Opened == [token : Tokens, device : Devices, at : Nat, epoch : Nat]

Init ==
    /\ clock = 0
    /\ bindings = [t \in Tokens |-> Unknown]
    /\ opener = [d \in Devices |-> Idle]
    /\ sessions = {}
    /\ epoch = [t \in Tokens |-> 0]
    /\ opened = {}
    /\ used = [t \in Tokens |-> [d \in Devices |-> Never]]
    /\ displaced = {}

-----------------------------------------------------------------------------
Tick ==
    /\ clock < MaxClock
    /\ clock' = clock + 1
    /\ UNCHANGED <<bindings, opener, sessions, epoch, opened, used, displaced>>

RegisterToken(t) ==
    /\ bindings[t] = Unknown
    /\ bindings' = [bindings EXCEPT ![t] = Free]
    /\ UNCHANGED <<clock, opener, sessions, epoch, opened, used, displaced>>

(* Revoke; what it frees is the token, not the sessions it opened.         *)
Revoke(t) ==
    /\ bindings[t] # Unknown /\ epoch[t] < MaxRevocations
    /\ bindings' = [bindings EXCEPT ![t] = Free]
    /\ epoch' = [epoch EXCEPT ![t] = @ + 1]
    /\ used' = [used EXCEPT ![t] = [d \in Devices |-> Never]]
    /\ UNCHANGED <<clock, opener, sessions, opened, displaced>>

(* Mutant: a binding exactly InactivityTTL old has expired.                *)
Inactive_OffByOne(b) == clock - b.lastSeen >= InactivityTTL

Inactive(b) == clock - b.lastSeen > InactivityTTL

(* The three ways TryBind accepts.                                         *)
MayBind(t, d) ==
    \/ bindings[t].state = "free"
    \/ bindings[t].state = "bound" /\ bindings[t].device = d
    \/ bindings[t].state = "bound" /\ Inactive(bindings[t])

(* Mutant: a device that comes back does not refresh its binding.          *)
Rebound_Stale(t, d) ==
    IF bindings[t].state = "bound" /\ bindings[t].device = d
    THEN bindings ELSE [bindings EXCEPT ![t] = Bound(d, clock)]

(* What TryBind leaves: a new binding and a refreshed one are the same.    *)
Rebound(t, d) == [bindings EXCEPT ![t] = Bound(d, clock)]

(* handleOpen: TryBind accepts the device.                                 *)
BindAccepted(d, t) ==
    /\ opener[d] = Idle /\ MayBind(t, d)
    /\ bindings' = Rebound(t, d)
    /\ opener' = [opener EXCEPT ![d] = [at |-> "touch", token |-> t]]
    /\ opened' = opened \cup {[token |-> t, device |-> d, at |-> clock, epoch |-> epoch[t]]}
    /\ used' = [used EXCEPT ![t][d] = clock]
    /\ displaced' =
          IF bindings[t].state = "bound" /\ bindings[t].device # d
          THEN displaced \cup {[device |-> bindings[t].device,
                                lastUse |-> used[t][bindings[t].device],
                                at |-> clock]}
          ELSE displaced
    /\ UNCHANGED <<clock, sessions, epoch>>

(* An unknown token, or one that another device holds: 404.                *)
BindRejected(d, t) ==
    /\ opener[d] = Idle /\ ~MayBind(t, d)
    /\ UNCHANGED vars

(* handleOpen: Touch refreshes whatever binding the token has by then.     *)
Touch(d) ==
    /\ opener[d].at = "touch"
    /\ LET t == opener[d].token IN
       bindings' = IF bindings[t].state = "bound"
                   THEN [bindings EXCEPT ![t].lastSeen = clock]
                   ELSE bindings
    /\ opener' = [opener EXCEPT ![d].at = "session"]
    /\ UNCHANGED <<clock, sessions, epoch, opened, used, displaced>>

(* handleOpen: the session exists, and the handshake is answered.          *)
Establish(d) ==
    /\ opener[d].at = "session"
    /\ sessions' = sessions \cup {[device |-> d, token |-> opener[d].token]}
    /\ opener' = [opener EXCEPT ![d] = Idle]
    /\ UNCHANGED <<clock, bindings, epoch, opened, used, displaced>>

(* handlePush, handlePull: answered for any live session.                  *)
Transact(s) ==
    /\ used' = [used EXCEPT ![s.token][s.device] = clock]
    /\ UNCHANGED <<clock, bindings, opener, sessions, epoch, opened, displaced>>

Next ==
    \/ Tick
    \/ \E t \in Tokens : RegisterToken(t) \/ Revoke(t)
    \/ \E d \in Devices, t \in Tokens : BindAccepted(d, t) \/ BindRejected(d, t)
    \/ \E d \in Devices : Touch(d) \/ Establish(d)
    \/ \E s \in sessions : Transact(s)

Spec == Init /\ [][Next]_vars

-----------------------------------------------------------------------------
(* Every token always has an entry that names a state of a binding, and    *)
(* the handlers and sessions speak of tokens (binding.go:8-27).            *)
TypeOK ==
    /\ clock \in Nat
    /\ bindings \in [Tokens -> Bindings]
    /\ opener \in [Devices -> Openers]
    /\ sessions \in SUBSET [device : Devices, token : Tokens]
    /\ epoch \in [Tokens -> Nat]
    /\ opened \in SUBSET Opened
    /\ used \in [Tokens -> [Devices -> Nat \cup {Never}]]

(* One device per token: between two revocations, the handshakes the       *)
(* server accepts from two devices lie more than InactivityTTL apart, with *)
(* every interleaving of openers, touches and revocations (PROTOCOL.md:34, *)
(* binding.go:64-92).                                                      *)
OneDeviceAtATime ==
    \A g, h \in opened :
        (g.token = h.token /\ g.epoch = h.epoch /\ g.device # h.device)
            => \/ g.at > h.at + InactivityTTL
               \/ h.at > g.at + InactivityTTL

(* The holder of a token is the last device it accepted, and its LastSeen  *)
(* is no older than any handshake accepted since the last revocation       *)
(* (binding.go:75-91).                                                     *)
HolderIsLast ==
    \A h \in opened : h.epoch = epoch[h.token] =>
        LET b == bindings[h.token] IN
        /\ b.state = "bound"
        /\ h.at <= b.lastSeen
        /\ h.device # b.device => h.at + InactivityTTL < b.lastSeen

(* binding.go:94-96: LastSeen "reflects real usage", so a device loses its *)
(* binding to another only after InactivityTTL without a transaction.      *)
OnlyInactiveDisplaced ==
    \A x \in displaced : x.at - x.lastUse > InactivityTTL
=============================================================================
