----------------------------- MODULE TokenProofs ----------------------------
(***************************************************************************)
(* Proofs about TokenStore, for every set of devices and tokens and every  *)
(* InactivityTTL.  A binding acts as a lease: HolderIsLast says that the   *)
(* handshakes of devices other than the holder are older than LastSeen by  *)
(* more than the TTL, and makes OneDeviceAtATime inductive.                *)
(***************************************************************************)
EXTENDS TokenStore, TLAPS

(* No binding and no accepted handshake lies in the future, and no         *)
(* handshake in a coming epoch.                                            *)
NothingFromTheFuture ==
    /\ \A t \in Tokens : bindings[t].state = "bound" => bindings[t].lastSeen <= clock
    /\ \A h \in opened : h.at <= clock /\ h.epoch <= epoch[h.token]

IInv == TypeOK /\ NothingFromTheFuture /\ HolderIsLast /\ OneDeviceAtATime

LEMMA InvInit == Init => IInv
PROOF
BY DEF Init, IInv, TypeOK, NothingFromTheFuture, HolderIsLast, OneDeviceAtATime,
       Unknown, Bindings, Openers, Opened

LEMMA TypeNext == TypeOK /\ [Next]_vars => TypeOK'
PROOF
<1> SUFFICES ASSUME TypeOK, [Next]_vars PROVE TypeOK'
    OBVIOUS
<1> USE DEF TypeOK
<1>1. CASE Tick
    BY <1>1 DEF Tick
<1>2. ASSUME NEW t \in Tokens, RegisterToken(t) PROVE TypeOK'
    BY <1>2 DEF RegisterToken, Bindings
<1>3. ASSUME NEW t \in Tokens, Revoke(t) PROVE TypeOK'
    BY <1>3 DEF Revoke, Bindings
<1>4. ASSUME NEW d \in Devices, NEW t \in Tokens, BindAccepted(d, t) PROVE TypeOK'
    <2>1. bindings' \in [Tokens -> Bindings]
        BY <1>4 DEF BindAccepted, Rebound, Bound, Bindings
    <2>2. opener' \in [Devices -> Openers]
        BY <1>4 DEF BindAccepted, Openers
    <2>3. opened' \in SUBSET Opened
        BY <1>4 DEF BindAccepted, Opened
    <2>4. used' \in [Tokens -> [Devices -> Nat \cup {Never}]]
        BY <1>4 DEF BindAccepted
    <2> QED BY <1>4, <2>1, <2>2, <2>3, <2>4 DEF BindAccepted
<1>5. ASSUME NEW d \in Devices, NEW t \in Tokens, BindRejected(d, t) PROVE TypeOK'
    BY <1>5 DEF BindRejected, vars
<1>6. ASSUME NEW d \in Devices, Touch(d) PROVE TypeOK'
    <2>0. opener[d].token \in Tokens
        BY <1>6 DEF Touch, Openers, Idle
    <2>1. bindings' \in [Tokens -> Bindings]
        BY <1>6, <2>0 DEF Touch, Bindings, Unknown, Free
    <2>2. opener' \in [Devices -> Openers]
        BY <1>6 DEF Touch, Openers, Idle
    <2> QED BY <1>6, <2>1, <2>2 DEF Touch
<1>7. ASSUME NEW d \in Devices, Establish(d) PROVE TypeOK'
    <2>0. opener[d].token \in Tokens
        BY <1>7 DEF Establish, Openers, Idle
    <2>1. opener' \in [Devices -> Openers]
        BY <1>7 DEF Establish, Openers, Idle
    <2> QED BY <1>7, <2>0, <2>1 DEF Establish
<1>8. ASSUME NEW s \in sessions, Transact(s) PROVE TypeOK'
    BY <1>8 DEF Transact
<1>9. CASE UNCHANGED vars
    BY <1>9 DEF vars
<1> QED BY <1>1, <1>2, <1>3, <1>4, <1>5, <1>6, <1>7, <1>8, <1>9 DEF Next

(* TryBind accepts device d (binding.go:75-89): the new handshake is later *)
(* by more than the TTL than any that another device made in this epoch.   *)
LEMMA BindAcceptedInv ==
    ASSUME IInv, TypeOK', NEW d \in Devices, NEW t \in Tokens, BindAccepted(d, t)
    PROVE  IInv'
PROOF
<1> USE TokenAssumption
<1> DEFINE new == [token |-> t, device |-> d, at |-> clock, epoch |-> epoch[t]]
<1>1. /\ clock \in Nat /\ clock' = clock
      /\ epoch \in [Tokens -> Nat] /\ epoch' = epoch
      /\ opened \in SUBSET Opened /\ opened' = opened \cup {new}
      /\ bindings \in [Tokens -> Bindings]
      /\ bindings' = [bindings EXCEPT ![t] = Bound(d, clock)]
    BY DEF BindAccepted, Rebound, IInv, TypeOK
<1>2. /\ bindings'[t].state = "bound"
      /\ bindings'[t].device = d
      /\ bindings'[t].lastSeen = clock
      /\ \A u \in Tokens : u # t => bindings'[u] = bindings[u]
    BY <1>1 DEF Bound
<1>3. ASSUME NEW h \in opened, h.token = t, h.epoch = epoch[t], h.device # d
      PROVE  h.at + InactivityTTL < clock
    <2>1. /\ bindings[t].state = "bound"
          /\ h.at <= bindings[t].lastSeen
          /\ h.device # bindings[t].device => h.at + InactivityTTL < bindings[t].lastSeen
          /\ bindings[t].lastSeen <= clock
        BY <1>3 DEF IInv, HolderIsLast, NothingFromTheFuture
    <2>2. bindings[t].lastSeen \in Nat /\ h.at \in Nat
        BY <1>1, <2>1 DEF Bindings, Unknown, Free, Opened
    <2>3. CASE bindings[t].device = d
        BY <1>1, <1>3, <2>1, <2>2, <2>3
    <2>4. CASE bindings[t].device # d
        <3>1. clock - bindings[t].lastSeen > InactivityTTL
            BY <2>1, <2>4 DEF BindAccepted, MayBind, Inactive
        <3> QED BY <1>1, <2>1, <2>2, <3>1
    <2> QED BY <2>3, <2>4
<1>4. NothingFromTheFuture'
    <2>1. ASSUME NEW u \in Tokens, bindings'[u].state = "bound"
          PROVE  bindings'[u].lastSeen <= clock'
        BY <1>1, <1>2, <2>1 DEF IInv, NothingFromTheFuture
    <2>2. ASSUME NEW h \in opened' PROVE h.at <= clock' /\ h.epoch <= epoch'[h.token]
        BY <1>1 DEF IInv, NothingFromTheFuture
    <2> QED BY <2>1, <2>2 DEF NothingFromTheFuture
<1>5. HolderIsLast'
    <2> SUFFICES ASSUME NEW h \in opened', h.epoch = epoch'[h.token]
                 PROVE  LET b == bindings'[h.token] IN
                        /\ b.state = "bound"
                        /\ h.at <= b.lastSeen
                        /\ h.device # b.device => h.at + InactivityTTL < b.lastSeen
        BY DEF HolderIsLast
    <2>1. CASE h = new
        BY <1>1, <1>2, <2>1
    <2>2. CASE h \in opened /\ h.token = t
        <3>1. h.at <= clock
            BY <2>2 DEF IInv, NothingFromTheFuture
        <3> QED BY <1>1, <1>2, <1>3, <2>2, <3>1
    <2>3. CASE h \in opened /\ h.token # t
        <3>1. h.token \in Tokens
            BY <1>1, <2>3 DEF Opened
        <3> QED BY <1>1, <1>2, <2>3, <3>1 DEF IInv, HolderIsLast
    <2> QED BY <1>1, <2>1, <2>2, <2>3
<1>6. OneDeviceAtATime'
    <2> SUFFICES ASSUME NEW g \in opened', NEW h \in opened',
                        g.token = h.token, g.epoch = h.epoch, g.device # h.device
                 PROVE  \/ g.at > h.at + InactivityTTL
                        \/ h.at > g.at + InactivityTTL
        BY DEF OneDeviceAtATime
    <2>1. CASE g \in opened /\ h \in opened
        BY <2>1 DEF IInv, OneDeviceAtATime
    <2>2. CASE g = new /\ h \in opened
        <3>1. h.at \in Nat
            BY <1>1, <2>2 DEF Opened
        <3>2. h.at + InactivityTTL < clock
            BY <1>3, <2>2
        <3> QED BY <1>1, <2>2, <3>1, <3>2
    <2>3. CASE g \in opened /\ h = new
        <3>1. g.at \in Nat
            BY <1>1, <2>3 DEF Opened
        <3>2. g.at + InactivityTTL < clock
            BY <1>3, <2>3
        <3> QED BY <1>1, <2>3, <3>1, <3>2
    <2> QED BY <1>1, <2>1, <2>2, <2>3
<1> QED BY <1>4, <1>5, <1>6 DEF IInv

(* Touch moves LastSeen forward, whoever holds the token by then           *)
(* (binding.go:97-103).                                                    *)
LEMMA TouchInv ==
    ASSUME IInv, TypeOK', NEW d \in Devices, Touch(d)
    PROVE  IInv'
PROOF
<1> USE TokenAssumption
<1>1. /\ clock \in Nat /\ clock' = clock
      /\ epoch' = epoch /\ opened' = opened
      /\ opened \in SUBSET Opened
      /\ bindings \in [Tokens -> Bindings]
    BY DEF Touch, IInv, TypeOK
<1>2. \A u \in Tokens :
        \/ bindings'[u] = bindings[u]
        \/ /\ bindings[u].state = "bound"
           /\ bindings'[u] = [bindings[u] EXCEPT !.lastSeen = clock]
    BY <1>1 DEF Touch
<1>3. \A u \in Tokens : bindings[u].state = "bound" =>
        /\ bindings[u].lastSeen \in Nat
        /\ bindings[u].lastSeen <= clock
        /\ bindings'[u].state = "bound"
        /\ bindings'[u].device = bindings[u].device
        /\ bindings'[u].lastSeen \in {bindings[u].lastSeen, clock}
    <2> TAKE u \in Tokens
    <2> HAVE bindings[u].state = "bound"
    <2>1. bindings[u] \in [state : {"bound"}, device : Devices, lastSeen : Nat]
        BY <1>1 DEF Bindings, Unknown, Free
    <2>2. bindings[u].lastSeen <= clock
        BY DEF IInv, NothingFromTheFuture
    <2> QED BY <1>2, <2>1, <2>2
<1>4. NothingFromTheFuture'
    <2>1. ASSUME NEW u \in Tokens, bindings'[u].state = "bound"
          PROVE  bindings'[u].lastSeen <= clock'
        <3>1. bindings[u].state = "bound"
            BY <1>2, <2>1
        <3>2. /\ bindings[u].lastSeen <= clock
              /\ bindings'[u].lastSeen \in {bindings[u].lastSeen, clock}
            BY <1>3, <3>1
        <3>3. clock <= clock
            BY <1>1
        <3> QED BY <1>1, <3>2, <3>3
    <2> QED BY <1>1, <2>1 DEF IInv, NothingFromTheFuture
<1>5. HolderIsLast'
    <2> SUFFICES ASSUME NEW h \in opened, h.epoch = epoch[h.token]
                 PROVE  LET b == bindings'[h.token] IN
                        /\ b.state = "bound"
                        /\ h.at <= b.lastSeen
                        /\ h.device # b.device => h.at + InactivityTTL < b.lastSeen
        BY <1>1 DEF HolderIsLast
    <2>1. h.token \in Tokens /\ h.at \in Nat
        BY <1>1 DEF Opened
    <2>2. /\ bindings[h.token].state = "bound"
          /\ h.at <= bindings[h.token].lastSeen
          /\ h.device # bindings[h.token].device
                => h.at + InactivityTTL < bindings[h.token].lastSeen
        BY DEF IInv, HolderIsLast
    <2> QED BY <1>1, <1>3, <2>1, <2>2
<1>6. OneDeviceAtATime'
    BY <1>1 DEF IInv, OneDeviceAtATime
<1> QED BY <1>4, <1>5, <1>6 DEF IInv

LEMMA RevokeInv ==
    ASSUME IInv, TypeOK', NEW t \in Tokens, Revoke(t)
    PROVE  IInv'
PROOF
<1>1. /\ clock' = clock /\ opened' = opened
      /\ opened \in SUBSET Opened
      /\ epoch \in [Tokens -> Nat]
      /\ bindings \in [Tokens -> Bindings]
      /\ bindings' = [bindings EXCEPT ![t] = Free]
      /\ epoch' = [epoch EXCEPT ![t] = @ + 1]
    BY DEF Revoke, IInv, TypeOK
<1>2. NothingFromTheFuture'
    <2>1. ASSUME NEW u \in Tokens, bindings'[u].state = "bound"
          PROVE  bindings'[u].lastSeen <= clock'
        BY <1>1, <2>1 DEF IInv, NothingFromTheFuture, Free
    <2>2. ASSUME NEW h \in opened PROVE h.at <= clock' /\ h.epoch <= epoch'[h.token]
        <3>1. h.token \in Tokens /\ h.epoch \in Nat
            BY <1>1 DEF Opened
        <3>2. h.at <= clock /\ h.epoch <= epoch[h.token]
            BY DEF IInv, NothingFromTheFuture
        <3> QED BY <1>1, <3>1, <3>2
    <2> QED BY <1>1, <2>1, <2>2 DEF NothingFromTheFuture
<1>3. HolderIsLast'
    <2> SUFFICES ASSUME NEW h \in opened, h.epoch = epoch'[h.token]
                 PROVE  h.token # t /\ h.epoch = epoch[h.token]
        BY <1>1 DEF IInv, HolderIsLast, Opened
    <2>1. h.token \in Tokens /\ h.epoch \in Nat /\ h.epoch <= epoch[h.token]
        BY <1>1 DEF IInv, NothingFromTheFuture, Opened
    <2> QED BY <1>1, <2>1
<1>4. OneDeviceAtATime'
    BY <1>1 DEF IInv, OneDeviceAtATime
<1> QED BY <1>2, <1>3, <1>4 DEF IInv

LEMMA InvNext == IInv /\ [Next]_vars => IInv'
PROOF
<1> SUFFICES ASSUME IInv, [Next]_vars PROVE IInv'
    OBVIOUS
<1>0. TypeOK'
    BY TypeNext DEF IInv
<1> USE DEF NothingFromTheFuture, HolderIsLast, OneDeviceAtATime
<1>1. CASE Tick
    BY <1>0, <1>1 DEF Tick, IInv, TypeOK, Bindings, Opened, Unknown, Free
<1>2. ASSUME NEW t \in Tokens, RegisterToken(t) PROVE IInv'
    BY <1>0, <1>2 DEF RegisterToken, IInv, TypeOK, Bindings, Opened, Unknown, Free
<1>3. ASSUME NEW t \in Tokens, Revoke(t) PROVE IInv'
    BY <1>0, <1>3, RevokeInv
<1>4. ASSUME NEW d \in Devices, NEW t \in Tokens, BindAccepted(d, t) PROVE IInv'
    BY <1>0, <1>4, BindAcceptedInv
<1>5. ASSUME NEW d \in Devices, NEW t \in Tokens, BindRejected(d, t) PROVE IInv'
    BY <1>0, <1>5 DEF BindRejected, vars, IInv
<1>6. ASSUME NEW d \in Devices, Touch(d) PROVE IInv'
    BY <1>0, <1>6, TouchInv
<1>7. ASSUME NEW d \in Devices, Establish(d) PROVE IInv'
    BY <1>0, <1>7 DEF Establish, IInv
<1>8. ASSUME NEW s \in sessions, Transact(s) PROVE IInv'
    BY <1>0, <1>8 DEF Transact, IInv
<1>9. CASE UNCHANGED vars
    BY <1>0, <1>9 DEF vars, IInv
<1> QED BY <1>1, <1>2, <1>3, <1>4, <1>5, <1>6, <1>7, <1>8, <1>9 DEF Next

LEMMA Invariance == Spec => []IInv
PROOF BY InvInit, InvNext, PTL DEF Spec

(* Every reachable state of the store and its callers is well formed       *)
(* (binding.go:8-27).                                                      *)
THEOREM TypeCorrect == Spec => []TypeOK
PROOF BY Invariance, PTL DEF IInv

(* The holder of a token is the device accepted last, and its LastSeen is  *)
(* later by more than the TTL than any other device's handshake            *)
(* (binding.go:75-91, :97-103).                                            *)
THEOREM HolderAlwaysLast == Spec => []HolderIsLast
PROOF BY Invariance, PTL DEF IInv

(* Between two revocations a token never accepts two devices within one    *)
(* InactivityTTL, for any number of devices and any interleaving           *)
(* (binding.go:64-92, PROTOCOL.md:34).                                     *)
THEOREM OneDeviceAlways == Spec => []OneDeviceAtATime
PROOF BY Invariance, PTL DEF IInv
=============================================================================
