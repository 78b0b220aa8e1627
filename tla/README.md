# TurboFlare transport: TLA+ models, model checking and proofs

This directory holds the formal models of the transport in this repository: a
client on a phone pushes and pulls encrypted frames over ordinary HTTP requests
through a CDN to a server, which relays each session's byte stream to a TCP
target. Everything here is written from the Go code; line references are to
files of the repository, as `session.go:91` or `server.go:250`.

## The system

| Part | State it keeps | Operations | Where |
|---|---|---|---|
| Anti-replay window | `highest`, 64-bit bitmap `seen`, `initiated` | `CheckAndMark`, `Reset` | `transport/replay.go` |
| Reorder buffer | `nextExpected`, `pending` | `Insert` | `transport/reorder.go` |
| Session | key, connection id, nonce counter, sequence counter, window, buffer | `EncodeOutgoing`, `DecodeIncoming`, `CompleteHandshake` | `transport/session.go` |
| Reconnect state | grace period, confirmation, redundant-send budget | `StartGrace`, `ConfirmKey`, `ShouldSendRedundant`, ... | `transport/reconnect.go` |
| Congestion controller | window, burst, penalty, block size, RTT estimate | `OnQueueNonEmpty`, `OnError...`, `OnSuccess`, ... | `transport/congestion.go` |
| Wire format, cryptography | none | frames, HKDF, AES-GCM | `proto/` |
| Client | one Session | `Open`, `Reconnect`, `Push`, `Pull` | `client/client.go` |
| Server | connection table, outboxes, next id | `handleOpen`, `handlePush`, `handlePull`, `queueOutgoing` | `server/server.go` |
| Egress connection | `outbound`, `connecting`, `targetAddr` per session | `forwardPayload`, `dialAndPumpAsync`, `pumpOutboundToSession`, `closeOutbound` | `server/server.go` |
| Token store | `token -> binding` | `RegisterToken`, `TryBind`, `Touch`, `Revoke` | `server/binding.go` |
| gomobile bridge | a mutex and the payloads not yet returned | `OpenSession`, `Reconnect`, `Push`, `PullOne` | `android/gomobilebridge/` |
| VPN tunnel | a goroutine per flow, the shared DNS relay, a log ring | `Start`, `Stop`, `handleFlow`, `resolve`, `DrainLogs` | `android/vpntun/` |
| Android application | the button's flag; the service's `tunnelHandle` and `tunFd` | `onPowerClicked`, `startTunnel`, `stopTunnel`, `onRevoke`, `onDestroy` | `android-app/` |

How they interact. Every frame is encoded by one `Session` and decoded by
another; the window and the buffer are parts of a session. A client call is one
HTTP request and its response. On the server any number of requests of one
session run at the same time, next to the goroutine that pumps the session's
target into its outbox; they share the session (an RWMutex, two atomics and two
inner mutexes), the `connState` (one mutex) and the server's tables (one mutex).
`handleOpen` asks the token store before it touches a session. On the phone the
bridge serialises the calls of a session with a mutex; the tunnel's flows do not
use the bridge and run a pushing and a polling goroutine on one client. The Android
service starts and stops the tunnel from its main thread, while `onRevoke` comes on
another one; what the Activity knows of the service is what it last asked for.

What is hard about it: requests that fail or arrive late, the window between the
reading of a key and the taking of a counter, handshakes that rotate the key under
running encoders and decoders, sockets that several goroutines may close, an outbox
that is emptied before its response has arrived, a server that keeps nothing across
a restart, and a service whose fields two threads clear without a lock. `PROJECT.json` lists these hazards at their lines.

## Modules

Each component has operators or a state machine, a module `MC...` with the
definitions its configurations need, and, where the parameters matter, proofs.

**ReplayWindow** (operators) and **ReplaySpec** (state machine): a window value
with the bitmap as the set of offsets whose bit is 1; `Acceptable` is the verdict
of `CheckAndMark`, `Marked` what it writes, `ResetWindow` is `Reset`.
`CheckAndMark` holds its mutex for its whole body and is one step. **AntiReplay**
is what the window promises, without a bitmap: under one key no counter is
accepted twice, and none is refused unless it was accepted or lies `WindowSize` or
more behind an accepted one. `ReplaySpec` implements it (`KeepsPromise`).

**ReorderBuffer** (operators) and **ReorderSpec**: `Insert` drops a duplicate,
stores the payload and flushes the run from `nextExpected` on; `SeqSpace` stands
for 2^32 and `nextExpected` wraps to 0 at it. **OrderedStream** is the promise: the
application always has exactly the frames before the first that has not arrived.
`ReorderSpec` implements it (`KeepsOrder`).

**Receiver** composes the two as `DecodeIncoming` does for one caller: a frame of
another key is an error, the window's verdict decides whether the buffer gets it,
and `CompleteHandshake` empties the window and leaves the buffer. The peer rotates
its key at a frame chosen in `Init`, and its counters restart there. With `guarded`
FALSE frames reach the buffer unchecked, so that the buffer also meets duplicates,
as racing receivers (Session) can hand it.

**Session**: one session used by racing threads. `EncodeOutgoing` is three steps
(key under RLock, sequence number, nonce counter), `CompleteHandshake` three (key,
counter, window) during which the mutex keeps key readers out but not threads that
are past that read, and `DecodeIncoming` three (decode, replay check, insert). The
boolean `exclusive`, chosen in `Init`, says whether the calls come through a
`SessionHandle` (bridge.go), whose mutex admits one call at a time, or not (the
server's handlers and pumps, the tunnel's two goroutines). The peer sends frames
in order and rotates its key one handshake ahead or behind; its frames stay in
`wire`, so they arrive in any order, repeatedly or never.

**Egress**: one `connState`. A handler receives payloads of the client's stream in
order, forwards them (drop, CONNECT, write) and closes on a failed write; each
CONNECT starts a goroutine that dials, announces and pumps. `closeOutbound` is two
steps, since it clears `outbound` under the mutex and closes after it. The client
follows the contract of server.go:241-249 (`ClientReady`). A write has no deadline
(server.go:268): while the remote end does not read it may stay where it is for ever, and
only on a socket this end has closed is it sure to return. Whether handlers ever overlap
(`serial`: they do not) is chosen in `Init`. That is more than a client with one call at a
time gives, since the handler of a call that failed may still run beside the next push's.

**TokenStore**: bindings over a clock, `handleOpen`'s `TryBind`, `Touch` and session
creation as separate steps, revocation at any time, and transactions, which do not
consult the store.

**DnsRelay**: the queries' goroutines and the one session they share. A query holds
the relay's mutex from its push until `resolve` returns, its `reopen` included. An
answer is two chunks, since payloads cut the resolver's stream anywhere, and the
length prefix is in the first. A failed push or pull may have reached the server
or left a gap, past which the session delivers nothing.

**Tunnel** extends it with the flows and `Stop`. A flow is its goroutine (`flow`: open,
wait for the confirmation, start the pumps, wait for `done`), its two pumps (`up`,
`down`), the connection of the app, and the queue of the session it opened for
itself. `Accept` and `Spawn` are two steps, as `CreateEndpoint` and `wg.Add` are.
`Stop` closes every connection and waits for `InWaitGroup`, in which the pumps are
not. A pull returns what is queued, in order: that a session does so is what
Channel and ReorderSpec show. The server's end of a flow is its `link`: off, a CONNECT being
dialed, or on. A target may close as well as send (`TargetEnds`), and the client is not told.
What the app sends after that is read as a CONNECT (`UpPushes`; `LatePush` for a push that
failed and still arrived), and its OK or ERROR is queued to the app among the payloads
(`TargetAnswers`); `reread` records that it has happened.

**Wire** (operators): what is sealed under which nonce and what opens. A session key
is named by the client's ephemeral key pair it is derived from. A handshake is sealed
for connection 0, a data frame for its own connection and the counter it carries in
clear.

**Channel**: the composition of client, bridge, server and HTTP. The client makes one
call at a time (the bridge's mutex). A call is a request and a response; it may fail at any
time, its response may be cut between two frames, and a request whose call failed may still
be handled later (`stray`). Opens and pulls are handled in one step. A push is handled in
those of `DecodeIncoming`: the frame is decoded with the session's key (`HandlePush`), its
counter is checked and marked in the window (`HandlerChecks`), the reorder buffer takes it
(`HandlerInserts`). The handler of a call that failed goes on between later calls: other
handlers' steps, a reconnect, its reset of the window. The server may restart. Both ends use
the operators of ReorderBuffer and Wire, and the server those of ReplayWindow. `PullOne` asks
the server only when it has returned all it holds (`pending`, `PullPending`). The client's
ReconnectState is part of it: `Reconnect` starts the grace period, the confirmation in the
server's answer ends it, and pushes in between are counted as redundant. They are sent once
all the same (client.go:132-135), and nothing calls `Status` or `Reset`.

**Pipe** is the abstract channel: a sequence is sent, and each of a set of readers takes a
prefix of it. Channel implements it for the upload (`UploadInOrder`): the readers are the
server's sessions, and what they take is what their reorder buffers release, in that order.
It is not the order in which the target gets it: two handlers that each hold released
payloads write them in either order (server.go:229-231). The order of the writes is Egress's
`StreamIntact`, and needs handlers that do not overlap.

A push that returned nil was taken by the server (`AckedIsTaken`), with one exception that the
model shows and the property names. A handler that has decoded its frame with the old key
when a reconnect comes marks its counter in the window that the reconnect has just reset
(`crossed`; session.go:149-159, :95-98). A later push with that counter, or with one far
enough below it, is refused as a replay and answered 200 all the same.

**Service**: the Android side. The main thread handles taps and, one at a time, the
commands the system queues (`inbox`): start, stop, destroy. `startTunnel` is three steps
(the interface is established, its descriptor detached, Go's `Start` returns or throws),
`stopTunnel` two, around the blocking `Stop`. `onRevoke` does the same on a binder
thread (`binder`), on the fields as it finds them. Tunnels are numbered by creation;
each is starting, running, closing, stopped, failed, or gone with its process. Start's
errors are of two kinds: before the stack is complete (`StackFails`, the descriptor stays
open) and after (`RelayFails`, the stack is closed). The system's own steps are external
and stated in the module's head; a dying process has its unfinished commands delivered
again, which is more than Android promises for stop commands.

**Congestion**: the controller's methods, each one step under its mutex, in any order.
A Session carries a controller and nothing consults it yet. The window, the burst
ceiling and its streak, the block size and its streak, and the round-trip averages
with Go's division, which rounds towards zero. `BurstTimePasses` is the clock.

## Runs

| Run | Asks | Bounds |
|---|---|---|
| `receiver` | Does the bitmap remember and the window keep its promise, does exactly the fresh frame get in, is delivery exactly-once, in order and complete, for every arrival order, repetition and point of rotation? | 8 frames, 2 keys, window 3 in a 4-bit word |
| `session` | What holds of one end's nonces, sequence numbers, deliveries and the window under racing threads and a reconnect? | 2 senders, 2 receivers, 2 keys, 3 frames each way, window 2 |
| `session_nonce` | Does one end never repeat a nonce without the bridge's mutex? (it does) | as above, 1 receiver |
| `egress` | One connection, no forgotten socket, intact stream, answers first and always, sockets released? | 2 handlers, 4 payloads, 1 chunk per socket |
| `tokens` | Can two devices be accepted within the inactivity time? Who holds a token? | 2 devices, 1 token, TTL 1, 4 ticks, 1 revocation |
| `tokens_usage` | Does use keep a binding alive? (no) | as above |
| `tunnel` | Does each query get its own answer, does a flow keep its contract, give the app its payloads in order and end, does `Stop` return? | 1 flow with 1 query, or 2 queries; 1 poll, 3 queued payloads |
| `tunnel_answer` | Also when a reopen has failed? (no) | 2 queries, no flow |
| `channel` | Is the upload a pipe to each server session and the download without gaps under every fault, do keys agree, is what was acknowledged taken, is nothing lost and everything delivered without faults? | 3 handshakes, 2 payloads each way, window 2, 2 failed or cut calls, 1 restart |
| `congestion` | Do windows and blocks stay within limits and back off, does the timeout cover the round trip? | default windows and streak of bursts, blocks 10..16, growth after 3 successes, round trips 4..12 |
| `service` | Is every tunnel that is up in somebody's hands, does the interface have an owner, when is the button right, does off mean that nothing is left, and does it end everything? | 5 taps, 2 revocations, 1 death of process or Activity |
| `channel_reconnect` | Does a fault-free reconnect lose nothing? (it stalls the download) | 2 handshakes, no fault |

Why the bounds are enough. The window's cases are shift 0 to beyond the word and an
offset at, before and after the window's edge and the word's edge: a word one bit
wider than the window and counters up to 7 have them all. For the buffer, eight frames
give every arrival order and repetition, with gaps of every length up to the stream's,
and the rotation falls at every frame. In Session the racing steps are pairs: two threads on
each side and one key change give every order of two encoders, two decoders and a
handshake, and a window of 2 over 3 frames makes frames too old. In Egress four
payloads let a connection be made, fail, be replaced and fail again while a handler
still holds the first socket; a second chunk of the same socket repeats what the
first one does. In TokenStore four ticks with TTL 1 let a binding expire, be taken,
expire and be taken back, with a revocation anywhere. In Tunnel flows share nothing but the
WaitGroup, so one flow has all there is to a flow, and two queries are the least that
share the relay. Flow and relay meet in the WaitGroup only, so the run starts in two states
that `Spec` reaches: before the flow with all queries over but one, and after the flow
before all queries. Three queued payloads are an answer and a batch of two, which
has an order, or an answer, a payload and the answer to a payload read as a CONNECT. In
Channel two payloads each way are the least that have an order, and three handshakes give a
lost handshake and a reconnect after it; two failed calls leave a handler running across a
reconnect, and a window of two counters holds what the two payloads can have. In Service
five taps are on, off, on, off and on again, or a hurry of stops; two revocations let a
second `onRevoke` meet the tunnel started after the first. In Congestion the penalty takes every value it can, the
block grows to its ceiling and shrinks to its floor with a step that does not divide
the range, and round trips twice and three times the fastest cross both limits of the
timeout; longer streaks only take longer to fill.

`CHECK_DEADLOCK FALSE` is used for Egress, whose stream is bounded and may simply end
with everything closed, for Tunnel, where everything ends after `Stop`, and for Service,
which rests when nobody taps any more.

Of the type invariants only Service's is among the runs' properties, because it says which
tunnels the handle may name; the others (Receiver, Session, Channel, Egress, TokenStore,
Tunnel, Congestion) are proved for every value of the constants. `AckIsPrefix` of
ReorderSpec, which `KeepsOrder` implies, is proved as well.

### Fairness

* `Receiver`: the network delivers each frame at least once. `EverythingDelivered` needs
  no more, and it is conditional on no frame having been refused before it got in.
* `Egress`: weak fairness of each goroutine, and of each handler where it need not wait: the
  Go scheduler runs what can run, `net.DialTimeout` returns by its timeout (server.go:290),
  and reads and writes of a socket that this end has closed fail. A write to one that is
  still open here has no deadline and is not fair (`MayWait`). The remote end owes nothing.
* `Channel`: weak fairness of serving the call, of the steps of a push handler, of taking the
  response and of `PullOne`: the callers poll in a loop (tunnel.go:329-350). For pushes this
  assumes that `forwardPayload` returns: the target reads, or its connection fails.
  Handshakes, pushes, target data and faults are not fair. `CalmDelivers` is conditional on
  `[]Calm`.

* `Tunnel`: weak fairness of each goroutine and pump. Their HTTP calls have no timeout
  (`http.DefaultClient`), so this assumes that the network answers or resets them in
  the end. Connections that were closed fail their reads, a deadline passes. The app,
  the target, the resolver and the caller of `Stop` owe nothing.

* `Service`: weak fairness of the main thread and of `onRevoke`'s return: the looper takes
  its commands, and Go's `Start` and `Stop` return (`StopEventuallyReturns` shows the
  latter). Taps, revocations and the system owe nothing.

### What the violations show

* `session_nonce`: a sender reads the key under RLock, a handshake installs another
  key and sets the counter to 0, the sender takes counter 0 for the old key, whose
  counter 0 was used long ago. `session.go:51-53` says the counter must never repeat
  for a key. The passing run shows what is left of it for the frames of one end: no
  repetition through `SessionHandle`, and never under the current key.
  It does not make a nonce unique: client and server seal under one key, one connection
  id and counters that both start at 0 (`session.go:97`, `crypto.go:130-135`, no direction
  bit), so frame n of the one has the nonce of frame n of the other in every session,
  against `docs/PROTOCOL.md:58` and `proto/frame.go:184`, `:245`. Two frames show that
  without a model checker; it is among the hazards, and the properties
  (`OwnNonceNeverRepeatsExclusive`, `CurrentKeyNonces`) speak of the model's `out`, one
  end's frames.
* `tokens_usage`: `Touch` is called by `handleOpen` only, against `binding.go:94-96`.
* `channel_reconnect`: frames queued under the old key cannot be decoded after a
  reconnect, and the gap in the sequence numbers is never filled, against
  `docs/PROTOCOL.md:22-23`. `NothingLost`, in the passing run, is the other side of it: the
  upload survives every reconnect, and until the first one the download loses nothing.

* `tunnel_answer`: a query's call fails, its reopen fails too, and the next query
  pushes into the old session and takes the late answer for its own, against
  `tunnel.go:440` ("next resolve() will retry reopening") and `:456-459`. The passing
  run shows that a failed reopen is the only way to it.

## Proofs

TLAPS checks these for every value of the constants.

* **ReceiverProofs**, from `WindowAssumption` (the window is not empty and not wider than
  the word), `CountersAssumption`, `SeqSpaceAssumption`, `StreamAssumption` (the stream
  ends before the numbers wrap) and `ReceiverAssumption`. It has three layers.
  *Values*: `Remembers` says what a window is worth and `Filled` what a reorder buffer
  is, for any kind of payload; `MarkedRemembers` (a fresh window, a shift, a bit in the
  window), `AcceptableRemembers`, `InsertFills` and `InsertGives` say what the operations
  make of them, so that Session and Channel can use the same buffer.
  *Halves*: `WindowRemembers` and `HeldExactly` are needed because "not accepted before"
  and "nothing lost" can only be read off a bitmap and a map that are exact; from them
  `RemembersAlways`, `NothingLost`, and step by step the refinements
  `WindowKeepsPromise` and `BufferKeepsOrder`.
  *Together*: the window has accepted exactly the counters of the current key's frames
  that have arrived (`Linked`). From it `ReceiverTypeCorrect`, `AlwaysExactlyTheFresh`,
  `ReceiverKeepsBoth` (a receiving session refines OrderedStream and AntiReplay at once)
  and `AllArrivedAllDelivered`, the safety half of `EverythingDelivered`.
* **ServiceProofs**, from the specification alone, for any number of taps, revocations and
  deaths. The fields have no lock, so `ServiceInv` says what a thread may still assume
  when the other has run: the tunnel a stop holds is past running (`MainHolds`,
  `BinderHolds`), the one being started is the main thread's alone (`StartingOnMain`), a
  running one is the handle's unless a start was overtaken (`RunningHeld`).
  `ServiceTypeCorrect`, `TunnelsAreHeld`, `InterfaceIsOwned`. For the button, `UiInv` says
  that, unless something has put it in doubt, the last tap is still coming, being executed
  or done: one that turned it on has left a start (`OnComes`), one that turned it off a
  stop behind every start, or nothing to stop (`OffComes`). `UiAlwaysTellsTruth`. Off is
  surer than on: as long as the process has not died, what was revoked, has failed or was
  stopped from the notification leaves `OffComes` as it is (`SureOfOff`), so a settled
  app with the button off has nothing left up (`OffAlwaysOff`, the safety half of
  `OffMeansOff`).
* **TokenProofs**, from `TokenAssumption`. `OneDeviceAtATime` speaks of the past and is
  not inductive: `HolderIsLast` adds that the handshakes of every device but the
  holder are more than the TTL older than `LastSeen`, so a binding acts as a lease,
  and `NothingFromTheFuture` that no clock reading lies ahead. `TypeCorrect`,
  `HolderAlwaysLast`, `OneDeviceAlways`.

* **SessionProofs**, for any threads and any number of handshakes. `SendInv` adds to the
  properties where the keys are: while a handshake is under way no encoder and no frame
  has the key it installed (`KeysRead`), and through a `SessionHandle` the one encoder
  that runs has the session's key (`OneCall`). So the counter of a new frame of the
  current key is past the counters of all others, and the reset meets no frame of the
  new key. `SequencesPlaced` says that a number taken is in one encoder or one frame.
  `OwnNoncesOnceExclusive`, `CurrentKeyNoncesOnce`, `SequencesAlwaysOnce`. On the receiving
  side the reorder buffer is `Buffered` whatever the decoders do between unlocking the
  window and locking it, which gives `DeliveredAlwaysInOrder` under any race; through a
  handle a decoder that has checked a counter checked it under the key that is still
  current, which gives `WindowAlwaysOfCurrentKey` and the action property
  `AcceptedOnlyOnce`. All cite the value lemmas of ReceiverProofs by instance. What is
  proved of nonces is proved of one end's frames (see below).

* **EgressProofs**, from `EgressAssumption`, for any handlers, payloads and chunks.
  `OneDialing` says that `connecting` is a lock the one dialing goroutine holds, and
  that it is free once `outbound` is set; `SocketsOwned` gives every socket that is
  not closed an owner, connState or the thread that took it from there to close it.
  `PayloadsOnce` says that a payload starts at most one goroutine, so that (by the
  pigeonhole principle) `Dials` always has a free name for the next one and the bound
  hides nothing. `TypeCorrect`, `OneConnectionAlways`, `NoSocketEverForgotten`.
  `AnswersKept` follows each goroutine's own entries in the outbox that all share
  (`AnswersComeFirst`), and `Serial` says that while handlers do not overlap, the connection
  in use is due the payload that the one handler holds, or the next one when none runs
  (`StreamsIntact`).
  `ConnectsGetAnswered` is a theorem about liveness. A goroutine that has been started
  and has not answered is dialing or about to announce (`StartedAnswers`, the theorem
  `NoneEndsUnanswered`), only its own steps move it, and each brings it nearer to the
  answer; so its weak fairness is enough, as long as it is enabled there. That last fact
  (`AtWorkRuns`) can be read off the guards of `DialFails` and `Announce`, but speaks of
  ENABLED, so it is the theorem's hypothesis. It is about these goroutines only: a handler
  in a write may be blocked. The run checks `EveryConnectAnswered` without it.

* **ChannelProofs**, from `ChannelAssumption` and those of window and buffer, for any number of
  handshakes, pushes, chunks, failures and restarts. The invariants build one on the other:
  `Shape` types the call, the requests on their way and the sessions, and counts the
  handshakes still to be served, so that there is a stream for every session they can
  make (`ChannelTypeCorrect`); `Uploaded` says that every session has released a prefix
  of what the client sent and that its buffer goes on from there, whatever the handlers
  still hold, from which every step is a step or a stutter of Pipe (`UploadsInOrder`, a
  refinement); `Agreement` says that a handshake in flight is for the client's session and
  all that the two ends can differ by (`KeysAlwaysAgree`). `Passed` is about the replay
  window: frames that are late, on their way or in the hands of a handler, have a lower
  counter than the push in progress or an older key (`Framed`); so, until a handler crosses a
  reconnect, the window of the client's session has marked nothing from the push's counter
  on (`Behind`), the push passes, and the buffer was given all that is acknowledged (`Taken`):
  `AckedAlwaysTaken`. `Downloaded` says that every frame on its way
  down is numbered by the session that queued it, and that the client's buffer fits what
  PullOne has returned and holds (`ReceivesInOrder`). The client's loop over a batch is a recursive function: `TakesIn`
  is its invariant, over the prefixes of the batch. For
  `NothingEverLost` three more say that without a failed call nothing stray is left
  (`Undisturbed`), that every sequence number the client has used is acknowledged or in
  the push on its way (`AllAcked`), which with `Passed` and `UploadsInOrder`
  makes the upload whole across reconnects, and that every number the server has used
  before a reconnect was given to the client's buffer, is in the response on its way or in
  the outbox, where the client's key reads it (`AllHeld`).

* **TunnelProofs**, from `QueryAssumption` and `TunnelAssumption`, for any number of
  flows, queries, polls and payloads. The relay (`DnsInv`): the mutex makes the session
  one query's at a time (`Serialized`), and every way of giving a query up replaces the
  session, so a query that takes the mutex finds it as new, and while it polls its buffer
  and the session's queue together are as much of its own answer as has been sent
  (`Answering`): `AnswersAreOwn`. A flow (`FlowInv`): until its poll has seen OK the
  queue starts with the answer to CONNECT; from then on the app's payloads, the pump's
  batch and the queue are one run that ends with the last payload sent (`Chain`), of bytes
  only unless a payload of the app was reread (`mixed`), which the end of the pump cuts but
  does not reorder. `LinkInv` says what the server's end may be doing: a target that sends
  has been announced, and a CONNECT dialed after the flow's own was answered is a payload
  that was reread. `TunnelTypeCorrect`, `ContractAlwaysKept`, `BytesAlwaysInOrder`. `FlowsWindUp` is the safety that `FlowsEnd`
  rests on: a pump that ends has closed `done`, a flow that returns has closed its
  connection.

* **CongestionProofs**, from `CongestionAssumption`. `CeilingInv` ties the window to the
  penalty and the code's streak to the clean bursts that really passed, so that the
  penalty is still the failed burst's until the streak is full; `PenaltyLowers` is the
  arithmetic of rounding down twice. `Average` says that a step towards a sample does
  not overshoot however it is rounded, so averages stay among the samples and the
  deviation is never negative. `TypeCorrect`, `AlwaysBacksOff`, `TimeoutAlwaysCovers`.

Every safety property that a passing run checks is thus a theorem. Of liveness,
`EveryConnectAnswered` is proved, from a hypothesis on what is ENABLED, which no installed
prover expands. The rest is only model-checked
(`EverythingDelivered`, `SocketsReleased`, `FlowsEnd`, `StopEventuallyReturns`,
`CalmDelivers`, `OffMeansOff`): a goroutine's way to its answer has two steps that can be
named, while those go round a loop (chunks, payloads, queries, frames, commands) as often as
the constants say, which takes an induction over temporal formulas, and neither the temporal
prover nor the library's induction theorems can do one. The proofs show the safety that
they rest on (`AllArrivedAllDelivered`, `FlowsWindUp`, `NoSocketEverForgotten`,
`NothingEverLost`, `OffAlwaysOff`). The four violations are counterexamples of TLC.

The proofs stay inside the models' bounds where these are constants of the
specification (`MaxOpens`, `MaxPushes`, `MaxPolls`, ...): they hold for every value of
them. What a proof needs of the recursive functions it shows with the least
counterexample (`LeastNat`), because induction over data is out of the provers' reach.

## Abstractions

* Frames are records naming key, counter and sequence number; a frame decodes under
  its own key and nonce only (AES-GCM). The byte layout of `proto/frame.go` is left out.
  Session follows the frames of one direction: its nonces are that direction's.
* Nonce counters are natural numbers: 2^32 frames under one key are out of scope. So
  is the wrap of sequence numbers in the runs and proofs, though the operators have it.
* `ReorderBuffer.started` is always true (the only constructor sets it).
* In Channel the client's replay window is left out; the server's is there. A client behind
  its handle takes frames in one call at a time, the server hands each frame out once, and
  those of one key in the order of their counters, so that every counter that comes is above
  all that the client has marked since it took the key. Session has the window for clients
  that are not behind a handle.
* In Channel an open and a pull are handled in one step each: the tables and the outbox are
  read and written under one mutex, and `CompleteHandshake` runs under the session's. A frame
  is encoded and appended to the outbox in one step: two goroutines of one session that queue
  at once (Egress) may append in the other order, which the client's window, 64 counters wide,
  and its reorder buffer both take.
* In Service what Android does is read off what the code relies on. gVisor's
  `stack.Close` closes the descriptor (tunnel.go:220-221). The permission dialog and a
  configuration that is missing are taken as passed: both come before the service is
  asked for anything.
* In Egress a payload is a CONNECT again after a connection has ended, as in the code,
  though `server.go:186-188` speaks of the session's first payload only.
* In DnsRelay the resolver does not close its connection. After it has, the next query is
  read as a CONNECT and answered with an ERROR, which is not framed as a message, so the
  query times out and reopens, as one does whose answer never comes.
* In Tunnel what an app wrote just before it closed is not followed to the target, a
  panic that is recovered is a failure like any other, and the first length of a
  misframed buffer is not computed: such a message is `Garbage` or a timeout.
* In Congestion the penalty is a number of hundredths, rounded down, where the code
  has a float64, and streaks stop at the value they are compared with.
* In Egress an ERROR from a rejected target and one from a failed dial are the same
  step, and a write is accepted or fails as a whole, if it returns at all.

## Not modelled, and the plan

Modelled: the receiving side (ReplayWindow, ReorderBuffer, Receiver), Session, Wire and
Channel with the grace period and the bridge's handle, Egress, TokenStore, DnsRelay and
Tunnel, Congestion, Service. In order, what could be added:

1. **Wrap-around**: a receiver whose stream is longer than `SeqSpace`.
2. **The log ring** (tunnel.go:569-606): appended under a mutex, cut at 500 lines and
   drained by a poller; a start after a start leaves two pollers, which share the lines.
3. **Proofs**: that a flow's download refines Pipe from the first byte the app gets.
4. **Lost tokens**: what a device whose token was revoked or taken over may still do with
   the session it has (server.go:408-424); the store's properties stop at the handshake.

Left out for good: the byte layout of `proto/` and the ciphers (pure functions), `fingerprint/`
(a table and a dialer), `observability/` (event output; nothing imports it), the
command-line client (a manual harness), screens, preferences and the CONNECT demo of
the Android application, and `android/app`, an earlier copy of it.
