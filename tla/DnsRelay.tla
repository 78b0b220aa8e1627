------------------------------- MODULE DnsRelay ------------------------------
(***************************************************************************)
(* The DNS relay of a tunnel (dnsRelay in android/vpntun/tunnel.go): every *)
(* query is a goroutine that takes the relay's mutex, pushes its query     *)
(* into the one session with the resolver and polls for the answer.        *)
(*                                                                         *)
(* An answer is two chunks, because payloads cut the resolver's byte       *)
(* stream anywhere.  A push or a pull that fails may have reached the      *)
(* server: what is lost leaves a gap in the session's sequence numbers,    *)
(* and nothing after a gap is delivered (module Channel).                  *)
(***************************************************************************)
EXTENDS Integers, Sequences

CONSTANTS
    Queries,
    NoQuery,        \* no answer is half sent
    Nothing,        \* resolve has not returned an answer
    Garbage         \* a message framed from pieces of two answers

ASSUME QueryAssumption ==
    /\ NoQuery \notin Queries
    /\ Nothing \notin Queries /\ Garbage \notin Queries /\ Nothing # Garbage

VARIABLES
    query,          \* where each query's goroutine is, and its buf
    relay,          \* d.c, the session with the resolver
    answer,         \* history: the message resolve returned to each query
    reopenFailed    \* history: a reopen has failed

dns == <<query, relay, answer, reopenFailed>>

(* The session openDNSSession makes: what the resolver owes and what is    *)
(* queued for the next pull.                                               *)
FreshRelay ==
    [asked |-> {}, half |-> NoQuery, queue |-> << >>, upGap |-> FALSE, downGap |-> FALSE]

Chunk(q, part) == [of |-> q, part |-> part]
Chunks == [of : Queries, part : {"head", "tail"}]

DnsInit ==
    /\ query = [q \in Queries |-> [at |-> "none"]]
    /\ relay = FreshRelay
    /\ answer = [q \in Queries |-> Nothing]
    /\ reopenFailed = FALSE

Goto(q, place) == query' = [query EXCEPT ![q] = [at |-> place]]

-----------------------------------------------------------------------------
(* The UDP forwarder starts a goroutine for a datagram to port 53.         *)
QueryArrives(q) ==
    /\ query[q].at = "none"
    /\ Goto(q, "read")
    /\ UNCHANGED <<relay, answer, reopenFailed>>

(* conn.Read, ten times at most.                                           *)
ReadQuery(q) ==
    /\ query[q].at = "read"
    /\ \E place \in {"lock", "done"} : Goto(q, place)
    /\ UNCHANGED <<relay, answer, reopenFailed>>

Holding == {"push", "poll", "reopen"}

(* resolve: the mutex is held until it returns, reopen included.           *)
LockRelay(q) ==
    /\ query[q].at = "lock"
    /\ \A p \in Queries : query[p].at \notin Holding
    /\ Goto(q, "push")
    /\ UNCHANGED <<relay, answer, reopenFailed>>

Asked(q) == [relay EXCEPT !.asked = IF relay.upGap THEN @ ELSE @ \cup {q}]

PushQuery(q) ==
    /\ query[q].at = "push"
    /\ relay' = Asked(q)
    /\ query' = [query EXCEPT ![q] = [at |-> "poll", buf |-> << >>]]
    /\ UNCHANGED <<answer, reopenFailed>>

PushQueryFails(q) ==
    /\ query[q].at = "push"
    /\ relay' \in {Asked(q), [relay EXCEPT !.upGap = TRUE]}
    /\ Goto(q, "reopen")
    /\ UNCHANGED <<answer, reopenFailed>>

(* buf holds a message when its length prefix and that many bytes are      *)
(* there; the prefix is a length only if the message's head comes first.   *)
Framed(buf) == Len(buf) >= 2 /\ buf[1].part = "head"

PullAnswer(q) ==
    /\ query[q].at = "poll" /\ ~Framed(query[q].buf)
    /\ query' = [query EXCEPT ![q].buf = @ \o relay.queue]
    /\ relay' = [relay EXCEPT !.queue = << >>]
    /\ UNCHANGED <<answer, reopenFailed>>

(* The pull did not reach the server, or its response was cut.             *)
PullAnswerFails(q) ==
    /\ query[q].at = "poll" /\ ~Framed(query[q].buf)
    /\ relay' \in {relay, [relay EXCEPT !.queue = << >>,
                              !.downGap = @ \/ relay.queue # << >>]}
    /\ Goto(q, "reopen")
    /\ UNCHANGED <<answer, reopenFailed>>

(* The first message in buf is the answer.  When what comes first is the   *)
(* end of another answer, its bytes are taken for the length.              *)
ResolveReturns(q) ==
    /\ query[q].at = "poll"
    /\ LET buf == query[q].buf IN
       /\ Len(buf) >= 2
       /\ answer' = [answer EXCEPT ![q] =
             IF buf[1].of = buf[2].of /\ Framed(buf) THEN buf[1].of ELSE Garbage]
    /\ Goto(q, "done")
    /\ UNCHANGED <<relay, reopenFailed>>

(* Mutant: after a timeout the session is kept.                            *)
ResolveTimesOut_Keeps(q) ==
    /\ query[q].at = "poll"
    /\ Goto(q, "done")
    /\ UNCHANGED <<relay, answer, reopenFailed>>

(* The deadline is tested before buf is.                                   *)
ResolveTimesOut(q) ==
    /\ query[q].at = "poll"
    /\ Goto(q, "reopen")
    /\ UNCHANGED <<relay, answer, reopenFailed>>

(* reopen replaces d.c, and the session before it is polled no more.       *)
Reopen(q) ==
    /\ query[q].at = "reopen"
    /\ relay' = FreshRelay
    /\ Goto(q, "done")
    /\ UNCHANGED <<answer, reopenFailed>>

(* A reopen that fails keeps the old session.                              *)
ReopenFails(q) ==
    /\ query[q].at = "reopen"
    /\ reopenFailed' = TRUE
    /\ Goto(q, "done")
    /\ UNCHANGED <<relay, answer>>

-----------------------------------------------------------------------------
(* The resolver, behind the server: answers in any order, one after the    *)
(* other on the stream.                                                    *)
Queued(chunk) == IF relay.downGap THEN relay.queue ELSE Append(relay.queue, chunk)

ResolverBegins(q) ==
    /\ q \in relay.asked /\ relay.half = NoQuery
    /\ relay' = [relay EXCEPT !.asked = @ \ {q}, !.half = q,
                              !.queue = Queued(Chunk(q, "head"))]
    /\ UNCHANGED <<query, answer, reopenFailed>>

ResolverEnds(q) ==
    /\ relay.half = q
    /\ relay' = [relay EXCEPT !.half = NoQuery, !.queue = Queued(Chunk(q, "tail"))]
    /\ UNCHANGED <<query, answer, reopenFailed>>

-----------------------------------------------------------------------------
(* What the query's goroutine does without the resolver's answer.         *)
Resolve(q) ==
    \/ ReadQuery(q) \/ LockRelay(q)
    \/ PushQuery(q) \/ PushQueryFails(q)
    \/ ResolveReturns(q) \/ ResolveTimesOut(q)
    \/ Reopen(q) \/ ReopenFails(q)

-----------------------------------------------------------------------------
(* The relay's session and the queries' buffers are well formed            *)
(* (tunnel.go:385-389, :464-493).                                          *)
DnsTypeOK ==
    /\ \A q \in Queries :
          /\ query[q].at \in {"none", "read", "lock", "done"} \cup Holding
          /\ query[q].at = "poll" => query[q].buf \in Seq(Chunks)
    /\ relay.asked \subseteq Queries /\ relay.half \in Queries \cup {NoQuery}
    /\ relay.queue \in Seq(Chunks)
    /\ answer \in [Queries -> Queries \cup {Nothing, Garbage}]
    /\ reopenFailed \in BOOLEAN

(* Every query that is answered gets its own answer: the claim of          *)
(* tunnel.go:456-459, that one bad query costs one failed resolution.      *)
OwnAnswer == \A q \in Queries : answer[q] \in {q, Nothing}

(* As long as no reopen has failed, no query gets another's answer or a    *)
(* misframed one, whatever calls fail and whatever comes late              *)
(* (tunnel.go:460-499).                                                    *)
OwnAnswerWhileReopened == ~reopenFailed => OwnAnswer
=============================================================================
