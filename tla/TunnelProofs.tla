----------------------------- MODULE TunnelProofs ---------------------------
(***************************************************************************)
(* Proofs about Tunnel and DnsRelay, for any number of flows, queries,     *)
(* polls and payloads.                                                     *)
(*                                                                         *)
(* The relay: its mutex makes the session with the resolver one query's at *)
(* a time, and every way of giving a query up replaces the session, so a   *)
(* query that takes the mutex finds it as new.                             *)
(*                                                                         *)
(* A flow: until its CONNECT is answered its session's queue begins with   *)
(* the answer, if there is one; afterwards what the app has received, the  *)
(* pump's batch and the queue are one run that ends with the last thing    *)
(* queued, and answers are in it only once a payload has been reread.      *)
(***************************************************************************)
EXTENDS Tunnel, SequenceTheorems, TLAPS

-----------------------------------------------------------------------------
(* The relay's invariant.                                                  *)
Relays ==
    [asked : SUBSET Queries, half : Queries \cup {NoQuery}, queue : Seq(Chunks),
     upGap : BOOLEAN, downGap : BOOLEAN]

DnsShape ==
    /\ relay \in Relays
    /\ query = [q \in Queries |-> query[q]]
    /\ \A q \in Queries : query[q].at = "poll" => DOMAIN query[q] = {"at", "buf"}

Serialized == \A p, q \in Queries : query[p].at \in Holding /\ query[q].at \in Holding => p = q

Stream(q) == query[q].buf \o relay.queue

(* The query's answer is still to come, begun, or there.                   *)
Answering(q) ==
    /\ ~relay.upGap /\ ~relay.downGap
    /\ \/ relay.asked = {q} /\ relay.half = NoQuery /\ Stream(q) = << >>
       \/ relay.asked = {} /\ relay.half = q /\ Stream(q) = <<Chunk(q, "head")>>
       \/ /\ relay.asked = {} /\ relay.half = NoQuery
          /\ Stream(q) = <<Chunk(q, "head"), Chunk(q, "tail")>>

Clean ==
    /\ OwnAnswer
    /\ (\A q \in Queries : query[q].at \notin Holding) => relay = FreshRelay
    /\ \A q \in Queries :
          /\ query[q].at = "push" => relay = FreshRelay
          /\ query[q].at = "poll" => Answering(q)

DnsInv == DnsTypeOK /\ DnsShape /\ Serialized /\ (~reopenFailed => Clean)

LEMMA FreshFields ==
    /\ FreshRelay \in Relays
    /\ FreshRelay.asked = {} /\ FreshRelay.half = NoQuery /\ FreshRelay.queue = << >>
    /\ ~FreshRelay.upGap /\ ~FreshRelay.downGap
    /\ \A r \in Relays :
          /\ r.asked = {} /\ r.half = NoQuery /\ r.queue = << >> /\ ~r.upGap /\ ~r.downGap
          => r = FreshRelay
PROOF
<1>1. << >> \in Seq(Chunks)
    BY EmptySeq
<1> QED BY <1>1 DEF FreshRelay, Relays

LEMMA DnsInvInit == DnsInit => DnsInv
PROOF
<1> SUFFICES ASSUME DnsInit PROVE DnsInv
    OBVIOUS
<1> USE DEF DnsInit
<1>1. relay = FreshRelay
    OBVIOUS
<1>2. relay \in Relays /\ relay.asked = {} /\ relay.half = NoQuery /\ relay.queue = << >>
    BY <1>1, FreshFields
<1>3. DnsTypeOK
    <2>1. relay.queue \in Seq(Chunks)
        BY <1>2, EmptySeq
    <2> QED BY <1>2, <2>1 DEF DnsTypeOK
<1>4. DnsShape /\ Serialized
    BY <1>2 DEF DnsShape, Serialized, Holding
<1>5. Clean
    BY <1>1 DEF Clean, OwnAnswer
<1> QED BY <1>3, <1>4, <1>5 DEF DnsInv

(* A step that moves one query to a place without a buffer.                *)
Moved(q, place) ==
    /\ query' = [query EXCEPT ![q] = [at |-> place]]
    /\ query'[q].at = place
    /\ \A p \in Queries \ {q} : query'[p] = query[p]

LEMMA Moves ==
    ASSUME DnsInv, NEW q \in Queries, NEW place, Goto(q, place)
    PROVE  Moved(q, place)
PROOF
<1>1. q \in DOMAIN query
    BY DEF DnsInv, DnsShape
<1> QED BY <1>1 DEF Moved, Goto, DnsInv, DnsShape

LEMMA MovedShape ==
    ASSUME DnsInv, NEW q \in Queries, NEW place, Moved(q, place),
           place \in {"none", "read", "lock", "done", "push", "reopen"}
    PROVE  /\ query' = [p \in Queries |-> query'[p]]
           /\ \A p \in Queries :
                 /\ query'[p].at \in {"none", "read", "lock", "done"} \cup Holding
                 /\ query'[p].at = "poll" =>
                       query'[p].buf \in Seq(Chunks) /\ DOMAIN query'[p] = {"at", "buf"}
PROOF
<1>1. query' = [p \in Queries |-> query'[p]]
    BY DEF Moved, DnsInv, DnsShape
<1>2. ASSUME NEW p \in Queries
      PROVE  /\ query'[p].at \in {"none", "read", "lock", "done"} \cup Holding
             /\ query'[p].at = "poll" =>
                   query'[p].buf \in Seq(Chunks) /\ DOMAIN query'[p] = {"at", "buf"}
    <2>1. CASE p = q
        BY <2>1 DEF Moved, Holding
    <2>2. CASE p # q
        BY <2>2 DEF Moved, DnsInv, DnsTypeOK, DnsShape
    <2> QED BY <2>1, <2>2
<1> QED BY <1>1, <1>2

(* One that touches nothing else, and no query that holds the mutex.       *)
LEMMA DnsInvMove ==
    ASSUME DnsInv, NEW q \in Queries, NEW place, Goto(q, place),
           place \in {"read", "lock", "done"}, query[q].at \notin Holding,
           UNCHANGED <<relay, answer, reopenFailed>>
    PROVE  DnsInv'
PROOF
<1>1. Moved(q, place)
    BY Moves
<1>2. DnsTypeOK' /\ DnsShape'
    BY <1>1, MovedShape DEF DnsTypeOK, DnsShape, DnsInv
<1>3. \A p \in Queries : query'[p].at \in Holding => p # q
    BY <1>1 DEF Moved, Holding
<1>4. Serialized'
    BY <1>1, <1>3 DEF Moved, Serialized, DnsInv
<1>5. ASSUME Clean PROVE Clean'
    <2>1. ASSUME \A p \in Queries : query'[p].at \notin Holding
          PROVE  relay' = FreshRelay
        <3>1. \A p \in Queries : query[p].at \notin Holding
            BY <1>1, <2>1 DEF Moved
        <3> QED BY <1>5, <3>1 DEF Clean
    <2>2. ASSUME NEW p \in Queries, query'[p].at = "push"
          PROVE  relay' = FreshRelay
        <3>1. p # q
            BY <1>3, <2>2 DEF Holding
        <3> QED BY <1>1, <1>5, <2>2, <3>1 DEF Clean, Moved
    <2>3. ASSUME NEW p \in Queries, query'[p].at = "poll"
          PROVE  Answering(p)'
        <3>1. p # q
            BY <1>3, <2>3 DEF Holding
        <3>2. Answering(p) /\ query'[p] = query[p]
            BY <1>1, <1>5, <2>3, <3>1 DEF Clean, Moved
        <3> QED BY <3>2 DEF Answering, Stream
    <2>4. OwnAnswer'
        BY <1>5 DEF Clean, OwnAnswer
    <2>5. FreshRelay' = FreshRelay
        BY DEF FreshRelay
    <2> QED BY <2>1, <2>2, <2>3, <2>4, <2>5 DEF Clean
<1> QED BY <1>2, <1>4, <1>5 DEF DnsInv

LEMMA DnsInvTake ==
    ASSUME DnsInv, NEW q \in Queries, LockRelay(q)
    PROVE  DnsInv'
PROOF
<1>1. /\ Moved(q, "push") /\ \A p \in Queries : query[p].at \notin Holding
      /\ relay' = relay /\ answer' = answer /\ reopenFailed' = reopenFailed
    BY Moves DEF LockRelay
<1>2. DnsTypeOK' /\ DnsShape'
    BY <1>1, MovedShape DEF DnsTypeOK, DnsShape, DnsInv
<1>3. \A p \in Queries : query'[p].at \in Holding => p = q
    BY <1>1 DEF Moved
<1>4. Serialized'
    BY <1>3 DEF Serialized
<1>5. ASSUME Clean PROVE Clean'
    <2>1. relay' = FreshRelay
        BY <1>1, <1>5 DEF Clean
    <2>2. \A p \in Queries : query'[p].at # "poll"
        BY <1>1, <1>3 DEF Moved, Holding
    <2>3. OwnAnswer'
        BY <1>1, <1>5 DEF Clean, OwnAnswer
    <2> QED BY <2>1, <2>2, <2>3 DEF Clean, FreshRelay
<1> QED BY <1>1, <1>2, <1>4, <1>5 DEF DnsInv

(* The query that holds the mutex is alone with the relay.                 *)
Left(q) ==
    /\ query[q].at \notin Holding => relay = FreshRelay
    /\ query[q].at = "push" => relay = FreshRelay
    /\ query[q].at = "poll" => Answering(q)

LEMMA DnsInvHolder ==
    ASSUME DnsInv, NEW q \in Queries, query[q].at \in Holding,
           \A p \in Queries \ {q} : query'[p] = query[p],
           DnsTypeOK', DnsShape',
           ~reopenFailed' => ~reopenFailed /\ OwnAnswer' /\ Left(q)'
    PROVE  DnsInv'
PROOF
<1>1. \A p \in Queries : query'[p].at \in Holding => p = q
    BY DEF DnsInv, Serialized
<1>2. Serialized'
    BY <1>1 DEF Serialized
<1>3. ASSUME ~reopenFailed' PROVE Clean'
    <2>1. \A p \in Queries : query'[p].at \in {"push", "poll"} => p = q
        BY <1>1 DEF Holding
    <2>2. Left(q)' /\ OwnAnswer'
        BY <1>3
    <2>3. (\A p \in Queries : query'[p].at \notin Holding) => relay' = FreshRelay
        BY <2>2 DEF Left, FreshRelay
    <2>4. ASSUME NEW p \in Queries
          PROVE  /\ query'[p].at = "push" => relay' = FreshRelay
                 /\ query'[p].at = "poll" => Answering(p)'
        <3>1. CASE p = q
            BY <2>2, <3>1 DEF Left, FreshRelay
        <3>2. CASE p # q
            BY <2>1, <3>2
        <3> QED BY <3>1, <3>2
    <2> QED BY <2>2, <2>3, <2>4 DEF Clean, FreshRelay
<1> QED BY <1>2, <1>3 DEF DnsInv

LEMMA ChunkTypes ==
    ASSUME NEW q \in Queries
    PROVE  Chunk(q, "head") \in Chunks /\ Chunk(q, "tail") \in Chunks
PROOF
<1> QED BY DEF Chunk, Chunks

LEMMA MovedTypes ==
    ASSUME DnsInv, NEW q \in Queries, NEW place, Moved(q, place),
           place \in {"none", "read", "lock", "done", "push", "reopen"},
           relay' \in Relays, answer' \in [Queries -> Queries \cup {Nothing, Garbage}],
           reopenFailed' \in BOOLEAN
    PROVE  DnsTypeOK' /\ DnsShape'
PROOF
<1>1. /\ relay'.asked \subseteq Queries /\ relay'.half \in Queries \cup {NoQuery}
      /\ relay'.queue \in Seq(Chunks)
    BY DEF Relays
<1>2. DnsTypeOK'
    BY <1>1, MovedShape DEF DnsTypeOK
<1>3. DnsShape'
    <2>1. query' = [p \in Queries |-> query'[p]]
        BY MovedShape
    <2>2. \A p \in Queries : query'[p].at = "poll" => DOMAIN query'[p] = {"at", "buf"}
        BY MovedShape
    <2> QED BY <2>1, <2>2 DEF DnsShape, Relays, Chunks
<1> QED BY <1>2, <1>3

(* A query is given up: its session is, until the reopen, whatever it may. *)
LEMMA DnsInvGiveUp ==
    ASSUME DnsInv, NEW q \in Queries, query[q].at \in Holding, Goto(q, "reopen"),
           relay' \in Relays, UNCHANGED <<answer, reopenFailed>>
    PROVE  DnsInv'
PROOF
<1>1. Moved(q, "reopen")
    BY Moves
<1>2. DnsTypeOK' /\ DnsShape'
    BY <1>1, MovedTypes DEF DnsInv, DnsTypeOK
<1>3. ~reopenFailed' => ~reopenFailed /\ OwnAnswer' /\ Left(q)'
    <2>1. Left(q)'
        BY <1>1 DEF Left, Moved, Holding
    <2> QED BY <2>1 DEF DnsInv, Clean, OwnAnswer
<1> QED BY <1>1, <1>2, <1>3, DnsInvHolder DEF Moved

(* A query ends: the relay is as new, or a reopen has failed.              *)
LEMMA DnsInvEnds ==
    ASSUME DnsInv, NEW q \in Queries, query[q].at \in Holding, Goto(q, "done"),
           relay' \in Relays, answer' \in [Queries -> Queries \cup {Nothing, Garbage}],
           reopenFailed' \in BOOLEAN,
           ~reopenFailed' => ~reopenFailed /\ OwnAnswer' /\ relay' = FreshRelay
    PROVE  DnsInv'
PROOF
<1>1. Moved(q, "done")
    BY Moves
<1>2. DnsTypeOK' /\ DnsShape'
    BY <1>1, MovedTypes
<1>3. ~reopenFailed' => Left(q)'
    BY <1>1 DEF Left, Moved, Holding, FreshRelay
<1> QED BY <1>1, <1>2, <1>3, DnsInvHolder DEF Moved

LEMMA AskedTypes ==
    ASSUME DnsInv, NEW q \in Queries
    PROVE  /\ Asked(q) \in Relays
           /\ [relay EXCEPT !.upGap = TRUE] \in Relays
           /\ [relay EXCEPT !.queue = << >>,
                            !.downGap = relay.downGap \/ relay.queue # << >>] \in Relays
PROOF
<1>1. relay \in Relays
    BY DEF DnsInv, DnsShape
<1>2. << >> \in Seq(Chunks)
    BY EmptySeq
<1>3. (relay.downGap \/ relay.queue # << >>) \in BOOLEAN
    OBVIOUS
<1>4. PICK gap \in BOOLEAN : gap = (relay.downGap \/ relay.queue # << >>)
    BY <1>3
<1>5. [relay EXCEPT !.queue = << >>, !.downGap = gap] \in Relays
    BY <1>1, <1>2, <1>4 DEF Relays
<1>6. Asked(q) \in Relays
    BY <1>1 DEF Relays, Asked
<1>7. [relay EXCEPT !.upGap = TRUE] \in Relays
    BY <1>1 DEF Relays
<1> QED BY <1>4, <1>5, <1>6, <1>7

LEMMA DnsInvPushFails ==
    ASSUME DnsInv, NEW q \in Queries, PushQueryFails(q)
    PROVE  DnsInv'
PROOF
<1> QED BY AskedTypes, DnsInvGiveUp DEF PushQueryFails, Holding

LEMMA DnsInvPullFails ==
    ASSUME DnsInv, NEW q \in Queries, PullAnswerFails(q)
    PROVE  DnsInv'
PROOF
<1>1. relay' \in Relays
    <2>1. relay \in Relays
        BY DEF DnsInv, DnsShape
    <2> QED BY <2>1, AskedTypes DEF PullAnswerFails
<1> QED BY <1>1, DnsInvGiveUp DEF PullAnswerFails, Holding

LEMMA DnsInvTimesOut ==
    ASSUME DnsInv, NEW q \in Queries, ResolveTimesOut(q)
    PROVE  DnsInv'
PROOF
<1>1. relay' \in Relays
    BY DEF ResolveTimesOut, DnsInv, DnsShape
<1> QED BY <1>1, DnsInvGiveUp DEF ResolveTimesOut, Holding

LEMMA DnsInvReopen ==
    ASSUME DnsInv, NEW q \in Queries, Reopen(q) \/ ReopenFails(q)
    PROVE  DnsInv'
PROOF
<1>1. /\ query[q].at \in Holding /\ Goto(q, "done") /\ answer' = answer
      /\ answer \in [Queries -> Queries \cup {Nothing, Garbage}]
    BY DEF Reopen, ReopenFails, Holding, DnsInv, DnsTypeOK
<1>2. relay' \in Relays /\ reopenFailed' \in BOOLEAN
    BY FreshFields DEF Reopen, ReopenFails, DnsInv, DnsShape, DnsTypeOK
<1>3. ~reopenFailed' => ~reopenFailed /\ OwnAnswer' /\ relay' = FreshRelay
    BY <1>1 DEF Reopen, ReopenFails, DnsInv, Clean, OwnAnswer
<1> QED BY <1>1, <1>2, <1>3, DnsInvEnds

(* A query that polls, and what it has read.                               *)
LEMMA PolledTypes ==
    ASSUME DnsInv, NEW q \in Queries, NEW e, query' = [query EXCEPT ![q] = e],
           e.at = "poll", DOMAIN e = {"at", "buf"}, e.buf \in Seq(Chunks),
           relay' \in Relays, UNCHANGED <<answer, reopenFailed>>
    PROVE  /\ DnsTypeOK' /\ DnsShape'
           /\ query'[q] = e /\ \A p \in Queries \ {q} : query'[p] = query[p]
PROOF
<1>1. /\ query' = [p \in Queries |-> query'[p]]
      /\ query'[q] = e /\ \A p \in Queries \ {q} : query'[p] = query[p]
    BY DEF DnsInv, DnsShape
<1>2. ASSUME NEW p \in Queries
      PROVE  /\ query'[p].at \in {"none", "read", "lock", "done"} \cup Holding
             /\ query'[p].at = "poll" =>
                   query'[p].buf \in Seq(Chunks) /\ DOMAIN query'[p] = {"at", "buf"}
    <2>1. CASE p = q
        BY <1>1, <2>1 DEF Holding
    <2>2. CASE p # q
        BY <1>1, <2>2 DEF DnsInv, DnsTypeOK, DnsShape
    <2> QED BY <2>1, <2>2
<1>3. DnsTypeOK'
    <2>1. /\ relay'.asked \subseteq Queries /\ relay'.half \in Queries \cup {NoQuery}
          /\ relay'.queue \in Seq(Chunks)
        BY DEF Relays
    <2> QED BY <1>2, <2>1 DEF DnsTypeOK, DnsInv
<1>4. DnsShape'
    BY <1>1, <1>2 DEF DnsShape, Relays, Chunks
<1> QED BY <1>1, <1>3, <1>4

LEMMA DnsInvPush ==
    ASSUME DnsInv, NEW q \in Queries, PushQuery(q)
    PROVE  DnsInv'
PROOF
<1>1. << >> \in Seq(Chunks)
    BY EmptySeq
<1>2. PICK e : e = [at |-> "poll", buf |-> << >>]
    OBVIOUS
<1>3. e.at = "poll" /\ DOMAIN e = {"at", "buf"} /\ e.buf = << >>
    BY <1>2
<1>4. relay' = Asked(q) /\ relay' \in Relays
    BY AskedTypes DEF PushQuery
<1>5. /\ query' = [query EXCEPT ![q] = e] /\ query[q].at = "push"
      /\ answer' = answer /\ reopenFailed' = reopenFailed
    BY <1>2 DEF PushQuery
<1>6. /\ DnsTypeOK' /\ DnsShape'
      /\ query'[q] = e /\ \A p \in Queries \ {q} : query'[p] = query[p]
    BY <1>1, <1>3, <1>4, <1>5, PolledTypes
<1>7. ASSUME ~reopenFailed' PROVE ~reopenFailed /\ OwnAnswer' /\ Left(q)'
    <2>1. ~reopenFailed /\ OwnAnswer' /\ relay = FreshRelay
        BY <1>5, <1>7 DEF DnsInv, Clean, OwnAnswer
    <2>2. /\ relay'.asked = {q} /\ relay'.half = NoQuery /\ relay'.queue = << >>
          /\ ~relay'.upGap /\ ~relay'.downGap
        BY <1>4, <2>1 DEF FreshRelay, Asked
    <2>3. query'[q].buf \o relay'.queue = << >>
        BY <1>3, <1>6, <2>2, <1>1, ConcatEmptySeq
    <2>4. Answering(q)'
        BY <2>2, <2>3 DEF Answering, Stream
    <2> QED BY <1>3, <1>6, <2>1, <2>4 DEF Left, Holding
<1> QED BY <1>5, <1>6, <1>7, DnsInvHolder DEF Holding

LEMMA DnsInvPull ==
    ASSUME DnsInv, NEW q \in Queries, PullAnswer(q)
    PROVE  DnsInv'
PROOF
<1>1. /\ << >> \in Seq(Chunks) /\ query[q].buf \in Seq(Chunks) /\ relay.queue \in Seq(Chunks)
      /\ relay \in Relays /\ DOMAIN query[q] = {"at", "buf"} /\ query[q].at = "poll"
    BY EmptySeq DEF PullAnswer, DnsInv, DnsTypeOK, DnsShape
<1>2. PICK stream \in Seq(Chunks) : stream = Stream(q)
    BY <1>1, ConcatProperties DEF Stream
<1>3. PICK e : e = [query[q] EXCEPT !.buf = stream]
    OBVIOUS
<1>4. e.at = "poll" /\ DOMAIN e = {"at", "buf"} /\ e.buf = stream
    BY <1>1, <1>3
<1>5. /\ relay' \in Relays /\ relay'.queue = << >>
      /\ relay'.asked = relay.asked /\ relay'.half = relay.half
      /\ relay'.upGap = relay.upGap /\ relay'.downGap = relay.downGap
    BY <1>1 DEF PullAnswer, Relays
<1>6. /\ query' = [query EXCEPT ![q] = e]
      /\ answer' = answer /\ reopenFailed' = reopenFailed
    BY <1>1, <1>2, <1>3 DEF PullAnswer, Stream, DnsInv, DnsShape
<1>7. /\ DnsTypeOK' /\ DnsShape'
      /\ query'[q] = e /\ \A p \in Queries \ {q} : query'[p] = query[p]
    BY <1>4, <1>5, <1>6, PolledTypes
<1>8. ASSUME ~reopenFailed' PROVE ~reopenFailed /\ OwnAnswer' /\ Left(q)'
    <2>1. ~reopenFailed /\ OwnAnswer' /\ Answering(q)
        BY <1>1, <1>6, <1>8 DEF DnsInv, Clean, OwnAnswer
    <2>2. query'[q].buf \o relay'.queue = stream
        BY <1>2, <1>4, <1>5, <1>7, ConcatEmptySeq
    <2>3. Answering(q)'
        BY <1>2, <1>5, <2>1, <2>2 DEF Answering, Stream, Chunk
    <2> QED BY <1>4, <1>7, <2>1, <2>3 DEF Left, Holding
<1> QED BY <1>1, <1>7, <1>8, DnsInvHolder DEF Holding

(* The answer is complete: nothing of it is left in the session.           *)
LEMMA BothChunks ==
    ASSUME DnsInv, NEW q \in Queries, query[q].at = "poll", Answering(q),
           Len(query[q].buf) >= 2
    PROVE  /\ query[q].buf = <<Chunk(q, "head"), Chunk(q, "tail")>>
           /\ relay = FreshRelay
PROOF
<1>1. query[q].buf \in Seq(Chunks) /\ relay.queue \in Seq(Chunks) /\ relay \in Relays
    BY DEF DnsInv, DnsTypeOK, DnsShape
<1>2. PICK buf \in Seq(Chunks) : buf = query[q].buf
    BY <1>1
<1>3. PICK rest \in Seq(Chunks) : rest = relay.queue
    BY <1>1
<1>4. /\ Len(buf \o rest) = Len(buf) + Len(rest) /\ Len(buf) >= 2
      /\ Len(buf) \in Nat /\ Len(rest) \in Nat
    BY <1>2, ConcatProperties, LenProperties
<1>5. Len(buf \o rest) >= 2
    BY <1>4
<1>6. /\ buf \o rest = <<Chunk(q, "head"), Chunk(q, "tail")>>
      /\ relay.asked = {} /\ relay.half = NoQuery /\ ~relay.upGap /\ ~relay.downGap
    <2>1. Stream(q) = buf \o rest
        BY <1>2, <1>3 DEF Stream
    <2>2. Stream(q) # << >>
        <3>1. Len(<< >>) = 0
            OBVIOUS
        <3> QED BY <1>4, <2>1, <3>1
    <2>3. Stream(q) # <<Chunk(q, "head")>>
        <3>1. PICK one : one = Chunk(q, "head")
            OBVIOUS
        <3>2. Len(<<one>>) = 1
            OBVIOUS
        <3> QED BY <1>4, <2>1, <3>1, <3>2
    <2> QED BY <2>1, <2>2, <2>3 DEF Answering
<1>7. Len(buf \o rest) = 2
    BY <1>6
<1>8. Len(rest) = 0
    BY <1>4, <1>7
<1>9. rest = << >>
    BY <1>8, EmptySeq
<1>10. buf = buf \o rest
    BY <1>9, ConcatEmptySeq
<1> QED BY <1>1, <1>2, <1>3, <1>6, <1>9, <1>10, FreshFields

LEMMA DnsInvReturns ==
    ASSUME DnsInv, NEW q \in Queries, ResolveReturns(q)
    PROVE  DnsInv'
PROOF
<1>1. /\ query[q].at = "poll" /\ Len(query[q].buf) >= 2 /\ Goto(q, "done")
      /\ relay' = relay /\ reopenFailed' = reopenFailed
      /\ relay \in Relays /\ reopenFailed \in BOOLEAN
      /\ answer \in [Queries -> Queries \cup {Nothing, Garbage}]
    BY DEF ResolveReturns, DnsInv, DnsTypeOK, DnsShape
<1>2. PICK got : got = IF query[q].buf[1].of = query[q].buf[2].of /\ Framed(query[q].buf)
                       THEN query[q].buf[1].of ELSE Garbage
    OBVIOUS
<1>3. answer' = [answer EXCEPT ![q] = got]
    BY <1>2 DEF ResolveReturns
<1>4. got \in Queries \cup {Garbage}
    <2>1. query[q].buf \in Seq(Chunks)
        BY <1>1 DEF DnsInv, DnsTypeOK
    <2>2. query[q].buf[1] \in Chunks
        BY <1>1, <2>1
    <2>3. query[q].buf[1].of \in Queries
        BY <2>2 DEF Chunks
    <2> QED BY <1>2, <2>3
<1>5. answer' \in [Queries -> Queries \cup {Nothing, Garbage}]
    BY <1>1, <1>3, <1>4
<1>6. ASSUME ~reopenFailed' PROVE ~reopenFailed /\ OwnAnswer' /\ relay' = FreshRelay
    <2>1. ~reopenFailed /\ OwnAnswer /\ Answering(q)
        BY <1>1, <1>6 DEF DnsInv, Clean
    <2>2. /\ query[q].buf = <<Chunk(q, "head"), Chunk(q, "tail")>>
          /\ relay = FreshRelay
        BY <1>1, <2>1, BothChunks
    <2>3. got = q
        <3>1. /\ query[q].buf[1] = Chunk(q, "head") /\ query[q].buf[2] = Chunk(q, "tail")
              /\ Len(query[q].buf) >= 2
            BY <1>1, <2>2
        <3> QED BY <1>2, <3>1 DEF Chunk, Framed
    <2>4. OwnAnswer'
        BY <1>1, <1>3, <2>1, <2>3 DEF OwnAnswer
    <2> QED BY <1>1, <2>1, <2>2, <2>4
<1>7. query[q].at \in Holding
    BY <1>1 DEF Holding
<1> QED BY <1>1, <1>5, <1>6, <1>7, DnsInvEnds

(* The resolver's part: what it sends goes behind what is queued.          *)
LEMMA QueuedBehind ==
    ASSUME DnsInv, NEW chunk \in Chunks
    PROVE  /\ Queued(chunk) \in Seq(Chunks)
           /\ \A p \in Queries :
                 query[p].at = "poll" /\ ~relay.downGap =>
                    query[p].buf \o Queued(chunk) = Append(Stream(p), chunk)
PROOF
<1>1. PICK old \in Seq(Chunks) : old = relay.queue
    BY DEF DnsInv, DnsTypeOK
<1>2. Append(old, chunk) \in Seq(Chunks)
    BY AppendProperties
<1>3. ASSUME NEW p \in Queries, query[p].at = "poll"
      PROVE  query[p].buf \o Append(old, chunk) = Append(query[p].buf \o old, chunk)
    <2>1. PICK buf \in Seq(Chunks) : buf = query[p].buf
        BY <1>3 DEF DnsInv, DnsTypeOK
    <2>2. <<chunk>> \in Seq(Chunks) /\ buf \o old \in Seq(Chunks)
        BY ConcatProperties
    <2>3. Append(old, chunk) = old \o <<chunk>>
        BY AppendIsConcat
    <2>4. Append(buf \o old, chunk) = (buf \o old) \o <<chunk>>
        BY <2>2, AppendIsConcat
    <2>5. (buf \o old) \o <<chunk>> = buf \o (old \o <<chunk>>)
        BY <2>2, ConcatAssociative
    <2> QED BY <2>1, <2>3, <2>4, <2>5
<1> QED BY <1>1, <1>2, <1>3 DEF Queued, Stream

LEMMA DnsInvResolver ==
    ASSUME DnsInv, relay' \in Relays, UNCHANGED <<query, answer, reopenFailed>>,
           relay # FreshRelay,
           \A p \in Queries : query[p].at = "poll" /\ Answering(p) => Answering(p)'
    PROVE  DnsInv'
PROOF
<1>1. DnsTypeOK'
    <2>1. /\ relay'.asked \subseteq Queries /\ relay'.half \in Queries \cup {NoQuery}
          /\ relay'.queue \in Seq(Chunks)
        BY DEF Relays
    <2> QED BY <2>1 DEF DnsInv, DnsTypeOK, Chunks, Holding
<1>2. DnsShape' /\ Serialized'
    BY DEF DnsInv, DnsShape, Serialized, Relays, Chunks, Holding
<1>3. ASSUME ~reopenFailed' PROVE Clean'
    <2>1. ~reopenFailed /\ Clean
        BY <1>3 DEF DnsInv
    <2>2. /\ ~(\A p \in Queries : query[p].at \notin Holding)
          /\ \A p \in Queries : query[p].at # "push"
        BY <2>1 DEF Clean
    <2>3. \A p \in Queries : query'[p].at = "poll" => Answering(p)'
        BY <2>1 DEF Clean
    <2>4. OwnAnswer'
        BY <2>1 DEF Clean, OwnAnswer
    <2> QED BY <2>2, <2>3, <2>4 DEF Clean, Holding
<1> QED BY <1>1, <1>2, <1>3 DEF DnsInv

LEMMA DnsInvBegins ==
    ASSUME DnsInv, NEW q \in Queries, ResolverBegins(q)
    PROVE  DnsInv'
PROOF
<1>1. relay \in Relays /\ NoQuery \notin Queries
    BY QueryAssumption DEF DnsInv, DnsShape
<1>2. PICK queue2 \in Seq(Chunks) : queue2 = Queued(Chunk(q, "head"))
    BY ChunkTypes, QueuedBehind
<1>3. relay' = [relay EXCEPT !.asked = relay.asked \ {q}, !.half = q, !.queue = queue2]
    BY <1>2 DEF ResolverBegins
<1>4. /\ relay' \in Relays
      /\ relay'.asked = relay.asked \ {q} /\ relay'.half = q /\ relay'.queue = queue2
      /\ relay'.upGap = relay.upGap /\ relay'.downGap = relay.downGap
    BY <1>1, <1>3 DEF Relays
<1>5. relay # FreshRelay
    BY FreshFields DEF ResolverBegins
<1>6. ASSUME NEW p \in Queries, query[p].at = "poll", Answering(p) PROVE Answering(p)'
    <2>1. /\ p = q /\ relay.asked = {q} /\ relay.half = NoQuery /\ Stream(q) = << >>
          /\ ~relay.upGap /\ ~relay.downGap
        BY <1>1, <1>6 DEF ResolverBegins, Answering
    <2>2. query[q].buf \o queue2 = Append(<< >>, Chunk(q, "head"))
        BY <1>2, <1>6, <2>1, ChunkTypes, QueuedBehind
    <2>3. query'[q].buf \o relay'.queue = <<Chunk(q, "head")>>
        BY <1>4, <2>2 DEF ResolverBegins
    <2> QED BY <1>4, <2>1, <2>3 DEF Answering, Stream, Chunk
<1> QED BY <1>4, <1>5, <1>6, DnsInvResolver DEF ResolverBegins

LEMMA DnsInvAnswered ==
    ASSUME DnsInv, NEW q \in Queries, ResolverEnds(q)
    PROVE  DnsInv'
PROOF
<1>1. relay \in Relays /\ NoQuery \notin Queries
    BY QueryAssumption DEF DnsInv, DnsShape
<1>2. PICK queue2 \in Seq(Chunks) : queue2 = Queued(Chunk(q, "tail"))
    BY ChunkTypes, QueuedBehind
<1>3. relay' = [relay EXCEPT !.half = NoQuery, !.queue = queue2]
    BY <1>2 DEF ResolverEnds
<1>4. /\ relay' \in Relays
      /\ relay'.asked = relay.asked /\ relay'.half = NoQuery /\ relay'.queue = queue2
      /\ relay'.upGap = relay.upGap /\ relay'.downGap = relay.downGap
    BY <1>1, <1>3 DEF Relays
<1>5. relay # FreshRelay
    BY <1>1, FreshFields DEF ResolverEnds
<1>6. ASSUME NEW p \in Queries, query[p].at = "poll", Answering(p) PROVE Answering(p)'
    <2>1. /\ p = q /\ relay.asked = {} /\ Stream(q) = <<Chunk(q, "head")>>
          /\ ~relay.upGap /\ ~relay.downGap
        BY <1>1, <1>6 DEF ResolverEnds, Answering
    <2>2. query[q].buf \o queue2 = Append(<<Chunk(q, "head")>>, Chunk(q, "tail"))
        BY <1>2, <1>6, <2>1, ChunkTypes, QueuedBehind
    <2>3. PICK head, tail : head = Chunk(q, "head") /\ tail = Chunk(q, "tail")
        OBVIOUS
    <2>4. Append(<<head>>, tail) = <<head, tail>>
        <3>1. <<head>> \in Seq({head, tail}) /\ <<head, tail>> \in Seq({head, tail})
            OBVIOUS
        <3>2. Len(<<head>>) = 1 /\ Len(<<head, tail>>) = 2
            OBVIOUS
        <3>3. PICK both \in Seq({head, tail}) : both = Append(<<head>>, tail)
            BY <3>1, AppendProperties
        <3>4. Len(both) = 2 /\ both[1] = head /\ both[2] = tail
            BY <3>1, <3>2, <3>3, AppendProperties
        <3>5. PICK pair \in Seq({head, tail}) : pair = <<head, tail>>
            BY <3>1
        <3>6. Len(pair) = 2 /\ pair[1] = head /\ pair[2] = tail
            BY <3>5
        <3>7. Len(both) = Len(pair) /\ \A i \in 1 .. Len(both) : both[i] = pair[i]
            BY <3>4, <3>6
        <3>8. both = pair
            BY <3>7, SeqEqual
        <3> QED BY <3>3, <3>5, <3>8
    <2>5. query'[q].buf \o relay'.queue = <<Chunk(q, "head"), Chunk(q, "tail")>>
        BY <1>4, <2>2, <2>3, <2>4 DEF ResolverEnds
    <2> QED BY <1>4, <2>1, <2>5 DEF Answering, Stream, Chunk
<1> QED BY <1>4, <1>5, <1>6, DnsInvResolver DEF ResolverEnds

LEMMA DnsInvStep == DnsInv /\ DnsStep => DnsInv'
PROOF
<1> SUFFICES ASSUME DnsInv, NEW q \in Queries,
                    \/ QueryArrives(q) \/ Resolve(q)
                    \/ PullAnswer(q) \/ PullAnswerFails(q)
                    \/ ResolverBegins(q) \/ ResolverEnds(q)
             PROVE  DnsInv'
    BY DEF DnsStep
<1>1. CASE QueryArrives(q)
    BY <1>1, DnsInvMove DEF QueryArrives, Holding
<1>2. CASE ReadQuery(q)
    BY <1>2, DnsInvMove DEF ReadQuery, Holding
<1>3. CASE LockRelay(q)
    BY <1>3, DnsInvTake
<1>4. CASE PushQuery(q)
    BY <1>4, DnsInvPush
<1>5. CASE PushQueryFails(q)
    BY <1>5, DnsInvPushFails
<1>6. CASE ResolveReturns(q)
    BY <1>6, DnsInvReturns
<1>7. CASE ResolveTimesOut(q)
    BY <1>7, DnsInvTimesOut
<1>8. CASE Reopen(q) \/ ReopenFails(q)
    BY <1>8, DnsInvReopen
<1>9. CASE PullAnswer(q)
    BY <1>9, DnsInvPull
<1>10. CASE PullAnswerFails(q)
    BY <1>10, DnsInvPullFails
<1>11. CASE ResolverBegins(q)
    BY <1>11, DnsInvBegins
<1>12. CASE ResolverEnds(q)
    BY <1>12, DnsInvAnswered
<1> QED BY <1>1, <1>2, <1>3, <1>4, <1>5, <1>6, <1>7, <1>8, <1>9, <1>10, <1>11, <1>12 DEF Resolve

LEMMA DnsInvUntouched == DnsInv /\ UNCHANGED dns => DnsInv'
PROOF
<1> SUFFICES ASSUME DnsInv, UNCHANGED dns PROVE DnsInv'
    OBVIOUS
<1>1. query' = query /\ relay' = relay /\ answer' = answer /\ reopenFailed' = reopenFailed
    BY DEF dns
<1>2. DnsTypeOK'
    BY <1>1 DEF DnsInv, DnsTypeOK, Chunks, Holding
<1>3. DnsShape' /\ Serialized'
    BY <1>1 DEF DnsInv, DnsShape, Serialized, Relays, Chunks, Holding
<1>4. Clean => Clean'
    <2>1. \A q \in Queries : Answering(q) => Answering(q)'
        BY <1>1 DEF Answering, Stream, Chunk
    <2> QED BY <1>1, <2>1 DEF Clean, OwnAnswer, FreshRelay, Holding
<1> QED BY <1>1, <1>2, <1>3, <1>4 DEF DnsInv

-----------------------------------------------------------------------------
(* What a session queues for its flow: given to the app (given), in the    *)
(* pump's batch and in the queue, it is one run that ends with the last    *)
(* queued and starts after the flow's own answer.  Answers are among it    *)
(* only if a payload of the app was reread as a CONNECT (mixed).           *)
Items == [n : Nat, what : {"OK", "ERROR", "bytes"}]

Run(s, before, mixed) ==
    \A i \in 1 .. Len(s) : s[i].n = before + i /\ (s[i].what = "bytes" \/ mixed)

Chain(sent, waiting, batch, given, mixed) ==
    /\ sent - Len(waiting) - Len(batch) - Len(given) >= 1
    /\ Run(waiting, sent - Len(waiting), mixed)
    /\ Run(batch, sent - Len(waiting) - Len(batch), mixed)
    /\ Run(given, sent - Len(waiting) - Len(batch) - Len(given), mixed)

InARow(given, mixed) == \E before \in Nat \ {0} : Run(given, before, mixed)

LEMMA RunWidens ==
    ASSUME NEW s, NEW before, NEW mixed \in BOOLEAN, NEW mixed2 \in BOOLEAN,
           mixed => mixed2, Run(s, before, mixed)
    PROVE  Run(s, before, mixed2)
PROOF
<1> QED BY DEF Run

LEMMA ChainBegins ==
    ASSUME NEW sent \in Nat \ {0}, NEW mixed \in BOOLEAN
    PROVE  Chain(sent, << >>, << >>, << >>, mixed)
PROOF
<1>1. Len(<< >>) = 0
    OBVIOUS
<1> QED BY <1>1 DEF Chain, Run

LEMMA ChainSends ==
    ASSUME NEW sent \in Nat, NEW waiting \in Seq(Items), NEW batch \in Seq(Items),
           NEW given \in Seq(Items), NEW mixed \in BOOLEAN,
           Chain(sent, waiting, batch, given, mixed),
           NEW item \in Items, item.n = sent + 1, item.what = "bytes" \/ mixed
    PROVE  Chain(sent + 1, Append(waiting, item), batch, given, mixed)
PROOF
<1>2. PICK longer \in Seq(Items) : longer = Append(waiting, item)
    BY AppendProperties
<1>3. /\ Len(longer) = Len(waiting) + 1 /\ longer[Len(waiting) + 1] = item
      /\ \A i \in 1 .. Len(waiting) : longer[i] = waiting[i]
    BY <1>2, AppendProperties
<1>4. Len(waiting) \in Nat /\ Len(batch) \in Nat /\ Len(given) \in Nat
    BY LenProperties
<1>5. sent + 1 - Len(longer) = sent - Len(waiting)
    BY <1>3, <1>4
<1>6. Run(longer, sent + 1 - Len(longer), mixed)
    <2>1. ASSUME NEW i \in 1 .. Len(longer) 
          PROVE  longer[i].n = sent - Len(waiting) + i /\ (longer[i].what = "bytes" \/ mixed)
        <3>1. CASE i = Len(waiting) + 1
            BY <1>3, <1>4, <3>1
        <3>2. CASE i # Len(waiting) + 1
            <4>1. i \in 1 .. Len(waiting)
                BY <1>3, <1>4, <3>2
            <4> QED BY <1>3, <4>1 DEF Chain, Run
        <3> QED BY <3>1, <3>2
    <2> QED BY <1>5, <2>1 DEF Run
<1>7. Chain(sent + 1, longer, batch, given, mixed)
    <2>1. PICK before : before = sent - Len(waiting)
        OBVIOUS
    <2>2. /\ before - Len(batch) - Len(given) >= 1
          /\ Run(batch, before - Len(batch), mixed)
          /\ Run(given, before - Len(batch) - Len(given), mixed)
        BY <2>1 DEF Chain
    <2>3. before = sent + 1 - Len(longer)
        BY <1>5, <2>1
    <2> QED BY <1>6, <2>2, <2>3 DEF Chain
<1> QED BY <1>2, <1>7

LEMMA ChainPulls ==
    ASSUME NEW sent \in Nat, NEW waiting \in Seq(Items), NEW given \in Seq(Items),
           NEW mixed \in BOOLEAN, Chain(sent, waiting, << >>, given, mixed)
    PROVE  Chain(sent, << >>, waiting, given, mixed)
PROOF
<1>1. Len(<< >>) = 0 /\ Len(waiting) \in Nat /\ Len(given) \in Nat
    BY LenProperties
<1> QED BY <1>1 DEF Chain, Run

LEMMA ChainWrites ==
    ASSUME NEW sent \in Nat, NEW waiting \in Seq(Items), NEW batch \in Seq(Items),
           NEW given \in Seq(Items), NEW mixed \in BOOLEAN,
           Chain(sent, waiting, batch, given, mixed), batch # << >>
    PROVE  Chain(sent, waiting, Tail(batch), Append(given, Head(batch)), mixed)
PROOF
<1>1. PICK left \in Seq(Items) : left = Tail(batch)
    BY HeadTailProperties
<1>2. PICK first \in Items : first = Head(batch)
    BY HeadTailProperties
<1>3. PICK longer \in Seq(Items) : longer = Append(given, first)
    BY AppendProperties
<1>4. /\ Len(left) = Len(batch) - 1 /\ first = batch[1]
      /\ \A i \in 1 .. Len(left) : left[i] = batch[i + 1]
    BY <1>1, <1>2, HeadTailProperties
<1>5. /\ Len(longer) = Len(given) + 1 /\ longer[Len(given) + 1] = first
      /\ \A i \in 1 .. Len(given) : longer[i] = given[i]
    BY <1>3, AppendProperties
<1>6. /\ Len(waiting) \in Nat /\ Len(given) \in Nat /\ Len(batch) \in Nat \ {0}
      /\ Len(left) \in Nat /\ Len(longer) \in Nat
    BY LenProperties, EmptySeq
<1>7. first.n = sent - Len(waiting) - Len(batch) + 1 /\ (first.what = "bytes" \/ mixed)
    BY <1>4, <1>6 DEF Chain, Run
<1>8. sent - Len(waiting) - Len(left) - Len(longer) = sent - Len(waiting) - Len(batch) - Len(given)
    BY <1>4, <1>5, <1>6
<1>9. Run(left, sent - Len(waiting) - Len(left), mixed)
    <2>1. ASSUME NEW i \in 1 .. Len(left)
          PROVE  /\ left[i].n = sent - Len(waiting) - Len(left) + i
                 /\ left[i].what = "bytes" \/ mixed
        <3>1. i + 1 \in 1 .. Len(batch) /\ left[i] = batch[i + 1]
            BY <1>4, <1>6
        <3>2. /\ batch[i + 1].n = sent - Len(waiting) - Len(batch) + (i + 1)
              /\ batch[i + 1].what = "bytes" \/ mixed
            BY <3>1 DEF Chain, Run
        <3> QED BY <1>4, <1>6, <3>1, <3>2
    <2> QED BY <2>1 DEF Run
<1>10. Run(longer, sent - Len(waiting) - Len(left) - Len(longer), mixed)
    <2>1. ASSUME NEW i \in 1 .. Len(longer)
          PROVE  /\ longer[i].n = sent - Len(waiting) - Len(batch) - Len(given) + i
                 /\ longer[i].what = "bytes" \/ mixed
        <3>1. CASE i = Len(given) + 1
            BY <1>5, <1>6, <1>7, <3>1
        <3>2. CASE i # Len(given) + 1
            <4>1. i \in 1 .. Len(given)
                BY <1>5, <1>6, <3>2
            <4> QED BY <1>5, <4>1 DEF Chain, Run
        <3> QED BY <3>1, <3>2
    <2> QED BY <1>8, <2>1 DEF Run
<1>11. Chain(sent, waiting, left, longer, mixed)
    BY <1>8, <1>9, <1>10 DEF Chain
<1> QED BY <1>1, <1>2, <1>3, <1>11

LEMMA ChainInARow ==
    ASSUME NEW sent \in Nat, NEW waiting \in Seq(Items), NEW batch \in Seq(Items),
           NEW given \in Seq(Items), NEW mixed \in BOOLEAN,
           Chain(sent, waiting, batch, given, mixed)
    PROVE  InARow(given, mixed)
PROOF
<1>1. Len(waiting) \in Nat /\ Len(batch) \in Nat /\ Len(given) \in Nat
    BY LenProperties
<1>2. PICK before : before = sent - Len(waiting) - Len(batch) - Len(given)
    OBVIOUS
<1>3. before \in Nat \ {0} /\ Run(given, before, mixed)
    BY <1>1, <1>2 DEF Chain
<1> QED BY <1>3 DEF InARow

-----------------------------------------------------------------------------
(* The invariant of one flow.                                              *)
Links == [at : {"off", "dialing", "on"}, reread : BOOLEAN, late : BOOLEAN]

FlowTypeOK(f) ==
    /\ flow[f].at \in {"none", "accepted", "open", "wait", "start", "relay", "returned"}
    /\ flow[f].at = "wait" => DOMAIN flow[f] = {"at", "polls"} /\ flow[f].polls \in 0 .. MaxPolls
    /\ conn[f] \in {"none", "open", "appClosed", "closed"}
    /\ done[f] \in BOOLEAN
    /\ up[f] = [at |-> up[f].at] /\ up[f].at \in {"off", "read", "push", "ended"}
    /\ down[f].at \in {"off", "check", "pull", "write", "ended"}
    /\ down[f].at = "write" => DOMAIN down[f] = {"at", "batch"} /\ down[f].batch \in Seq(Items)
    /\ queue[f] \in Seq(Items) /\ received[f] \in Seq(Items)
    /\ DOMAIN target[f] = {"result", "sent"}
    /\ target[f].result \in {"none", "OK", "ERROR"} /\ target[f].sent \in Nat
    /\ target[f].result # "none" => target[f].sent # 0
    /\ link[f] \in Links

Unconnected(f) == target[f].result = "none" /\ target[f].sent = 0 /\ queue[f] = << >>

(* The answer to CONNECT is the first the flow's session queues.           *)
Answered(f) ==
    \/ target[f].result = "none" /\ queue[f] = << >>
    \/ target[f].result # "none" /\ queue[f] # << >> /\ Head(queue[f]).what = target[f].result

Batch(f) == IF down[f].at = "write" THEN down[f].batch ELSE << >>

Chained(f) == Chain(target[f].sent, queue[f], Batch(f), received[f], link[f].reread)

Given(f) == InARow(received[f], link[f].reread)

FlowInv(f) ==
    /\ FlowTypeOK(f)
    /\ flow[f].at \in {"none", "accepted", "open"} => Unconnected(f)
    /\ flow[f].at = "wait" => Answered(f)
    /\ flow[f].at \in {"start", "relay"} => target[f].result = "OK"
    /\ up[f].at # "off" => flow[f].at \in {"relay", "returned"} /\ target[f].result = "OK"
    /\ up[f].at = "off" <=> down[f].at = "off"
    /\ down[f].at = "off" => received[f] = << >>
    /\ flow[f].at = "start" \/ down[f].at \in {"check", "pull", "write"} =>
          Chained(f)
    /\ down[f].at = "ended" => Given(f)

FlowShape ==
    /\ DOMAIN flow = Flows /\ DOMAIN conn = Flows /\ DOMAIN done = Flows
    /\ DOMAIN up = Flows /\ DOMAIN down = Flows /\ DOMAIN queue = Flows
    /\ DOMAIN target = Flows /\ DOMAIN link = Flows /\ DOMAIN received = Flows

FlowsInv == FlowShape /\ \A f \in Flows : FlowInv(f)

(* A flow's session at the server.  A connection is dialed for the flow's  *)
(* own CONNECT until that one is answered, and for a reread payload after. *)
LinkInv(f) ==
    /\ flow[f].at \in {"none", "accepted", "open"} => link[f].at = "off"
    /\ link[f].at = "on" => target[f].result # "none"
    /\ link[f].at = "dialing" /\ target[f].result # "none" => link[f].reread
    /\ link[f].late => up[f].at # "off"

LinksInv == \A f \in Flows : LinkInv(f)

TunnelInv ==
    /\ tunnel \in {"running", "closing", "stopped"}
    /\ DnsInv
    /\ FlowsInv
    /\ LinksInv

LEMMA EmptyItems ==
    << >> \in Seq(Items) /\ Len(<< >>) = 0
PROOF
<1> QED BY EmptySeq

LEMMA TunnelInvInit == Init => TunnelInv
PROOF
<1> SUFFICES ASSUME Init PROVE TunnelInv
    OBVIOUS
<1>1. DnsInv
    BY DnsInvInit DEF Init
<1>2. FlowShape
    BY DEF Init, FlowShape
<1>3. ASSUME NEW f \in Flows PROVE FlowInv(f)
    <2>1. /\ flow[f] = [at |-> "none"] /\ conn[f] = "none" /\ done[f] = FALSE
          /\ up[f] = [at |-> "off"] /\ down[f] = [at |-> "off"] /\ queue[f] = << >>
          /\ received[f] = << >>
        BY DEF Init, At, Off
    <2>2. target[f] = [result |-> "none", sent |-> 0]
        BY DEF Init
    <2>3. DOMAIN target[f] = {"result", "sent"} /\ target[f].result = "none" /\ target[f].sent = 0
        BY <2>2
    <2>4. flow[f].at = "none" /\ up[f].at = "off" /\ down[f].at = "off"
        BY <2>1
    <2>6. link[f] \in Links
        BY DEF Init, Links
    <2>5. FlowTypeOK(f)
        <3>1. up[f] = [at |-> up[f].at] /\ done[f] \in BOOLEAN
            BY <2>1
        <3>2. queue[f] \in Seq(Items) /\ received[f] \in Seq(Items)
            BY <2>1, EmptyItems
        <3> QED BY <2>1, <2>3, <2>4, <2>6, <3>1, <3>2 DEF FlowTypeOK
    <2> QED BY <2>1, <2>3, <2>4, <2>5 DEF FlowInv, Unconnected
<1>4. LinksInv
    BY DEF Init, LinksInv, LinkInv, At, Off
<1> QED BY <1>1, <1>2, <1>3, <1>4 DEF Init, TunnelInv, FlowsInv

(* A step of one flow leaves the others as they are.                       *)
Same(f) ==
    /\ flow'[f] = flow[f] /\ conn'[f] = conn[f] /\ done'[f] = done[f]
    /\ up'[f] = up[f] /\ down'[f] = down[f] /\ queue'[f] = queue[f]
    /\ target'[f] = target[f] /\ link'[f] = link[f] /\ received'[f] = received[f]

LEMMA SameFlow ==
    ASSUME NEW f \in Flows, FlowInv(f), Same(f)
    PROVE  FlowInv(f)'
PROOF
<1>1. FlowTypeOK(f)'
    BY DEF Same, FlowInv, FlowTypeOK, Items
<1>2. /\ (Unconnected(f) => Unconnected(f)') /\ (Answered(f) => Answered(f)')
      /\ Batch(f)' = Batch(f)
    BY DEF Same, Unconnected, Answered, Batch
<1>3. (Chained(f) => Chained(f)') /\ (Given(f) => Given(f)')
    BY <1>2 DEF Same, Chained, Given, Chain, Run, InARow
<1> QED BY <1>1, <1>2, <1>3 DEF FlowInv, Same

LEMMA OneFlow ==
    ASSUME FlowsInv, NEW f \in Flows, FlowShape', FlowInv(f)',
           \A g \in Flows \ {f} : Same(g)
    PROVE  FlowsInv'
PROOF
<1>1. ASSUME NEW g \in Flows PROVE FlowInv(g)'
    <2>1. CASE g = f
        BY <2>1
    <2>2. CASE g # f
        BY <2>2, SameFlow DEF FlowsInv
    <2> QED BY <2>1, <2>2
<1> QED BY <1>1 DEF FlowsInv

(* Steps that leave the streams alone.                                     *)
KeepsStreams(f) ==
    /\ queue'[f] = queue[f] /\ target'[f] = target[f] /\ received'[f] = received[f]
    /\ link'[f].reread \in {link[f].reread, TRUE}
    /\ down'[f] = down[f] \/ (down[f].at # "write" /\ down'[f].at # "write")

LEMMA StreamsKept ==
    ASSUME NEW f \in Flows, FlowInv(f), KeepsStreams(f)
    PROVE  /\ Batch(f)' = Batch(f)
           /\ Chained(f) => Chained(f)'
           /\ Given(f) => Given(f)'
           /\ Unconnected(f) => Unconnected(f)'
           /\ Answered(f) => Answered(f)'
           /\ queue'[f] \in Seq(Items) /\ received'[f] \in Seq(Items)
           /\ DOMAIN target'[f] = {"result", "sent"}
           /\ target'[f].result \in {"none", "OK", "ERROR"} /\ target'[f].sent \in Nat
PROOF
<1>1. Batch(f)' = Batch(f)
    BY DEF KeepsStreams, Batch
<1>2. (Chained(f) => Chained(f)') /\ (Given(f) => Given(f)')
    <2>1. PICK mixed \in BOOLEAN, mixed2 \in BOOLEAN :
              mixed = link[f].reread /\ mixed2 = link'[f].reread /\ (mixed => mixed2)
        BY DEF KeepsStreams, FlowInv, FlowTypeOK, Links
    <2>2. \A s, before : Run(s, before, mixed) => Run(s, before, mixed2)
        BY <2>1, RunWidens
    <2>3. /\ queue'[f] = queue[f] /\ target'[f] = target[f] /\ received'[f] = received[f]
        BY DEF KeepsStreams
    <2>4. Chained(f) => Chained(f)'
        BY <1>1, <2>1, <2>2, <2>3 DEF Chained, Chain
    <2>5. Given(f) => Given(f)'
        BY <2>1, <2>2, <2>3 DEF Given, InARow
    <2> QED BY <2>4, <2>5
<1>3. (Unconnected(f) => Unconnected(f)') /\ (Answered(f) => Answered(f)')
    BY DEF KeepsStreams, Unconnected, Answered
<1>4. /\ queue'[f] \in Seq(Items) /\ received'[f] \in Seq(Items)
      /\ DOMAIN target'[f] = {"result", "sent"}
      /\ target'[f].result \in {"none", "OK", "ERROR"} /\ target'[f].sent \in Nat
    BY DEF KeepsStreams, FlowInv, FlowTypeOK
<1> QED BY <1>1, <1>2, <1>3, <1>4

(* What becomes of a flow's session: once a payload has been reread, its   *)
(* flow remembers it.                                                      *)
LinkMoves(f) ==
    /\ link'[f] \in Links
    /\ link'[f].reread \in {link[f].reread, TRUE}

LEMMA ForwardedMoves ==
    ASSUME NEW f \in Flows, FlowInv(f),
           \/ link'[f] = link[f] \/ link'[f] = Forwarded(f)
           \/ link'[f] = [link[f] EXCEPT !.late = TRUE]
           \/ link'[f] = [Forwarded(f) EXCEPT !.late = FALSE]
           \/ link'[f] = [link[f] EXCEPT !.at = "on"]
           \/ link'[f] = [link[f] EXCEPT !.at = "off"]
           \/ link'[f] = [link[f] EXCEPT !.at = "dialing"]
    PROVE  LinkMoves(f)
PROOF
<1>1. link[f] \in Links
    BY DEF FlowInv, FlowTypeOK
<1>2. Forwarded(f) \in Links /\ Forwarded(f).reread \in {link[f].reread, TRUE}
    BY <1>1 DEF Forwarded, Links
<1> QED BY <1>1, <1>2 DEF LinkMoves, Links

LEMMA FlowReturnsInv ==
    ASSUME FlowsInv, NEW f \in Flows, FlowReturns(f)
    PROVE  FlowsInv'
PROOF
<1>1. FlowShape' /\ \A g \in Flows \ {f} : Same(g)
    BY DEF FlowReturns, FlowsInv, FlowShape, Same, session
<1>2. /\ flow'[f].at = "returned" /\ conn'[f] = "closed" /\ done'[f] = done[f]
      /\ up'[f] = up[f] /\ down'[f] = down[f] /\ queue'[f] = queue[f]
      /\ target'[f] = target[f] /\ received'[f] = received[f]
      /\ link'[f] = link[f]
    BY DEF FlowReturns, FlowsInv, FlowShape, At, session
<1>3. FlowInv(f)
    BY DEF FlowsInv
<1>4. FlowTypeOK(f)'
    BY <1>2, <1>3 DEF FlowInv, FlowTypeOK, Items
<1>5. FlowInv(f)'
    <2>1. /\ (Chained(f) => Chained(f)') /\ (Given(f) => Given(f)')
          /\ (Unconnected(f) => Unconnected(f)') /\ (Answered(f) => Answered(f)')
        BY <1>2, <1>3, StreamsKept DEF KeepsStreams
    <2> QED BY <1>2, <1>3, <1>4, <2>1 DEF FlowInv
<1> QED BY <1>1, <1>5, OneFlow

LEMMA AcceptInv ==
    ASSUME FlowsInv, NEW f \in Flows, Accept(f)
    PROVE  FlowsInv'
PROOF
<1>1. FlowShape' /\ \A g \in Flows \ {f} : Same(g)
    BY DEF Accept, FlowsInv, FlowShape, Same, session
<1>2. /\ flow[f].at = "none" /\ flow'[f].at = "accepted" /\ conn'[f] = "open"
      /\ done'[f] = done[f] /\ up'[f] = up[f] /\ down'[f] = down[f]
      /\ queue'[f] = queue[f] /\ target'[f] = target[f] /\ received'[f] = received[f]
      /\ link'[f] = link[f]
    BY DEF Accept, FlowsInv, FlowShape, At, session
<1>3. FlowInv(f)
    BY DEF FlowsInv
<1>4. FlowTypeOK(f)'
    BY <1>2, <1>3 DEF FlowInv, FlowTypeOK, Items
<1>5. FlowInv(f)'
    BY <1>2, <1>3, <1>4, StreamsKept DEF FlowInv, KeepsStreams
<1> QED BY <1>1, <1>5, OneFlow

LEMMA ConnectsInv ==
    ASSUME FlowsInv, NEW f \in Flows, Spawn(f) \/ Connects(f)
    PROVE  FlowsInv'
PROOF
<1>1. FlowShape' /\ \A g \in Flows \ {f} : Same(g)
    BY DEF Spawn, Connects, FlowsInv, FlowShape, Same, session
<1>2. /\ flow[f].at \in {"accepted", "open"} /\ conn'[f] = conn[f]
      /\ done'[f] = done[f] /\ up'[f] = up[f] /\ down'[f] = down[f]
      /\ queue'[f] = queue[f] /\ target'[f] = target[f] /\ received'[f] = received[f]
    BY DEF Spawn, Connects, session
<1>3. \/ flow'[f].at = "open"
      \/ flow'[f].at = "wait" /\ DOMAIN flow'[f] = {"at", "polls"} /\ flow'[f].polls = 0
    BY DEF Spawn, Connects, FlowsInv, FlowShape, At, session
<1>4. FlowInv(f)
    BY DEF FlowsInv
<1>8. LinkMoves(f)
    <2>1. link'[f] = link[f] \/ link'[f] = [link[f] EXCEPT !.at = "dialing"]
        BY DEF Spawn, Connects, FlowsInv, FlowShape, session
    <2> QED BY <1>4, <2>1, ForwardedMoves
<1>5. FlowTypeOK(f)'
    BY <1>2, <1>3, <1>4, <1>8, TunnelAssumption DEF FlowInv, FlowTypeOK, LinkMoves, Items
<1>6. Unconnected(f) /\ (Unconnected(f) => Answered(f))
    BY <1>2, <1>4 DEF FlowInv, Unconnected, Answered
<1>7. FlowInv(f)'
    BY <1>2, <1>3, <1>4, <1>5, <1>6, <1>8, StreamsKept DEF FlowInv, KeepsStreams, LinkMoves
<1> QED BY <1>1, <1>7, OneFlow

LEMMA StartPumpsInv ==
    ASSUME FlowsInv, NEW f \in Flows, StartPumps(f)
    PROVE  FlowsInv'
PROOF
<1>1. FlowShape' /\ \A g \in Flows \ {f} : Same(g)
    BY DEF StartPumps, FlowsInv, FlowShape, Same, session
<1>2. /\ flow[f].at = "start" /\ flow'[f].at = "relay" /\ conn'[f] = conn[f]
      /\ done'[f] = done[f] /\ up'[f] = [at |-> "read"] /\ down'[f].at = "check"
      /\ queue'[f] = queue[f] /\ target'[f] = target[f] /\ received'[f] = received[f]
      /\ link'[f] = link[f]
    BY DEF StartPumps, FlowsInv, FlowShape, At, session
<1>3. FlowInv(f)
    BY DEF FlowsInv
<1>4. up'[f] = [at |-> up'[f].at] /\ up'[f].at = "read"
    BY <1>2
<1>5. FlowTypeOK(f)'
    BY <1>2, <1>3, <1>4 DEF FlowInv, FlowTypeOK, Items
<1>6. down[f].at = "off"
    BY <1>2, <1>3 DEF FlowInv
<1>7. FlowInv(f)'
    BY <1>2, <1>3, <1>4, <1>5, <1>6, StreamsKept DEF FlowInv, KeepsStreams
<1> QED BY <1>1, <1>7, OneFlow

LEMMA UpPumpInv ==
    ASSUME FlowsInv, NEW f \in Flows, UpPump(f)
    PROVE  FlowsInv'
PROOF
<1>1. FlowShape' /\ \A g \in Flows \ {f} : Same(g)
    BY DEF UpPump, UpReads, UpPushes, UpEnds, UpPushFails, FlowsInv, FlowShape, Same, session
<1>2. /\ flow'[f] = flow[f] /\ conn'[f] = conn[f] /\ down'[f] = down[f]
      /\ queue'[f] = queue[f] /\ target'[f] = target[f] /\ received'[f] = received[f]
    BY DEF UpPump, UpReads, UpPushes, UpEnds, UpPushFails, session
<1>3. FlowInv(f)
    BY DEF FlowsInv
<1>4. done'[f] \in BOOLEAN
    <2>1. done[f] \in BOOLEAN
        BY <1>3 DEF FlowInv, FlowTypeOK
    <2> QED BY <2>1 DEF UpPump, UpReads, UpPushes, UpEnds, UpPushFails, FlowsInv, FlowShape
<1>5. /\ up[f].at \in {"read", "push"}
      /\ up'[f] = [at |-> "push"] \/ up'[f] = [at |-> "read"] \/ up'[f] = [at |-> "ended"]
    BY DEF UpPump, UpReads, UpPushes, UpEnds, UpPushFails, FlowsInv, FlowShape, At, Ended
<1>6. up'[f] = [at |-> up'[f].at] /\ up'[f].at \in {"read", "push", "ended"}
    BY <1>5
<1>7. LinkMoves(f)
    <2>1. \/ link'[f] = link[f] \/ link'[f] = Forwarded(f)
          \/ link'[f] = [link[f] EXCEPT !.late = TRUE]
        BY DEF UpPump, UpReads, UpPushes, UpEnds, UpPushFails, FlowsInv, FlowShape, session
    <2> QED BY <1>3, <2>1, ForwardedMoves
<1>8. FlowTypeOK(f)'
    BY <1>2, <1>3, <1>4, <1>6, <1>7 DEF FlowInv, FlowTypeOK, LinkMoves, Items
<1>9. FlowInv(f)'
    <2>1. (Chained(f) => Chained(f)') /\ (Given(f) => Given(f)')
        BY <1>2, <1>3, <1>7, StreamsKept DEF KeepsStreams, LinkMoves
    <2> QED BY <1>2, <1>3, <1>5, <1>6, <1>8, <2>1 DEF FlowInv
<1> QED BY <1>1, <1>9, OneFlow

(* A poll takes the whole queue: what it holds after the OK is lost before *)
(* the first byte the app receives.                                        *)
LEMMA WaitPollInv ==
    ASSUME FlowsInv, NEW f \in Flows, WaitPoll(f)
    PROVE  FlowsInv'
PROOF
<1>1. FlowShape' /\ \A g \in Flows \ {f} : Same(g)
    BY DEF WaitPoll, FlowsInv, FlowShape, Same
<1>2. /\ flow[f].at = "wait" /\ flow[f].polls < MaxPolls /\ conn'[f] = conn[f]
      /\ done'[f] = done[f] /\ up'[f] = up[f] /\ down'[f] = down[f]
      /\ queue'[f] = << >> /\ target'[f] = target[f] /\ received'[f] = received[f]
      /\ link'[f] = link[f]
    BY DEF WaitPoll, FlowsInv, FlowShape
<1>3. FlowInv(f)
    BY DEF FlowsInv
<1>4. /\ DOMAIN flow[f] = {"at", "polls"} /\ flow[f].polls \in 0 .. MaxPolls /\ Answered(f)
      /\ up[f].at = "off" /\ down[f].at = "off" /\ received[f] = << >>
      /\ target[f].sent \in Nat /\ MaxPolls \in Nat /\ link[f].reread \in BOOLEAN
      /\ target[f].result # "none" => target[f].sent # 0
    BY <1>2, <1>3, TunnelAssumption DEF FlowInv, FlowTypeOK, Links
<1>5. FlowInv(f)'
    <2>1. CASE queue[f] # << >>
        <3>1. flow'[f].at = "start" /\ target[f].result = "OK"
            BY <1>2, <1>4, <2>1 DEF WaitPoll, FlowsInv, FlowShape, At, Answered
        <3>2. FlowTypeOK(f)'
            BY <1>2, <1>3, <3>1, EmptyItems DEF FlowInv, FlowTypeOK, Items
        <3>3. Chained(f)'
            BY <1>2, <1>4, <3>1, ChainBegins DEF Chained, Batch
        <3> QED BY <1>2, <1>4, <3>1, <3>2, <3>3 DEF FlowInv
    <2>2. CASE queue[f] = << >>
        <3>1. PICK polls \in Nat : polls = flow[f].polls
            BY <1>4
        <3>2. flow'[f] = [at |-> "wait", polls |-> polls + 1]
            BY <2>2, <3>1 DEF WaitPoll, FlowsInv, FlowShape
        <3>3. /\ flow'[f].at = "wait" /\ DOMAIN flow'[f] = {"at", "polls"}
              /\ flow'[f].polls \in 0 .. MaxPolls
            BY <1>2, <1>4, <3>1, <3>2
        <3>4. FlowTypeOK(f)'
            BY <1>2, <1>3, <3>3, EmptyItems DEF FlowInv, FlowTypeOK, Items
        <3>5. Answered(f)'
            BY <1>2, <1>4, <2>2 DEF Answered
        <3> QED BY <1>2, <1>4, <3>3, <3>4, <3>5 DEF FlowInv
    <2> QED BY <2>1, <2>2
<1> QED BY <1>1, <1>5, OneFlow

(* The pump tunnel -> app.                                                 *)
LEMMA DownTypes ==
    ASSUME NEW f \in Flows, FlowInv(f), flow'[f] = flow[f], conn'[f] = conn[f],
           up'[f] = up[f], target'[f] = target[f], link'[f] = link[f], done'[f] \in BOOLEAN,
           queue'[f] \in Seq(Items), received'[f] \in Seq(Items),
           down'[f].at \in {"check", "pull", "write", "ended"},
           down'[f].at = "write" =>
               DOMAIN down'[f] = {"at", "batch"} /\ down'[f].batch \in Seq(Items)
    PROVE  FlowTypeOK(f)'
PROOF
<1> QED BY DEF FlowInv, FlowTypeOK, Items

LEMMA DownRuns ==
    ASSUME NEW f \in Flows, FlowInv(f), down[f].at \in {"check", "pull", "write"},
           flow'[f] = flow[f], up'[f] = up[f], target'[f] = target[f], FlowTypeOK(f)',
           \/ down'[f].at \in {"check", "pull", "write"} /\ Chained(f)'
           \/ down'[f].at = "ended" /\ Given(f)'
    PROVE  FlowInv(f)'
PROOF
<1>1. up[f].at # "off" /\ flow[f].at \in {"relay", "returned"} /\ target[f].result = "OK"
    BY DEF FlowInv
<1> QED BY <1>1 DEF FlowInv

LEMMA DownEndsInv ==
    ASSUME FlowsInv, NEW f \in Flows, DownEnds(f) \/ DownChecks(f)
    PROVE  FlowsInv'
PROOF
<1>1. FlowShape' /\ \A g \in Flows \ {f} : Same(g)
    BY DEF DownEnds, DownChecks, FlowsInv, FlowShape, Same, session
<1>2. /\ flow'[f] = flow[f] /\ conn'[f] = conn[f] /\ up'[f] = up[f]
      /\ queue'[f] = queue[f] /\ target'[f] = target[f] /\ received'[f] = received[f]
      /\ link'[f] = link[f]
      /\ down[f].at \in {"check", "pull", "write"}
    BY DEF DownEnds, DownChecks, session
<1>3. FlowInv(f)
    BY DEF FlowsInv
<1>4. done'[f] \in BOOLEAN
    <2>1. done[f] \in BOOLEAN
        BY <1>3 DEF FlowInv, FlowTypeOK
    <2> QED BY <2>1 DEF DownEnds, DownChecks, FlowsInv, FlowShape
<1>5. down'[f].at = "ended" \/ (down[f].at = "check" /\ down'[f].at = "pull")
    BY DEF DownEnds, DownChecks, FlowsInv, FlowShape, At, Ended, session
<1>6. queue[f] \in Seq(Items) /\ received[f] \in Seq(Items) /\ target[f].sent \in Nat
    BY <1>3 DEF FlowInv, FlowTypeOK
<1>7. FlowTypeOK(f)'
    BY <1>2, <1>3, <1>4, <1>5, <1>6, DownTypes
<1>8. Chained(f)
    BY <1>2, <1>3 DEF FlowInv
<1>9. CASE down'[f].at = "ended"
    <2>1. Batch(f) \in Seq(Items)
        BY <1>3, EmptyItems DEF FlowInv, FlowTypeOK, Batch
    <2>2. link[f].reread \in BOOLEAN
        BY <1>3 DEF FlowInv, FlowTypeOK, Links
    <2>3. Given(f)'
        BY <1>2, <1>6, <1>8, <2>1, <2>2, ChainInARow DEF Chained, Given
    <2>4. FlowInv(f)'
        BY <1>2, <1>3, <1>7, <1>9, <2>3, DownRuns
    <2> QED BY <1>1, <2>4, OneFlow
<1>10. CASE down[f].at = "check" /\ down'[f].at = "pull"
    <2>1. Chained(f)'
        BY <1>2, <1>8, <1>10 DEF Chained, Batch
    <2>2. FlowInv(f)'
        BY <1>2, <1>3, <1>7, <1>10, <2>1, DownRuns
    <2> QED BY <1>1, <2>2, OneFlow
<1> QED BY <1>5, <1>9, <1>10

LEMMA DownLoopsInv ==
    ASSUME FlowsInv, NEW f \in Flows, DownPulls(f) \/ DownLoops(f)
    PROVE  FlowsInv'
PROOF
<1>1. FlowShape' /\ \A g \in Flows \ {f} : Same(g)
    BY DEF DownPulls, DownLoops, FlowsInv, FlowShape, Same, session
<1>2. /\ flow'[f] = flow[f] /\ conn'[f] = conn[f] /\ up'[f] = up[f] /\ done'[f] = done[f]
      /\ target'[f] = target[f] /\ received'[f] = received[f]
      /\ link'[f] = link[f]
      /\ down[f].at \in {"pull", "write"}
    BY DEF DownPulls, DownLoops, session
<1>3. FlowInv(f)
    BY DEF FlowsInv
<1>4. /\ queue[f] \in Seq(Items) /\ received[f] \in Seq(Items) /\ target[f].sent \in Nat
      /\ done[f] \in BOOLEAN /\ Chained(f) /\ link[f].reread \in BOOLEAN
    BY <1>2, <1>3 DEF FlowInv, FlowTypeOK, Links
<1>5. CASE DownPulls(f)
    <2>1. /\ down[f].at = "pull" /\ queue'[f] = << >>
          /\ down'[f] = [at |-> "write", batch |-> queue[f]]
        BY <1>5 DEF DownPulls, FlowsInv, FlowShape
    <2>2. down'[f].at = "write" /\ DOMAIN down'[f] = {"at", "batch"} /\ down'[f].batch = queue[f]
        BY <2>1
    <2>3. Chain(target[f].sent, queue[f], << >>, received[f], link[f].reread)
        BY <1>4, <2>1 DEF Chained, Batch
    <2>4. Chain(target[f].sent, << >>, queue[f], received[f], link[f].reread)
        BY <1>4, <2>3, ChainPulls
    <2>5. Chained(f)'
        BY <1>2, <2>1, <2>2, <2>4 DEF Chained, Batch
    <2>6. FlowTypeOK(f)'
        BY <1>2, <1>3, <1>4, <2>1, <2>2, EmptyItems, DownTypes
    <2>7. FlowInv(f)'
        BY <1>2, <1>3, <2>2, <2>5, <2>6, DownRuns
    <2> QED BY <1>1, <2>7, OneFlow
<1>6. CASE DownLoops(f)
    <2>1. down[f].at = "write" /\ Batch(f) = << >> /\ queue'[f] = queue[f] /\ down'[f].at = "check"
        BY <1>6 DEF DownLoops, FlowsInv, FlowShape, At, Batch, session
    <2>2. Chained(f)'
        BY <1>2, <1>4, <2>1 DEF Chained, Batch
    <2>3. FlowTypeOK(f)'
        BY <1>2, <1>3, <1>4, <2>1, DownTypes
    <2>4. FlowInv(f)'
        BY <1>2, <1>3, <2>1, <2>2, <2>3, DownRuns
    <2> QED BY <1>1, <2>4, OneFlow
<1> QED BY <1>5, <1>6

LEMMA DownWritesInv ==
    ASSUME FlowsInv, NEW f \in Flows, DownWrites(f)
    PROVE  FlowsInv'
PROOF
<1>1. FlowShape' /\ \A g \in Flows \ {f} : Same(g)
    BY DEF DownWrites, FlowsInv, FlowShape, Same, session
<1>2. /\ flow'[f] = flow[f] /\ conn'[f] = conn[f] /\ up'[f] = up[f] /\ done'[f] = done[f]
      /\ target'[f] = target[f] /\ queue'[f] = queue[f] /\ link'[f] = link[f]
      /\ down[f].at = "write"
    BY DEF DownWrites, session
<1>3. FlowInv(f)
    BY DEF FlowsInv
<1>4. /\ queue[f] \in Seq(Items) /\ received[f] \in Seq(Items) /\ target[f].sent \in Nat
      /\ done[f] \in BOOLEAN /\ Chained(f) /\ link[f].reread \in BOOLEAN
      /\ DOMAIN down[f] = {"at", "batch"} /\ down[f].batch \in Seq(Items)
    BY <1>2, <1>3 DEF FlowInv, FlowTypeOK, Links
<1>5. PICK batch \in Seq(Items) : batch = down[f].batch
    BY <1>4
<1>6. batch # << >>
    BY <1>5 DEF DownWrites
<1>7. Head(batch) \in Items /\ Tail(batch) \in Seq(Items)
    BY <1>6, HeadTailProperties
<1>8. received'[f] = Append(received[f], Head(batch))
    BY <1>5 DEF DownWrites, FlowsInv, FlowShape
<1>9. down'[f] = [down[f] EXCEPT !.batch = Tail(batch)]
    BY <1>5 DEF DownWrites, FlowsInv, FlowShape
<1>10. down'[f].at = "write" /\ DOMAIN down'[f] = {"at", "batch"} /\ down'[f].batch = Tail(batch)
    BY <1>2, <1>4, <1>9
<1>11. Chain(target[f].sent, queue[f], batch, received[f], link[f].reread)
    BY <1>2, <1>4, <1>5 DEF Chained, Batch
<1>12. Chain(target[f].sent, queue[f], Tail(batch), Append(received[f], Head(batch)),
             link[f].reread)
    BY <1>4, <1>6, <1>11, ChainWrites
<1>13. Chained(f)'
    BY <1>2, <1>8, <1>10, <1>12 DEF Chained, Batch
<1>14. received'[f] \in Seq(Items)
    BY <1>4, <1>7, <1>8, AppendProperties
<1>15. FlowTypeOK(f)'
    BY <1>2, <1>3, <1>4, <1>7, <1>10, <1>14, DownTypes
<1>16. FlowInv(f)'
    BY <1>2, <1>3, <1>10, <1>13, <1>15, DownRuns
<1> QED BY <1>1, <1>16, OneFlow

(* Connections are closed at either end, one or all.                       *)
LEMMA AppClosesInv ==
    ASSUME FlowsInv, NEW f \in Flows, AppCloses(f)
    PROVE  FlowsInv'
PROOF
<1>1. FlowShape' /\ \A g \in Flows \ {f} : Same(g)
    BY DEF AppCloses, FlowsInv, FlowShape, Same, session
<1>2. /\ conn'[f] = "appClosed" /\ flow'[f] = flow[f]
      /\ done'[f] = done[f] /\ up'[f] = up[f] /\ down'[f] = down[f]
      /\ queue'[f] = queue[f] /\ target'[f] = target[f] /\ received'[f] = received[f]
      /\ link'[f] = link[f]
    BY DEF AppCloses, FlowsInv, FlowShape, session
<1>3. FlowInv(f)
    BY DEF FlowsInv
<1>4. FlowTypeOK(f)'
    BY <1>2, <1>3 DEF FlowInv, FlowTypeOK, Items
<1>5. FlowInv(f)'
    BY <1>2, <1>3, <1>4, StreamsKept DEF FlowInv, KeepsStreams
<1> QED BY <1>1, <1>5, OneFlow

LEMMA StopInv == FlowsInv /\ Stop => FlowsInv'
PROOF
<1> SUFFICES ASSUME FlowsInv, Stop PROVE FlowsInv'
    OBVIOUS
<1>1. FlowShape'
    BY DEF Stop, FlowsInv, FlowShape, session
<1>2. ASSUME NEW f \in Flows PROVE FlowInv(f)'
    <2>1. /\ conn'[f] \in {"none", "closed"} /\ flow'[f] = flow[f]
          /\ done'[f] = done[f] /\ up'[f] = up[f] /\ down'[f] = down[f]
          /\ queue'[f] = queue[f] /\ target'[f] = target[f] /\ received'[f] = received[f]
      /\ link'[f] = link[f]
        BY DEF Stop, FlowsInv, FlowShape, session
    <2>2. FlowInv(f)
        BY DEF FlowsInv
    <2>3. FlowTypeOK(f)'
        BY <2>1, <2>2 DEF FlowInv, FlowTypeOK, Items
    <2> QED BY <2>1, <2>2, <2>3, StreamsKept DEF FlowInv, KeepsStreams
<1> QED BY <1>1, <1>2 DEF FlowsInv

(* What the session queues: the answer to the flow's CONNECT, first, and   *)
(* what comes after it.                                                    *)
LEMMA QueuesInv ==
    ASSUME FlowsInv, LinksInv, NEW f \in Flows, NEW what \in {"OK", "ERROR", "bytes"},
           Queues(f, what), InUse(f),
           what = "bytes" => link[f].at = "on", what # "bytes" => link[f].at = "dialing",
           LinkMoves(f), link'[f].reread = link[f].reread,
           DOMAIN link' = Flows, \A g \in Flows \ {f} : link'[g] = link[g],
           UNCHANGED <<flow, conn, done, up, down, received>>
    PROVE  FlowsInv'
PROOF
<1>1. FlowInv(f) /\ LinkInv(f)
    BY DEF FlowsInv, LinksInv
<1>2. /\ flow[f].at \in {"wait", "start", "relay"}
      /\ DOMAIN target[f] = {"result", "sent"}
      /\ queue[f] \in Seq(Items) /\ received[f] \in Seq(Items)
      /\ link[f].reread \in BOOLEAN
    BY <1>1 DEF InUse, FlowInv, FlowTypeOK, Links
<1>3. PICK sent \in Nat : sent = target[f].sent
    BY <1>1 DEF FlowInv, FlowTypeOK
<1>4. PICK item : item = [n |-> sent + 1, what |-> what]
    OBVIOUS
<1>5. item \in Items /\ item.n = sent + 1 /\ item.what = what
    BY <1>4 DEF Items
<1>6. target'[f] = [result |-> IF target[f].result = "none" THEN what ELSE target[f].result,
                    sent |-> sent + 1]
    BY <1>2, <1>3 DEF Queues, FlowsInv, FlowShape
<1>7. /\ DOMAIN target'[f] = {"result", "sent"} /\ target'[f].sent = sent + 1
      /\ target'[f].result = IF target[f].result = "none" THEN what ELSE target[f].result
    BY <1>6
<1>8. queue'[f] = Append(queue[f], item)
    BY <1>3, <1>4 DEF Queues, FlowsInv, FlowShape
<1>9. FlowShape' /\ \A g \in Flows \ {f} : Same(g)
    BY DEF Queues, FlowsInv, FlowShape, Same
<1>10. /\ flow'[f] = flow[f] /\ conn'[f] = conn[f] /\ done'[f] = done[f]
       /\ up'[f] = up[f] /\ down'[f] = down[f] /\ received'[f] = received[f]
    OBVIOUS
<1>11. queue'[f] \in Seq(Items) /\ queue'[f] # << >>
    BY <1>2, <1>5, <1>8, AppendProperties
<1>12. target[f].result # "none" => what = "bytes" \/ link[f].reread
    BY <1>1 DEF LinkInv
<1>13. target[f].result = "none" => what \in {"OK", "ERROR"}
    BY <1>1 DEF LinkInv
<1>14. FlowTypeOK(f)'
    <2>1. sent + 1 \in Nat \ {0}
        OBVIOUS
    <2>2. target'[f].result \in {"OK", "ERROR"}
        BY <1>1, <1>7, <1>13 DEF FlowInv, FlowTypeOK
    <2> QED BY <1>1, <1>7, <1>10, <1>11, <2>1, <2>2 DEF FlowInv, FlowTypeOK, LinkMoves, Items
<1>15. Answered(f) => Answered(f)'
    <2>1. CASE target[f].result # "none"
        <3>1. queue[f] # << >> => Head(queue'[f]) = Head(queue[f])
            BY <1>2, <1>5, <1>8, HeadTailAppend
        <3> QED BY <1>7, <1>11, <2>1, <3>1 DEF Answered
    <2>2. CASE target[f].result = "none" /\ queue[f] = << >>
        <3>1. Head(queue'[f]) = item
            BY <1>2, <1>5, <1>8, <2>2, HeadTailAppend
        <3> QED BY <1>5, <1>7, <1>11, <1>13, <2>2, <3>1 DEF Answered
    <2> QED BY <2>1, <2>2 DEF Answered
<1>16. Chained(f) /\ target[f].result # "none" => Chained(f)'
    <2>1. Batch(f) \in Seq(Items) /\ Batch(f)' = Batch(f)
        BY <1>1, <1>10, EmptyItems DEF FlowInv, FlowTypeOK, Batch
    <2>2. Chained(f) /\ target[f].result # "none" =>
              Chain(sent + 1, Append(queue[f], item), Batch(f), received[f], link[f].reread)
        BY <1>2, <1>3, <1>5, <1>12, <2>1, ChainSends DEF Chained
    <2> QED BY <1>7, <1>8, <1>10, <2>1, <2>2 DEF Chained
<1>17. FlowInv(f)'
    <2>1. Given(f) => Given(f)'
        BY <1>10 DEF Given
    <2>2. flow[f].at \in {"start", "relay"} \/ up[f].at # "off" =>
              target[f].result # "none" /\ target'[f].result = target[f].result
        BY <1>1, <1>7 DEF FlowInv
    <2>3. down[f].at \in {"check", "pull", "write"} => up[f].at # "off"
        BY <1>1 DEF FlowInv
    <2> QED BY <1>1, <1>2, <1>10, <1>14, <1>15, <1>16, <2>1, <2>2, <2>3 DEF FlowInv
<1> QED BY <1>9, <1>17, OneFlow

(* What the server does with a flow's session and does not queue.          *)
LEMMA LinkOnlyInv ==
    ASSUME FlowsInv, NEW f \in Flows, LatePush(f) \/ TargetEnds(f)
    PROVE  FlowsInv'
PROOF
<1>1. FlowInv(f)
    BY DEF FlowsInv
<1>2. FlowShape' /\ \A g \in Flows \ {f} : Same(g)
    BY DEF LatePush, TargetEnds, FlowsInv, FlowShape, Same
<1>3. /\ flow'[f] = flow[f] /\ conn'[f] = conn[f] /\ done'[f] = done[f]
      /\ up'[f] = up[f] /\ down'[f] = down[f] /\ queue'[f] = queue[f]
      /\ target'[f] = target[f] /\ received'[f] = received[f]
    BY DEF LatePush, TargetEnds
<1>4. LinkMoves(f)
    <2>1. \/ link'[f] = [Forwarded(f) EXCEPT !.late = FALSE]
          \/ link'[f] = [link[f] EXCEPT !.at = "off"]
        BY DEF LatePush, TargetEnds, FlowsInv, FlowShape
    <2> QED BY <1>1, <2>1, ForwardedMoves
<1>5. FlowTypeOK(f)'
    BY <1>1, <1>3, <1>4 DEF FlowInv, FlowTypeOK, LinkMoves, Items
<1>6. FlowInv(f)'
    BY <1>1, <1>3, <1>4, <1>5, StreamsKept DEF FlowInv, KeepsStreams, LinkMoves
<1> QED BY <1>2, <1>6, OneFlow

LEMMA ServerInv ==
    ASSUME FlowsInv, LinksInv, NEW f \in Flows, Server(f)
    PROVE  FlowsInv'
PROOF
<1>1. FlowInv(f)
    BY DEF FlowsInv
<1>2. CASE TargetAnswers(f)
    <2>1. PICK what \in {"OK", "ERROR"}, place \in {"on", "off"} :
              Queues(f, what) /\ link' = [link EXCEPT ![f].at = place]
        BY <1>2 DEF TargetAnswers
    <2>2. link'[f] = [link[f] EXCEPT !.at = place] /\ DOMAIN link' = Flows
        BY <2>1 DEF FlowsInv, FlowShape
    <2>3. LinkMoves(f) /\ link'[f].reread = link[f].reread
        BY <1>1, <2>2, ForwardedMoves DEF FlowInv, FlowTypeOK
    <2>4. \A g \in Flows \ {f} : link'[g] = link[g]
        BY <2>1
    <2> QED BY <1>2, <2>1, <2>2, <2>3, <2>4, QueuesInv DEF TargetAnswers
<1>3. CASE TargetSends(f)
    <2>1. LinkMoves(f)
        BY <1>1, <1>3, ForwardedMoves DEF TargetSends
    <2> QED BY <1>3, <2>1, QueuesInv DEF TargetSends, FlowsInv, FlowShape
<1> QED BY <1>2, <1>3, LinkOnlyInv DEF Server

LEMMA FlowsInvStep ==
    ASSUME FlowsInv, LinksInv, NEW f \in Flows,
           \/ Accept(f) \/ Goroutine(f) \/ ConnectFails(f) \/ UpPump(f) \/ DownPump(f)
           \/ AppCloses(f) \/ Server(f)
    PROVE  FlowsInv'
PROOF
<1>1. CASE Accept(f)
    BY <1>1, AcceptInv
<1>2. CASE Spawn(f) \/ Connects(f)
    BY <1>2, ConnectsInv
<1>3. CASE WaitPoll(f)
    BY <1>3, WaitPollInv
<1>4. CASE WaitEnds(f) \/ RelayEnds(f) \/ ConnectFails(f)
    BY <1>4, FlowReturnsInv DEF WaitEnds, RelayEnds, ConnectFails
<1>5. CASE StartPumps(f)
    BY <1>5, StartPumpsInv
<1>6. CASE UpPump(f)
    BY <1>6, UpPumpInv
<1>7. CASE DownChecks(f) \/ DownEnds(f)
    BY <1>7, DownEndsInv
<1>8. CASE DownPulls(f) \/ DownLoops(f)
    BY <1>8, DownLoopsInv
<1>9. CASE DownWrites(f)
    BY <1>9, DownWritesInv
<1>10. CASE AppCloses(f)
    BY <1>10, AppClosesInv
<1>11. CASE Server(f)
    BY <1>11, ServerInv
<1> QED
    BY <1>1, <1>2, <1>3, <1>4, <1>5, <1>6, <1>7, <1>8, <1>9, <1>10, <1>11
    DEF Goroutine, DownPump

(* The session's own invariant.                                            *)
LEMMA LinkKept ==
    ASSUME NEW f \in Flows, LinkInv(f), link'[f] = link[f], target'[f] = target[f],
           up[f].at # "off" => up'[f].at # "off",
           flow'[f].at \in {"none", "accepted", "open"} =>
               flow[f].at \in {"none", "accepted", "open"}
    PROVE  LinkInv(f)'
PROOF
<1> QED BY DEF LinkInv

LEMMA OneLink ==
    ASSUME LinksInv, NEW f \in Flows, \A g \in Flows \ {f} : Same(g), LinkInv(f)'
    PROVE  LinksInv'
PROOF
<1>1. ASSUME NEW g \in Flows PROVE LinkInv(g)'
    <2>1. CASE g # f
        BY <2>1, LinkKept DEF LinksInv, Same
    <2> QED BY <2>1
<1> QED BY <1>1 DEF LinksInv

LEMMA LinksKeptInv ==
    ASSUME FlowsInv, LinksInv, NEW f \in Flows,
           \/ Accept(f) \/ Spawn(f) \/ WaitPoll(f) \/ WaitEnds(f) \/ StartPumps(f)
           \/ RelayEnds(f) \/ ConnectFails(f) \/ DownPump(f) \/ AppCloses(f)
           \/ UpReads(f) \/ UpEnds(f)
    PROVE  LinksInv'
PROOF
<1>1. FlowShape /\ LinkInv(f) /\ link' = link /\ target' = target
    BY DEF Accept, Spawn, WaitPoll, WaitEnds, StartPumps, RelayEnds, ConnectFails, FlowReturns,
           DownPump, DownChecks, DownPulls, DownWrites, DownLoops, DownEnds, AppCloses,
           UpReads, UpEnds, FlowsInv, LinksInv, session
<1>2. ASSUME NEW g \in Flows
      PROVE  /\ up[g].at # "off" => up'[g].at # "off"
             /\ flow'[g].at \in {"none", "accepted", "open"} =>
                    flow[g].at \in {"none", "accepted", "open"}
    <2>1. CASE Accept(f) \/ Spawn(f) \/ WaitPoll(f) \/ StartPumps(f)
        BY <1>1, <2>1 DEF Accept, Spawn, WaitPoll, StartPumps, FlowShape, At
    <2>2. CASE WaitEnds(f) \/ RelayEnds(f) \/ ConnectFails(f)
        BY <1>1, <2>2 DEF WaitEnds, RelayEnds, ConnectFails, FlowReturns, FlowShape, At
    <2>3. CASE DownPump(f) \/ AppCloses(f)
        BY <2>3 DEF DownPump, DownChecks, DownPulls, DownWrites, DownLoops, DownEnds, AppCloses
    <2>4. CASE UpReads(f) \/ UpEnds(f)
        BY <1>1, <2>4 DEF UpReads, UpEnds, FlowShape, At, Ended
    <2> QED BY <2>1, <2>2, <2>3, <2>4
<1>3. ASSUME NEW g \in Flows PROVE LinkInv(g)'
    BY <1>1, <1>2, LinkKept DEF LinksInv
<1> QED BY <1>3 DEF LinksInv

(* A payload is forwarded only once the flow's own CONNECT is answered.    *)
LEMMA ForwardedInv ==
    ASSUME FlowsInv, LinksInv, NEW f \in Flows, NEW late \in BOOLEAN,
           link'[f] = [Forwarded(f) EXCEPT !.late = late],
           flow'[f] = flow[f], target'[f] = target[f],
           up[f].at # "off", up'[f].at # "off"
    PROVE  LinkInv(f)'
PROOF
<1>1. /\ DOMAIN link[f] = {"at", "reread", "late"} /\ link[f].at \in {"off", "dialing", "on"}
      /\ flow[f].at \notin {"none", "accepted", "open"} /\ target[f].result = "OK"
    BY DEF FlowsInv, FlowInv, FlowTypeOK, Links
<1>2. CASE link[f].at = "off"
    <2>1. link'[f].at = "dialing" /\ link'[f].reread = TRUE
        BY <1>1, <1>2 DEF Forwarded
    <2> QED BY <1>1, <2>1 DEF LinkInv
<1>3. CASE link[f].at # "off"
    <2>1. link'[f].at = link[f].at /\ link'[f].reread = link[f].reread
        BY <1>1, <1>3 DEF Forwarded
    <2> QED BY <1>1, <2>1 DEF LinkInv, LinksInv
<1> QED BY <1>2, <1>3

LEMMA LinksInvStep ==
    ASSUME FlowsInv, LinksInv, NEW f \in Flows,
           \/ Accept(f) \/ Goroutine(f) \/ ConnectFails(f) \/ UpPump(f) \/ DownPump(f)
           \/ AppCloses(f) \/ Server(f)
    PROVE  LinksInv'
PROOF
<1>1. /\ FlowShape /\ LinkInv(f) /\ FlowInv(f)
      /\ DOMAIN link[f] = {"at", "reread", "late"}
    BY DEF FlowsInv, LinksInv, FlowInv, FlowTypeOK, Links
<1>2. CASE Connects(f)
    <2>1. \A g \in Flows \ {f} : Same(g)
        BY <1>1, <1>2 DEF Connects, FlowShape, Same
    <2>2. /\ flow'[f].at = "wait" /\ link'[f].at = "dialing" /\ link'[f].late = link[f].late
          /\ target'[f].result = "none" /\ up' = up
        BY <1>1, <1>2 DEF Connects, FlowShape, FlowInv, Unconnected
    <2>3. LinkInv(f)'
        BY <1>1, <2>2 DEF LinkInv
    <2> QED BY <2>1, <2>3, OneLink
<1>3. CASE UpPushes(f) \/ LatePush(f)
    <2>1. \A g \in Flows \ {f} : Same(g)
        BY <1>1, <1>3 DEF UpPushes, LatePush, FlowShape, Same
    <2>2. /\ flow' = flow /\ target' = target /\ up[f].at # "off" /\ up'[f].at # "off"
        BY <1>1, <1>3 DEF UpPushes, LatePush, FlowShape, LinkInv, At
    <2>3. PICK late \in BOOLEAN : link'[f] = [Forwarded(f) EXCEPT !.late = late]
        <3>1. CASE UpPushes(f)
            <4>1. link'[f] = Forwarded(f)
                BY <1>1, <3>1 DEF UpPushes, FlowShape
            <4>2. PICK late \in BOOLEAN : late = link[f].late
                BY <1>1 DEF FlowInv, FlowTypeOK, Links
            <4>3. Forwarded(f) = [Forwarded(f) EXCEPT !.late = late]
                <5>1. PICK l : l = link[f]
                    OBVIOUS
                <5>2. l = [x \in {"at", "reread", "late"} |-> l[x]] /\ l.late = late
                    BY <1>1, <4>2, <5>1 DEF FlowInv, FlowTypeOK, Links
                <5>3. \/ Forwarded(f) = l
                      \/ Forwarded(f) = [l EXCEPT !.at = "dialing", !.reread = TRUE]
                    BY <5>1 DEF Forwarded
                <5> QED BY <5>2, <5>3
            <4> QED BY <4>1, <4>3
        <3>2. CASE LatePush(f)
            BY <1>1, <3>2 DEF LatePush, FlowShape
        <3> QED BY <1>3, <3>1, <3>2
    <2>4. LinkInv(f)'
        BY <2>2, <2>3, ForwardedInv
    <2> QED BY <2>1, <2>4, OneLink
<1>4. CASE UpPushFails(f)
    <2>1. \A g \in Flows \ {f} : Same(g)
        BY <1>1, <1>4 DEF UpPushFails, FlowShape, Same
    <2>2. /\ link'[f].at = link[f].at /\ link'[f].reread = link[f].reread
          /\ flow' = flow /\ target' = target /\ up'[f].at = "ended"
        BY <1>1, <1>4 DEF UpPushFails, FlowShape, Ended
    <2>3. LinkInv(f)'
        BY <1>1, <2>2 DEF LinkInv
    <2> QED BY <2>1, <2>3, OneLink
<1>5. CASE TargetAnswers(f)
    <2>1. PICK what \in {"OK", "ERROR"}, place \in {"on", "off"} :
              Queues(f, what) /\ link' = [link EXCEPT ![f].at = place]
        BY <1>5 DEF TargetAnswers
    <2>2. \A g \in Flows \ {f} : Same(g)
        BY <1>1, <1>5, <2>1 DEF TargetAnswers, Queues, FlowShape, Same
    <2>3. link'[f].at = place /\ link'[f].late = link[f].late
        BY <1>1, <2>1 DEF FlowShape
    <2>4. target'[f].result # "none"
        <3>1. DOMAIN target[f] = {"result", "sent"}
            BY <1>1 DEF FlowInv, FlowTypeOK
        <3>2. target'[f].result = IF target[f].result = "none" THEN what ELSE target[f].result
            BY <1>1, <2>1, <3>1 DEF Queues, FlowShape
        <3> QED BY <3>2
    <2>5. flow' = flow /\ up' = up /\ flow[f].at \notin {"none", "accepted", "open"}
        BY <1>5 DEF TargetAnswers, InUse
    <2>6. LinkInv(f)'
        BY <1>1, <2>3, <2>4, <2>5 DEF LinkInv
    <2> QED BY <2>2, <2>6, OneLink
<1>6. CASE TargetSends(f)
    <2>1. \A g \in Flows \ {f} : Same(g)
        BY <1>1, <1>6 DEF TargetSends, Queues, FlowShape, Same
    <2>2. target[f].result # "none" /\ target'[f].result = target[f].result
        <3>1. DOMAIN target[f] = {"result", "sent"} /\ target[f].result # "none"
            BY <1>1, <1>6 DEF TargetSends, FlowInv, FlowTypeOK, LinkInv
        <3> QED BY <1>1, <1>6, <3>1 DEF TargetSends, Queues, FlowShape
    <2>3. LinkInv(f)'
        BY <1>1, <1>6, <2>2 DEF TargetSends, LinkInv
    <2> QED BY <2>1, <2>3, OneLink
<1>7. CASE TargetEnds(f)
    <2>1. \A g \in Flows \ {f} : Same(g)
        BY <1>1, <1>7 DEF TargetEnds, FlowShape, Same
    <2>2. /\ link'[f].at = "off" /\ link'[f].late = link[f].late
          /\ flow' = flow /\ target' = target /\ up' = up
        BY <1>1, <1>7 DEF TargetEnds, FlowShape
    <2>3. LinkInv(f)'
        BY <1>1, <2>2 DEF LinkInv
    <2> QED BY <2>1, <2>3, OneLink
<1> QED BY <1>2, <1>3, <1>4, <1>5, <1>6, <1>7, LinksKeptInv DEF Goroutine, UpPump, Server

LEMMA LinksInvUntouched == LinksInv /\ UNCHANGED <<flow, up, target, link>> => LinksInv'
PROOF
<1> QED BY DEF LinksInv, LinkInv

LEMMA FlowsInvUntouched == FlowsInv /\ UNCHANGED flows => FlowsInv'
PROOF
<1> SUFFICES ASSUME FlowsInv, UNCHANGED flows PROVE FlowsInv'
    OBVIOUS
<1>1. FlowShape' /\ \A f \in Flows : Same(f)
    BY DEF flows, session, FlowsInv, FlowShape, Same
<1> QED BY <1>1, SameFlow DEF FlowsInv

(* A flow's step leaves the relay alone, and the other way round.          *)
LEMMA FlowStepsLeaveRelay ==
    ASSUME NEW f \in Flows,
           \/ Accept(f) \/ Goroutine(f) \/ ConnectFails(f) \/ UpPump(f) \/ DownPump(f)
           \/ AppCloses(f) \/ Server(f)
    PROVE  UNCHANGED dns /\ tunnel' = tunnel
PROOF
<1>1. CASE Accept(f)
    BY <1>1 DEF Accept
<1>2. CASE Goroutine(f) \/ ConnectFails(f)
    BY <1>2 DEF Goroutine, Spawn, Connects, WaitPoll, WaitEnds, StartPumps, RelayEnds,
                ConnectFails, FlowReturns
<1>3. CASE UpPump(f)
    BY <1>3 DEF UpPump, UpReads, UpPushes, UpEnds, UpPushFails
<1>4. CASE DownPump(f)
    BY <1>4 DEF DownPump, DownChecks, DownPulls, DownWrites, DownLoops, DownEnds
<1>5. CASE AppCloses(f)
    BY <1>5 DEF AppCloses
<1>6. CASE Server(f)
    BY <1>6 DEF Server, LatePush, TargetAnswers, TargetSends, TargetEnds
<1> QED BY <1>1, <1>2, <1>3, <1>4, <1>5, <1>6

LEMMA TunnelInvStep == TunnelInv /\ [Next]_vars => TunnelInv'
PROOF
<1> SUFFICES ASSUME TunnelInv, [Next]_vars PROVE TunnelInv'
    OBVIOUS
<1>1. ASSUME NEW f \in Flows,
             \/ Accept(f) \/ Goroutine(f) \/ ConnectFails(f) \/ UpPump(f) \/ DownPump(f)
             \/ AppCloses(f) \/ Server(f)
      PROVE  TunnelInv'
    <2>1. UNCHANGED dns /\ tunnel' = tunnel
        BY <1>1, FlowStepsLeaveRelay
    <2>2. FlowsInv'
        BY <1>1, FlowsInvStep DEF TunnelInv
    <2>3. LinksInv'
        BY <1>1, LinksInvStep DEF TunnelInv
    <2> QED BY <2>1, <2>2, <2>3, DnsInvUntouched DEF TunnelInv
<1>2. CASE DnsStep /\ UNCHANGED <<tunnel, flows>>
    BY <1>2, DnsInvStep, FlowsInvUntouched, LinksInvUntouched DEF TunnelInv, flows, session
<1>3. CASE Stop
    BY <1>3, StopInv, DnsInvUntouched, LinksInvUntouched DEF TunnelInv, Stop, session
<1>4. CASE StopReturns
    BY <1>4, FlowsInvUntouched, DnsInvUntouched, LinksInvUntouched
    DEF TunnelInv, StopReturns, flows, session
<1>5. CASE UNCHANGED vars
    BY <1>5, FlowsInvUntouched, DnsInvUntouched, LinksInvUntouched
    DEF TunnelInv, vars, flows, session
<1> QED BY <1>1, <1>2, <1>3, <1>4, <1>5 DEF Next

-----------------------------------------------------------------------------
(* The invariant holds in every run of the tunnel                          *)
(* (android/vpntun/tunnel.go).                                             *)
THEOREM TunnelInvariant == Spec => []TunnelInv
PROOF
<1> QED BY TunnelInvInit, TunnelInvStep, PTL DEF Spec

LEMMA InvTypes == TunnelInv => TypeOK
PROOF
<1> SUFFICES ASSUME TunnelInv PROVE TypeOK
    OBVIOUS
<1>1. DnsTypeOK /\ tunnel \in {"running", "closing", "stopped"}
    BY DEF TunnelInv, DnsInv
<1>2. ASSUME NEW f \in Flows
      PROVE  /\ flow[f].at \in {"none", "accepted", "open", "wait", "start", "relay", "returned"}
             /\ conn[f] \in {"none", "open", "appClosed", "closed"}
             /\ done[f] \in BOOLEAN
             /\ up[f].at \in {"off", "read", "push", "ended"}
             /\ down[f].at \in {"off", "check", "pull", "write", "ended"}
             /\ link[f].at \in {"off", "dialing", "on"}
             /\ up[f] # Off => flow[f].at \in {"relay", "returned"}
    BY DEF TunnelInv, FlowsInv, FlowInv, FlowTypeOK, Links, Off
<1> QED BY <1>1, <1>2 DEF TypeOK

(* The flows and the relay are well formed, and a flow has pumps only once *)
(* its goroutine has started them (tunnel.go:94-101, :289-353).            *)
THEOREM TunnelTypeCorrect == Spec => []TypeOK
PROOF
<1> QED BY TunnelInvariant, InvTypes, PTL

LEMMA InvContract == TunnelInv => ContractKept
PROOF
<1> SUFFICES ASSUME TunnelInv, NEW f \in Flows, up[f] # Off
             PROVE  target[f].result = "OK"
    BY DEF ContractKept
<1>1. FlowInv(f) /\ up[f] = [at |-> up[f].at]
    BY DEF TunnelInv, FlowsInv, FlowInv, FlowTypeOK
<1>2. up[f].at # "off"
    BY <1>1 DEF Off
<1> QED BY <1>1, <1>2 DEF FlowInv

(* No flow pushes a payload of its app before its own CONNECT has been     *)
(* answered, nor after an ERROR to that one (tunnel.go:284-310,            *)
(* server.go:241-249).                                                     *)
THEOREM ContractAlwaysKept == Spec => []ContractKept
PROOF
<1> QED BY TunnelInvariant, InvContract, PTL

LEMMA InvInOrder == TunnelInv => BytesInOrder
PROOF
<1> SUFFICES ASSUME TunnelInv, NEW f \in Flows, NEW i \in DOMAIN received[f]
             PROVE  /\ received[f][i].n > 1
                    /\ received[f][i].n = received[f][1].n + i - 1
                    /\ received[f][i].what = "bytes" \/ link[f].reread
    BY DEF BytesInOrder
<1>1. FlowInv(f)
    BY DEF TunnelInv, FlowsInv
<1>2. PICK given \in Seq(Items) : given = received[f]
    BY <1>1 DEF FlowInv, FlowTypeOK
<1>3. i \in 1 .. Len(given) /\ Len(given) \in Nat
    BY <1>2, LenProperties
<1>4. given # << >>
    BY <1>3, EmptyItems
<1>5. PICK mixed \in BOOLEAN : mixed = link[f].reread
    BY <1>1 DEF FlowInv, FlowTypeOK, Links
<1>6. InARow(given, mixed)
    <2>1. CASE down[f].at = "ended"
        BY <1>1, <1>2, <1>5, <2>1 DEF FlowInv, Given
    <2>2. CASE down[f].at \in {"check", "pull", "write"}
        <3>1. /\ Chain(target[f].sent, queue[f], Batch(f), given, mixed)
              /\ target[f].sent \in Nat /\ queue[f] \in Seq(Items)
            BY <1>1, <1>2, <1>5, <2>2 DEF FlowInv, FlowTypeOK, Chained
        <3>2. Batch(f) \in Seq(Items)
            BY <1>1, EmptyItems DEF FlowInv, FlowTypeOK, Batch
        <3> QED BY <3>1, <3>2, ChainInARow
    <2>3. down[f].at \in {"check", "pull", "write", "ended"}
        BY <1>1, <1>2, <1>4 DEF FlowInv, FlowTypeOK
    <2> QED BY <2>1, <2>2, <2>3
<1>7. PICK before \in Nat \ {0} :
          \A k \in 1 .. Len(given) :
              given[k].n = before + k /\ (given[k].what = "bytes" \/ mixed)
    BY <1>6 DEF InARow, Run
<1>8. given[i].n = before + i /\ given[1].n = before + 1 /\ (given[i].what = "bytes" \/ mixed)
    BY <1>3, <1>7
<1>9. before + i > 1 /\ before + i = (before + 1) + i - 1
    BY <1>3
<1>10. given[i].n > 1 /\ given[i].n = given[1].n + i - 1
    BY <1>8, <1>9
<1> QED BY <1>2, <1>5, <1>8, <1>10

(* What an app receives is a run of what its session queues, nothing       *)
(* missing or repeated, without the answer to the flow's own CONNECT; it   *)
(* is the target's bytes only, until bytes the app sent to a target that   *)
(* had gone are taken for a CONNECT (tunnel.go:335-349,                    *)
(* server.go:252-262).                                                     *)
THEOREM BytesAlwaysInOrder == Spec => []BytesInOrder
PROOF
<1> QED BY TunnelInvariant, InvInOrder, PTL

LEMMA InvOwnAnswer == TunnelInv => OwnAnswerWhileReopened
PROOF
<1> QED BY DEF TunnelInv, DnsInv, Clean, OwnAnswerWhileReopened

(* While no reopen has failed, no query gets another's answer or a         *)
(* misframed one (tunnel.go:460-499).                                      *)
THEOREM AnswersAreOwn == Spec => []OwnAnswerWhileReopened
PROOF
<1> QED BY TunnelInvariant, InvOwnAnswer, PTL

-----------------------------------------------------------------------------
(* The end of a flow: what one of its goroutines has seen of it, the       *)
(* others can see.                                                         *)
WindsUp ==
    \A f \in Flows :
        /\ up[f].at = "ended" \/ down[f].at = "ended" => done[f]
        /\ flow[f].at = "returned" => conn[f] = "closed"

LEMMA WindsUpOne ==
    ASSUME FlowsInv, WindsUp, NEW f \in Flows, FlowShape',
           \A g \in Flows \ {f} : Same(g),
           up'[f].at = "ended" \/ down'[f].at = "ended" => done'[f],
           flow'[f].at = "returned" => conn'[f] = "closed"
    PROVE  WindsUp'
PROOF
<1>1. ASSUME NEW g \in Flows
      PROVE  /\ up'[g].at = "ended" \/ down'[g].at = "ended" => done'[g]
             /\ flow'[g].at = "returned" => conn'[g] = "closed"
    <2>1. CASE g = f
        BY <2>1
    <2>2. CASE g # f
        BY <2>2 DEF Same, WindsUp
    <2> QED BY <2>1, <2>2
<1> QED BY <1>1 DEF WindsUp

LEMMA WindsUpStep ==
    ASSUME FlowsInv, WindsUp, NEW f \in Flows,
           \/ Accept(f) \/ Goroutine(f) \/ ConnectFails(f) \/ UpPump(f) \/ DownPump(f)
           \/ AppCloses(f) \/ Server(f)
    PROVE  WindsUp'
PROOF
<1>1. /\ up[f].at = "ended" \/ down[f].at = "ended" => done[f]
      /\ flow[f].at = "returned" => conn[f] = "closed"
    BY DEF WindsUp
<1>2. FlowShape
    BY DEF FlowsInv
<1>3. CASE Accept(f)
    <2>1. FlowShape' /\ \A g \in Flows \ {f} : Same(g)
        BY <1>2, <1>3 DEF Accept, FlowShape, Same, session
    <2>2. flow'[f].at = "accepted" /\ up' = up /\ down' = down /\ done' = done
        BY <1>2, <1>3 DEF Accept, FlowShape, At
    <2> QED BY <1>1, <2>1, <2>2, WindsUpOne
<1>4. CASE Spawn(f) \/ Connects(f)
    <2>1. FlowShape' /\ \A g \in Flows \ {f} : Same(g)
        BY <1>2, <1>4 DEF Spawn, Connects, FlowShape, Same, session
    <2>2. flow'[f].at \in {"open", "wait"} /\ up' = up /\ down' = down /\ done' = done
        BY <1>2, <1>4 DEF Spawn, Connects, FlowShape, At
    <2> QED BY <1>1, <2>1, <2>2, WindsUpOne
<1>5. CASE WaitPoll(f)
    <2>1. FlowShape' /\ \A g \in Flows \ {f} : Same(g)
        BY <1>2, <1>5 DEF WaitPoll, FlowShape, Same
    <2>2. flow'[f].at \in {"wait", "start"} /\ up' = up /\ down' = down /\ done' = done
        BY <1>2, <1>5 DEF WaitPoll, FlowShape, At
    <2> QED BY <1>1, <2>1, <2>2, WindsUpOne
<1>6. CASE WaitEnds(f) \/ RelayEnds(f) \/ ConnectFails(f)
    <2>1. FlowReturns(f)
        BY <1>6 DEF WaitEnds, RelayEnds, ConnectFails
    <2>2. FlowShape' /\ \A g \in Flows \ {f} : Same(g)
        BY <1>2, <2>1 DEF FlowReturns, FlowShape, Same, session
    <2>3. conn'[f] = "closed" /\ up' = up /\ down' = down /\ done' = done
        BY <1>2, <2>1 DEF FlowReturns, FlowShape
    <2> QED BY <1>1, <2>2, <2>3, WindsUpOne
<1>7. CASE StartPumps(f)
    <2>1. FlowShape' /\ \A g \in Flows \ {f} : Same(g)
        BY <1>2, <1>7 DEF StartPumps, FlowShape, Same, session
    <2>2. flow'[f].at = "relay" /\ up'[f].at = "read" /\ down'[f].at = "check"
        BY <1>2, <1>7 DEF StartPumps, FlowShape, At
    <2> QED BY <2>1, <2>2, WindsUpOne
<1>8. CASE UpPump(f)
    <2>1. FlowShape' /\ \A g \in Flows \ {f} : Same(g)
        BY <1>2, <1>8 DEF UpPump, UpReads, UpPushes, UpEnds, UpPushFails, FlowShape, Same, session
    <2>2. flow' = flow /\ conn' = conn /\ down' = down
        BY <1>8 DEF UpPump, UpReads, UpPushes, UpEnds, UpPushFails
    <2>3. done'[f] = TRUE \/ (done' = done /\ up'[f].at \in {"read", "push"})
        BY <1>2, <1>8 DEF UpPump, UpReads, UpPushes, UpEnds, UpPushFails, FlowShape, At
    <2> QED BY <1>1, <2>1, <2>2, <2>3, WindsUpOne
<1>9. CASE DownPump(f)
    <2>1. FlowShape' /\ \A g \in Flows \ {f} : Same(g)
        BY <1>2, <1>9
        DEF DownPump, DownChecks, DownPulls, DownWrites, DownLoops, DownEnds, FlowShape, Same, session
    <2>2. flow' = flow /\ conn' = conn /\ up' = up
        BY <1>9 DEF DownPump, DownChecks, DownPulls, DownWrites, DownLoops, DownEnds
    <2>3. CASE DownChecks(f)
        <3>1. done' = done /\ (~done[f] => down'[f].at = "pull")
            BY <1>2, <2>3 DEF DownChecks, FlowShape, At
        <3> QED BY <1>1, <2>1, <2>2, <3>1, WindsUpOne
    <2>4. CASE DownPulls(f) \/ DownLoops(f)
        <3>1. done' = done /\ down'[f].at \in {"write", "check"}
            BY <1>2, <2>4 DEF DownPulls, DownLoops, FlowShape, At
        <3> QED BY <1>1, <2>1, <2>2, <3>1, WindsUpOne
    <2>5. CASE DownWrites(f)
        <3>1. DOMAIN down[f] = {"at", "batch"} /\ down[f].at = "write"
            BY <2>5 DEF DownWrites, FlowsInv, FlowInv, FlowTypeOK
        <3>2. done' = done /\ down'[f].at = "write"
            BY <1>2, <2>5, <3>1 DEF DownWrites, FlowShape
        <3> QED BY <1>1, <2>1, <2>2, <3>2, WindsUpOne
    <2>6. CASE DownEnds(f)
        <3>1. done'[f] = TRUE
            BY <1>2, <2>6 DEF DownEnds, FlowShape
        <3> QED BY <1>1, <2>1, <2>2, <3>1, WindsUpOne
    <2> QED BY <1>9, <2>3, <2>4, <2>5, <2>6 DEF DownPump
<1>10. CASE AppCloses(f)
    <2>1. FlowShape' /\ \A g \in Flows \ {f} : Same(g)
        BY <1>2, <1>10 DEF AppCloses, FlowShape, Same, session
    <2>2. flow' = flow /\ flow[f].at # "returned" /\ up' = up /\ down' = down /\ done' = done
        BY <1>1, <1>10 DEF AppCloses
    <2> QED BY <1>1, <2>1, <2>2, WindsUpOne
<1>11. CASE Server(f)
    <2>1. FlowShape' /\ \A g \in Flows \ {f} : Same(g)
        BY <1>2, <1>11
        DEF Server, LatePush, TargetAnswers, TargetSends, TargetEnds, Queues, FlowShape, Same
    <2>2. flow' = flow /\ conn' = conn /\ up' = up /\ down' = down /\ done' = done
        BY <1>11 DEF Server, LatePush, TargetAnswers, TargetSends, TargetEnds
    <2> QED BY <1>1, <2>1, <2>2, WindsUpOne
<1> QED
    BY <1>3, <1>4, <1>5, <1>6, <1>7, <1>8, <1>9, <1>10, <1>11 DEF Goroutine

(* No pump ends without saying so to the flow's goroutine, and that one    *)
(* does not return without closing the connection, on which the pumps end: *)
(* the safety that FlowsEnd rests on (tunnel.go:291-353).                  *)
THEOREM FlowsWindUp == Spec => []WindsUp
PROOF
<1>1. Init => WindsUp
    <2> SUFFICES ASSUME Init, NEW f \in Flows
                 PROVE  up[f].at = "off" /\ down[f].at = "off" /\ flow[f].at = "none"
        BY DEF WindsUp
    <2> QED BY DEF Init, At, Off
<1>2. TunnelInv /\ WindsUp /\ [Next]_vars => WindsUp'
    <2> SUFFICES ASSUME TunnelInv, WindsUp, [Next]_vars PROVE WindsUp'
        OBVIOUS
    <2>1. ASSUME NEW f \in Flows,
                 \/ Accept(f) \/ Goroutine(f) \/ ConnectFails(f) \/ UpPump(f) \/ DownPump(f)
                 \/ AppCloses(f) \/ Server(f)
          PROVE  WindsUp'
        BY <2>1, WindsUpStep DEF TunnelInv
    <2>2. CASE Stop
        <3>1. \A f \in Flows : conn[f] = "closed" => conn'[f] = "closed"
            BY <2>2 DEF Stop
        <3> QED BY <2>2, <3>1 DEF Stop, WindsUp
    <2>3. CASE UNCHANGED flows
        BY <2>3 DEF flows, WindsUp
    <2> QED BY <2>1, <2>2, <2>3 DEF Next, StopReturns, vars
<1> QED BY <1>1, <1>2, TunnelInvariant, PTL DEF Spec
=============================================================================
