--------------------------- MODULE ReceiverProofs ---------------------------
(***************************************************************************)
(* Proofs about a receiving session: the ReplayWindow and the              *)
(* ReorderBuffer as values, the two specifications that use one of them    *)
(* each (ReplaySpec, ReorderSpec), and their composition (Receiver), for   *)
(* every window size, bitmap width, set of counters, length of the stream  *)
(* that is less than the number of sequence numbers, and point of          *)
(* rotation.                                                               *)
(*                                                                         *)
(* Remembers and Buffered say what a window and a buffer are worth; they   *)
(* are stated of values, not of variables, so that the proofs about        *)
(* sessions with threads (SessionProofs) cite them too.                    *)
(***************************************************************************)
EXTENDS Receiver, SequenceTheorems, WellFoundedInduction, TLAPS

(* The window w says exactly which counters of S lie inside it.            *)
Remembers(w, S) ==
    /\ w \in Windows /\ S \subseteq Nat
    /\ w.initiated <=> S # {}
    /\ w.initiated => w.highest \in S
    /\ \A c \in S : c <= w.highest
    /\ \A d \in Offsets : d \in w.seen <=> (w.initiated /\ w.highest - d \in S)

Payloads(slots) == UNION {slots[k] : k \in Nat}

(* The buffer r has given out the payloads `done' of a stream of n frames, *)
(* and holds no other that is next; slots[k] is the set of the payloads    *)
(* that frame k can have.                                                  *)
Filled(r, n, slots, done) ==
    /\ r.nextExpected \in 0 .. n
    /\ DOMAIN r.pending \subseteq r.nextExpected + 1 .. n - 1
    /\ \A i \in DOMAIN r.pending : r.pending[i] \in slots[i]
    /\ done \in Seq(Payloads(slots)) /\ Len(done) = r.nextExpected
    /\ \A k \in 1 .. r.nextExpected : done[k] \in slots[k - 1]

(* What r was given: what it has given out and what it holds.              *)
Given(r) == (0 .. r.nextExpected - 1) \cup DOMAIN r.pending

(* The same of payloads that are their own numbers, and were `got'.        *)
Buffered(r, n, got, done) ==
    /\ r.nextExpected \in 0 .. n
    /\ got \subseteq 0 .. n - 1
    /\ DOMAIN r.pending = {i \in got : i >= r.nextExpected}
    /\ \A i \in DOMAIN r.pending : r.pending[i] = i
    /\ r.nextExpected \notin got /\ \A i \in 0 .. r.nextExpected - 1 : i \in got
    /\ done = [k \in 1 .. r.nextExpected |-> k - 1]

-----------------------------------------------------------------------------
(* After an accepted counter the bitmap still says exactly which counters  *)
(* of the window were accepted (replay.go:39-71).                          *)
LEMMA MarkedRemembers ==
    ASSUME NEW w, NEW S, Remembers(w, S), NEW c \in Nat, Acceptable(w, c)
    PROVE  Remembers(Marked(w, c), S \cup {c})
PROOF
<1> USE WindowAssumption
<1> DEFINE T == S \cup {c}
<1>v. PICK v : v = Marked(w, c)
    OBVIOUS
<1> SUFFICES Remembers(v, T)
    BY <1>v
<1>0. /\ w \in Windows /\ S \subseteq Nat /\ T \subseteq Nat /\ T # {} /\ c \in T
      /\ w.highest \in Nat /\ w.seen \subseteq Offsets /\ w.initiated \in BOOLEAN
    BY DEF Remembers, Windows
<1>1. CASE ~w.initiated
    <2>1. S = {}
        BY <1>1 DEF Remembers
    <2>2. v = [initiated |-> TRUE, highest |-> c, seen |-> {0}]
        BY <1>1, <1>v DEF Marked
    <2>3. v \in Windows
        BY <2>2 DEF Windows, Offsets
    <2>4. \A d \in Offsets : d \in v.seen <=> v.highest - d \in T
        BY <2>1, <2>2 DEF Offsets
    <2> QED BY <1>0, <2>1, <2>2, <2>3, <2>4 DEF Remembers
<1>2. CASE w.initiated /\ c > w.highest
    <2> DEFINE n == c - w.highest
    <2>1. v = [w EXCEPT !.highest = c, !.seen = ShiftLeft(w.seen, n) \cup {0}]
        BY <1>2, <1>v DEF Marked
    <2>2. /\ v.initiated /\ v.highest = c
          /\ v.seen = ShiftLeft(w.seen, n) \cup {0}
        BY <1>0, <1>2, <2>1 DEF Windows
    <2>3. v \in Windows
        <3>1. ShiftLeft(w.seen, n) \cup {0} \in SUBSET Offsets
            BY DEF Offsets, ShiftLeft
        <3> QED BY <1>0, <2>1, <3>1 DEF Windows
    <2>4. \A b \in T : b <= v.highest
        BY <1>0, <1>2, <2>2 DEF Remembers
    <2>5. ASSUME NEW d \in Offsets PROVE d \in v.seen <=> c - d \in T
        <3>0. n \in Nat \ {0} /\ d \in Nat /\ n = c - w.highest
            BY <1>0, <1>2 DEF Offsets
        <3> HIDE DEF n
        <3>1. d \in ShiftLeft(w.seen, n) <=> d - n \in w.seen
            <4>1. w.seen \subseteq Int
                BY <1>0 DEF Offsets
            <4> QED BY <3>0, <4>1 DEF ShiftLeft
        <3>2. CASE d = 0
            BY <2>2, <3>2
        <3>3. CASE 0 < d /\ d < n
            <4>1. d - n \notin w.seen
                BY <1>0, <3>0, <3>3 DEF Offsets
            <4>2. c - d \notin T
                BY <1>0, <3>0, <3>3 DEF Remembers
            <4> QED BY <2>2, <3>1, <3>3, <4>1, <4>2
        <3>4. CASE 0 < d /\ n <= d
            <4>1. d - n \in Offsets
                BY <3>0, <3>4 DEF Offsets
            <4>2. d - n \in w.seen <=> w.highest - (d - n) \in S
                BY <4>1, <1>2 DEF Remembers
            <4>3. w.highest - (d - n) = c - d /\ c - d # c
                BY <1>0, <3>0, <3>4
            <4> QED BY <2>2, <3>1, <3>4, <4>2, <4>3
        <3> QED BY <3>0, <3>2, <3>3, <3>4
    <2> HIDE DEF T
    <2> QED BY <1>0, <1>2, <2>2, <2>3, <2>4, <2>5 DEF Remembers
<1>3. CASE w.initiated /\ ~(c > w.highest)
    <2>1. c < w.highest /\ w.highest - c \in Offsets
        BY <1>0, <1>3 DEF Acceptable, Offsets
    <2>2. /\ v = [w EXCEPT !.seen = @ \cup {w.highest - c}]
          /\ v.initiated /\ v.highest = w.highest
          /\ v.seen = w.seen \cup {w.highest - c}
        BY <1>0, <1>3, <1>v DEF Marked, Windows
    <2>3. v \in Windows
        BY <1>0, <2>1, <2>2 DEF Windows
    <2>4. w.highest \in S /\ \A b \in T : b <= w.highest
        BY <1>0, <1>3, <2>1 DEF Remembers
    <2>5. ASSUME NEW d \in Offsets PROVE d \in v.seen <=> w.highest - d \in T
        <3>1. d \in w.seen <=> w.highest - d \in S
            BY <1>3 DEF Remembers
        <3>2. d = w.highest - c <=> w.highest - d = c
            BY <1>0 DEF Offsets
        <3> QED BY <2>2, <3>1, <3>2
    <2>6. v.highest \in T
        BY <2>2, <2>4
    <2> HIDE DEF T
    <2> QED BY <1>0, <2>2, <2>3, <2>4, <2>5, <2>6 DEF Remembers
<1> QED BY <1>1, <1>2, <1>3

(* The verdict, read off what was accepted: a counter is acceptable        *)
(* exactly when it has not been accepted and does not lie WindowSize or    *)
(* more behind one that has (replay.go:39-69).                             *)
LEMMA AcceptableRemembers ==
    ASSUME NEW w, NEW S, Remembers(w, S), NEW c \in Nat
    PROVE  Acceptable(w, c) <=> c \notin S /\ \A a \in S : a - c < WindowSize
PROOF
<1> USE WindowAssumption
<1> DEFINE TooOld == \E a \in S : a - c >= WindowSize
<1>0. /\ S \subseteq Nat /\ w.highest \in Nat /\ w.initiated \in BOOLEAN
      /\ TooOld <=> ~\A a \in S : a - c < WindowSize
    BY DEF Remembers, Windows
<1>1. CASE ~w.initiated
    BY <1>1 DEF Acceptable, Remembers
<1>2. CASE w.initiated /\ c > w.highest
    BY <1>0, <1>2 DEF Acceptable, Remembers
<1>3. CASE w.initiated /\ c <= w.highest
    <2>1. w.highest \in S /\ \A d \in S : d <= w.highest
        BY <1>3 DEF Remembers
    <2>2. TooOld <=> w.highest - c >= WindowSize
        BY <1>0, <2>1
    <2>3. ASSUME w.highest - c < WindowSize
          PROVE  w.highest - c \in w.seen <=> c \in S
        <3>1. w.highest - c \in Offsets
            BY <1>0, <1>3, <2>3 DEF Offsets
        <3>2. w.highest - (w.highest - c) = c
            BY <1>0
        <3> QED BY <1>3, <3>1, <3>2 DEF Remembers
    <2> HIDE DEF TooOld
    <2>4. CASE w.highest - c >= WindowSize
        BY <1>0, <1>3, <2>2, <2>4 DEF Acceptable
    <2>5. CASE w.highest - c < WindowSize
        <3>1. CASE c = w.highest
            BY <1>0, <1>3, <2>1, <3>1 DEF Acceptable
        <3>2. CASE c < w.highest
            <4>1. Acceptable(w, c) <=> w.highest - c \notin w.seen
                BY <1>0, <1>3, <2>5, <3>2 DEF Acceptable
            <4> QED BY <1>0, <2>2, <2>3, <2>5, <4>1
        <3> QED BY <1>0, <1>3, <3>1, <3>2
    <2> QED BY <1>0, <2>4, <2>5
<1> QED BY <1>0, <1>1, <1>2, <1>3

(* A new window, and a window that Reset leaves, remember nothing          *)
(* (replay.go:27-29, :78-84).                                              *)
LEMMA EmptyRemembers ==
    /\ Remembers(NewReplayWindow, {})
    /\ \A w \in Windows : Remembers(ResetWindow(w), {})
PROOF
<1>1. Remembers([initiated |-> FALSE, highest |-> 0, seen |-> {}], {})
    BY DEF Remembers, Windows
<1>2. ASSUME NEW w \in Windows
      PROVE  ResetWindow(w) = [initiated |-> FALSE, highest |-> 0, seen |-> {}]
    <2>1. PICK v : v = ResetWindow(w)
        OBVIOUS
    <2>2. v = [initiated |-> FALSE, highest |-> 0, seen |-> {}]
        BY <2>1 DEF ResetWindow, Windows
    <2> QED BY <2>1, <2>2
<1> QED BY <1>1, <1>2 DEF NewReplayWindow

-----------------------------------------------------------------------------
(* A nonempty set of naturals has a least element.                         *)
LEMMA LeastNat ==
    ASSUME NEW T \in SUBSET Nat, T # {}
    PROVE  \E x \in T : \A y \in T : x <= y
PROOF
<1> DEFINE Less == OpToRel(<, Nat)
<1>1. IsWellFoundedOn(Less, Nat)
    BY NatLessThanWellFounded
<1>2. \A y, z \in Nat : y < z => <<y, z>> \in Less
    BY DEF OpToRel
<1> HIDE DEF Less
<1>3. PICK x \in T : \A y \in T : ~(<<y, x>> \in Less)
    BY <1>1, WFMin
<1>4. ASSUME NEW y \in T PROVE x <= y
    <2>1. x \in Nat /\ y \in Nat
        OBVIOUS
    <2>2. ~(y < x)
        BY <1>2, <1>3, <2>1
    <2> QED BY <2>1, <2>2
<1> QED BY <1>4

(* The flush loop stops at the first number that is not held               *)
(* (reorder.go:58-67).                                                     *)
LEMMA RunEndCorrect ==
    ASSUME NEW pending, NEW n \in Nat, NEW bound \in n .. SeqSpace,
           bound \notin DOMAIN pending
    PROVE  /\ RunEnd(pending, n) \in n .. bound
           /\ RunEnd(pending, n) \notin DOMAIN pending
           /\ \A t \in n .. RunEnd(pending, n) - 1 : t \in DOMAIN pending
PROOF
<1> USE SeqSpaceAssumption
<1> DEFINE Gaps == {m \in n .. bound : m \notin DOMAIN pending}
           Ends(m) == m \notin DOMAIN pending /\ \A t \in n .. m - 1 : t \in DOMAIN pending
<1>1. Gaps \in SUBSET Nat /\ bound \in Gaps
    OBVIOUS
<1>2. PICK m \in Gaps : \A k \in Gaps : m <= k
    <2> HIDE DEF Gaps
    <2> QED BY <1>1, LeastNat
<1>3. m \in n .. SeqSpace /\ Ends(m)
    <2>1. ASSUME NEW t \in n .. m - 1 PROVE t \in DOMAIN pending
        BY <1>2
    <2> QED BY <1>2, <2>1
<1>4. RunEnd(pending, n) = CHOOSE e \in n .. SeqSpace : Ends(e)
    BY DEF RunEnd
<1>5. RunEnd(pending, n) \in n .. SeqSpace /\ Ends(RunEnd(pending, n))
    BY <1>3, <1>4
<1>6. RunEnd(pending, n) <= bound
    BY <1>5
<1> QED BY <1>5, <1>6

(* A new frame is stored, and the run it completes is flushed; a duplicate *)
(* changes nothing (reorder.go:45-68).                                     *)
LEMMA InsertEffect ==
    ASSUME NEW length \in Nat, length < SeqSpace, NEW slots,
           NEW r, NEW done, Filled(r, length, slots, done),
           NEW i \in 0 .. length - 1, NEW p \in slots[i]
    PROVE  /\ Filled(Insert(r, i, p).buffer, length, slots, done \o Insert(r, i, p).ready)
           /\ Given(Insert(r, i, p).buffer) = Given(r) \cup {i}
           /\ Insert(r, i, p).ready \in Seq(Payloads(slots))
PROOF
<1> USE SeqSpaceAssumption
<1>0. PICK n \in 0 .. length : n = r.nextExpected
    BY DEF Filled
<1>a. PICK All : All = Payloads(slots)
    OBVIOUS
<1>b. /\ done \in Seq(All) /\ Len(done) = n
      /\ \A k \in Nat : slots[k] \subseteq All
    BY <1>0, <1>a DEF Filled, Payloads
<1>1. CASE Duplicate(r, i)
    <2>1. i \in Given(r)
        BY <1>0, <1>1 DEF Duplicate, Given
    <2>2. Insert(r, i, p).buffer = r /\ Insert(r, i, p).ready = << >>
        BY <1>1 DEF Insert
    <2>3. done \o << >> = done /\ << >> \in Seq(All)
        BY <1>b
    <2> QED BY <1>a, <2>1, <2>2, <2>3
<1>2. CASE ~Duplicate(r, i)
    <2>a. PICK held : held = Store(r.pending, i, p)
        OBVIOUS
    <2>b. PICK end : end = RunEnd(held, n)
        OBVIOUS
    <2>c. PICK out : out = [k \in 1 .. end - n |-> held[n + k - 1]]
        OBVIOUS
    <2>d. PICK new : new = Insert(r, i, p)
        OBVIOUS
    <2>1. n <= i /\ i \notin DOMAIN r.pending
        BY <1>0, <1>2 DEF Duplicate
    <2>2. /\ new.buffer = [nextExpected |-> Uint32(end),
                           pending |-> [t \in DOMAIN held \ (n .. end - 1) |-> held[t]]]
          /\ new.ready = out
        BY <1>0, <1>2, <2>a, <2>b, <2>c, <2>d DEF Insert, Flush
    <2>3. /\ DOMAIN held = DOMAIN r.pending \cup {i}
          /\ \A j \in DOMAIN held : held[j] \in slots[j]
          /\ DOMAIN held \subseteq n .. length - 1
        BY <1>0, <2>a, <2>1 DEF Store, Filled
    <2>4. /\ end \in n .. length
          /\ end \notin DOMAIN held
          /\ \A t \in n .. end - 1 : t \in DOMAIN held
        <3>1. length \in n .. SeqSpace /\ length \notin DOMAIN held /\ n \in Nat
            BY <2>3
        <3> QED BY <2>b, <3>1, RunEndCorrect
    <2>5. new.buffer.nextExpected = end
        BY <2>2, <2>4 DEF Uint32
    <2>6. /\ DOMAIN new.buffer.pending = DOMAIN held \ (n .. end - 1)
          /\ DOMAIN new.buffer.pending \subseteq end + 1 .. length - 1
          /\ \A j \in DOMAIN new.buffer.pending : new.buffer.pending[j] \in slots[j]
        <3>1. new.buffer.pending = [t \in DOMAIN held \ (n .. end - 1) |-> held[t]]
            BY <2>2
        <3>2. \A t \in DOMAIN held \ (n .. end - 1) : t \in end + 1 .. length - 1
            BY <2>3, <2>4
        <3> QED BY <2>3, <3>1, <3>2
    <2>7. Given(new.buffer) = Given(r) \cup {i}
        <3>1. 0 .. end - 1 = (0 .. n - 1) \cup (n .. end - 1)
            BY <2>4
        <3>2. n .. end - 1 \subseteq DOMAIN held
            BY <2>4
        <3> QED BY <1>0, <2>3, <2>5, <2>6, <3>1, <3>2 DEF Given
    <2>8. /\ out \in Seq(All) /\ Len(out) = end - n
          /\ \A k \in 1 .. end - n : out[k] \in slots[n + k - 1]
        <3>1. ASSUME NEW k \in 1 .. end - n
              PROVE  held[n + k - 1] \in slots[n + k - 1] /\ held[n + k - 1] \in All
            <4>1. n + k - 1 \in n .. end - 1 /\ n + k - 1 \in Nat
                BY <2>4
            <4> QED BY <1>b, <2>3, <2>4, <4>1
        <3>2. end - n \in Nat
            BY <2>4
        <3> QED BY <2>c, <3>1, <3>2
    <2>9. PICK whole : whole = done \o out
        OBVIOUS
    <2>10. /\ whole \in Seq(All) /\ Len(whole) = end
           /\ \A k \in 1 .. end : whole[k] \in slots[k - 1]
        <3>1. n \in Nat /\ end \in Nat /\ n <= end
            BY <2>4
        <3>2. whole \in Seq(All) /\ Len(whole) = end
            <4>1. done \o out \in Seq(All) /\ Len(done \o out) = Len(done) + Len(out)
                BY <1>b, <2>8, ConcatProperties
            <4> QED BY <1>b, <2>8, <2>9, <3>1, <4>1
        <3>3. ASSUME NEW k \in 1 .. end PROVE whole[k] \in slots[k - 1]
            <4>1. CASE k <= n
                <5>1. whole[k] = done[k]
                    BY <1>b, <2>8, <2>9, <3>1, <4>1
                <5> QED BY <1>0, <4>1, <5>1 DEF Filled
            <4>2. CASE k > n
                <5>1. k - n \in 1 .. end - n /\ n + (k - n) - 1 = k - 1
                    BY <3>1, <4>2
                <5>2. whole[k] = out[k - n]
                    BY <1>b, <2>8, <2>9, <3>1, <4>2
                <5> QED BY <2>8, <5>1, <5>2
            <4>3. k \in Int /\ n \in Int
                BY <3>1
            <4> QED BY <4>1, <4>2, <4>3
        <3> QED BY <3>2, <3>3
    <2>11. Filled(new.buffer, length, slots, whole)
        <3>1. end \in 0 .. length
            BY <2>4
        <3> QED BY <1>a, <2>5, <2>6, <2>10, <3>1 DEF Filled
    <2> QED BY <1>a, <2>2, <2>7, <2>8, <2>9, <2>11, <2>d
<1> QED BY <1>1, <1>2

(* Its parts, as they are cited.                                           *)
LEMMA InsertFills ==
    ASSUME NEW length \in Nat, length < SeqSpace, NEW slots,
           NEW r, NEW done, Filled(r, length, slots, done),
           NEW i \in 0 .. length - 1, NEW p \in slots[i]
    PROVE  Filled(Insert(r, i, p).buffer, length, slots, done \o Insert(r, i, p).ready)
BY InsertEffect

LEMMA InsertGives ==
    ASSUME NEW length \in Nat, length < SeqSpace, NEW slots,
           NEW r, NEW done, Filled(r, length, slots, done),
           NEW i \in 0 .. length - 1, NEW p \in slots[i]
    PROVE  Given(Insert(r, i, p).buffer) = Given(r) \cup {i}
BY InsertEffect

LEMMA InsertReady ==
    ASSUME NEW length \in Nat, length < SeqSpace, NEW slots,
           NEW r, NEW done, Filled(r, length, slots, done),
           NEW i \in 0 .. length - 1, NEW p \in slots[i]
    PROVE  Insert(r, i, p).ready \in Seq(Payloads(slots))
BY InsertEffect

(* The payloads that are their own numbers.                                *)
Numbers == [k \in Nat |-> {k}]

LEMMA BufferedFilled ==
    ASSUME NEW n \in Nat, NEW r, NEW got, NEW done
    PROVE  Buffered(r, n, got, done) <=> Filled(r, n, Numbers, done) /\ got = Given(r)
PROOF
<1>0. Payloads(Numbers) = Nat /\ \A k \in Nat : Numbers[k] = {k}
    BY DEF Numbers, Payloads
<1>1. ASSUME Buffered(r, n, got, done) PROVE Filled(r, n, Numbers, done) /\ got = Given(r)
    <2>1. PICK m \in 0 .. n : m = r.nextExpected
        BY <1>1 DEF Buffered
    <2>2. PICK held : held = DOMAIN r.pending
        OBVIOUS
    <2>3. /\ got \subseteq 0 .. n - 1 /\ held = {i \in got : i >= m}
          /\ m \notin got /\ \A i \in 0 .. m - 1 : i \in got
        BY <1>1, <2>1, <2>2 DEF Buffered
    <2>4. \A i \in got : i \in 0 .. m - 1 \/ i \in held
        BY <2>3
    <2>5. got = (0 .. m - 1) \cup held
        BY <2>3, <2>4
    <2>6. \A i \in held : i \in m + 1 .. n - 1 /\ i \in Nat /\ r.pending[i] = i
        <3>1. \A i \in held : i \in 0 .. n - 1 /\ i >= m /\ i # m
            BY <2>3
        <3>2. \A i \in held : i \in m + 1 .. n - 1
            BY <3>1
        <3> QED BY <1>1, <2>2, <3>1, <3>2 DEF Buffered
    <2>7. done \in Seq(Nat) /\ Len(done) = m /\ \A k \in 1 .. m : k - 1 \in Nat /\ done[k] = k - 1
        BY <1>1, <2>1 DEF Buffered
    <2> QED BY <1>0, <2>1, <2>2, <2>5, <2>6, <2>7 DEF Filled, Given
<1>2. ASSUME Filled(r, n, Numbers, done), got = Given(r) PROVE Buffered(r, n, got, done)
    <2>1. PICK m \in 0 .. n : m = r.nextExpected
        BY <1>2 DEF Filled
    <2>2. /\ DOMAIN r.pending \subseteq m + 1 .. n - 1
          /\ \A i \in DOMAIN r.pending : r.pending[i] = i
        BY <1>0, <1>2, <2>1 DEF Filled
    <2>3. done \in Seq(Nat) /\ Len(done) = m /\ \A k \in 1 .. m : done[k] = k - 1
        <3>1. \A k \in 1 .. m : done[k] \in Numbers[k - 1] /\ k - 1 \in Nat
            BY <1>2, <2>1 DEF Filled
        <3>2. \A k \in 1 .. m : done[k] = k - 1
            BY <1>0, <3>1
        <3>3. done \in Seq(Nat) /\ Len(done) = m
            BY <1>0, <1>2, <2>1 DEF Filled
        <3> QED BY <3>2, <3>3
    <2>4. done = [k \in 1 .. m |-> k - 1]
        BY <2>3
    <2>5. got = (0 .. m - 1) \cup DOMAIN r.pending
        BY <1>2, <2>1 DEF Given
    <2>6. DOMAIN r.pending = {i \in got : i >= m} /\ got \subseteq 0 .. n - 1
          /\ m \notin got
        BY <2>2, <2>5
    <2> QED BY <2>1, <2>2, <2>4, <2>5, <2>6 DEF Buffered
<1> QED BY <1>1, <1>2

LEMMA InsertKeeps ==
    ASSUME NEW length \in Nat, length < SeqSpace,
           NEW r, NEW got, NEW done, Buffered(r, length, got, done), NEW i \in 0 .. length - 1
    PROVE  Buffered(Insert(r, i, i).buffer, length, got \cup {i}, done \o Insert(r, i, i).ready)
PROOF
<1>1. Filled(r, length, Numbers, done) /\ got = Given(r) /\ i \in Numbers[i]
    BY BufferedFilled DEF Numbers
<1>2. Filled(Insert(r, i, i).buffer, length, Numbers, done \o Insert(r, i, i).ready)
    BY <1>1, InsertFills
<1>3. Given(Insert(r, i, i).buffer) = Given(r) \cup {i}
    BY <1>1, InsertGives
<1> QED BY <1>1, <1>2, <1>3, BufferedFilled

LEMMA ReadyNumbers ==
    ASSUME NEW length \in Nat, length < SeqSpace,
           NEW r, NEW got, NEW done, Buffered(r, length, got, done), NEW i \in 0 .. length - 1
    PROVE  Insert(r, i, i).ready \in Seq(Nat)
PROOF
<1>1. Filled(r, length, Numbers, done) /\ i \in Numbers[i]
    BY BufferedFilled DEF Numbers
<1>2. Insert(r, i, i).ready \in Seq(Payloads(Numbers))
    BY <1>1, InsertReady
<1>3. Payloads(Numbers) = Nat
    BY DEF Payloads, Numbers
<1> QED BY <1>2, <1>3

(* A new buffer holds nothing (reorder.go:23-29).                          *)
LEMMA EmptyBuffered == \A n \in Nat : Buffered(NewReorderBuffer(0), n, {}, << >>)
BY DEF Buffered, NewReorderBuffer, NoPending

-----------------------------------------------------------------------------
(* ReplaySpec: TypeOK and WindowRemembers together are inductive, and the  *)
(* step refinement of AntiReplay follows from them.                        *)
IInv == TypeOK /\ WindowRemembers

LEMMA IInvRemembers == TypeOK => (WindowRemembers <=> Remembers(window, accepted))
BY CountersAssumption
DEF TypeOK, WindowRemembers, HighestAccepted, BitmapExact, Remembers

LEMMA InvInit == Init => IInv
PROOF
<1> SUFFICES ASSUME Init PROVE IInv
    OBVIOUS
<1>1. TypeOK
    BY WindowAssumption
    DEF Init, TypeOK, NewReplayWindow, Windows, Offsets, Promise!NoVerdict
<1> QED BY <1>1, IInvRemembers, EmptyRemembers DEF Init, IInv

LEMMA InvCheck == ASSUME IInv, NEW c \in Counters, Check(c) PROVE IInv'
PROOF
<1>1. CASE Acceptable(window, c)
    <2>1. /\ window' = Marked(window, c)
          /\ accepted' = accepted \cup {c}
          /\ verdict' = [counter |-> c, ok |-> TRUE]
        BY <1>1 DEF Check, CheckAndMark
    <2>2. Remembers(window', accepted')
        BY <1>1, <2>1, IInvRemembers, MarkedRemembers, CountersAssumption DEF IInv
    <2>3. TypeOK'
        BY <2>1, <2>2 DEF IInv, TypeOK, Remembers
    <2>4. WindowRemembers'
        BY <2>2 DEF WindowRemembers, HighestAccepted, BitmapExact, Remembers
    <2> QED BY <2>3, <2>4 DEF IInv
<1>2. CASE ~Acceptable(window, c)
    <2>1. /\ window' = window
          /\ accepted' = accepted
          /\ verdict' = [counter |-> c, ok |-> FALSE]
        BY <1>2 DEF Check, CheckAndMark
    <2> QED BY <2>1 DEF IInv, TypeOK, WindowRemembers, HighestAccepted, BitmapExact
<1> QED BY <1>1, <1>2

LEMMA InvRotate == ASSUME IInv, Rotate PROVE IInv'
PROOF
<1>1. window' = [initiated |-> FALSE, highest |-> 0, seen |-> {}]
    BY DEF Rotate, ResetWindow, IInv, TypeOK, Windows
<1> QED
    BY <1>1 DEF Rotate, IInv, TypeOK, Windows, WindowRemembers, HighestAccepted,
                BitmapExact, Promise!NoVerdict

LEMMA InvNext == IInv /\ [Next]_vars => IInv'
PROOF
<1> SUFFICES ASSUME IInv, [Next]_vars PROVE IInv'
    OBVIOUS
<1>1. CASE Rotate
    BY <1>1, InvRotate
<1>2. ASSUME NEW c \in Counters, Check(c) PROVE IInv'
    BY <1>2, InvCheck
<1>3. CASE UNCHANGED vars
    BY <1>3 DEF vars, IInv, TypeOK, WindowRemembers, HighestAccepted, BitmapExact
<1> QED BY <1>1, <1>2, <1>3 DEF Next

LEMMA Invariance == Spec => []IInv
PROOF BY InvInit, InvNext, PTL DEF Spec

(* Every reachable window is well formed and every history a set of the    *)
(* counters that arrive (replay.go:17-23).                                 *)
THEOREM TypeCorrect == Spec => []TypeOK
PROOF BY Invariance, PTL DEF IInv

(* Through any number of marks, shifts and resets the window remembers     *)
(* exactly the accepted counters it can still represent (replay.go:35-84). *)
THEOREM RemembersAlways == Spec => []WindowRemembers
PROOF BY Invariance, PTL DEF IInv

(* The verdict in AntiReplay's terms (replay.go:39-69).                    *)
LEMMA AcceptableExact ==
    ASSUME IInv, NEW c \in Counters
    PROVE  Acceptable(window, c) <=> c \notin accepted /\ ~Promise!TooOld(c)
PROOF
<1>1. Acceptable(window, c) <=> c \notin accepted /\ \A a \in accepted : a - c < WindowSize
    BY CountersAssumption, IInvRemembers, AcceptableRemembers DEF IInv
<1>2. \A a \in accepted : a - c < WindowSize <=> ~(a - c >= WindowSize)
    BY CountersAssumption, WindowAssumption DEF IInv, TypeOK
<1> QED BY <1>1, <1>2 DEF Promise!TooOld

(* A call accepts what is new and refuses what AntiReplay lets it refuse   *)
(* (replay.go:44-72).                                                      *)
LEMMA CheckKeepsPromise ==
    ASSUME IInv, NEW c \in Counters, Check(c)
    PROVE  Promise!Accept(c) \/ Promise!Refuse(c)
PROOF
<1>1. CASE Acceptable(window, c)
    BY <1>1, AcceptableExact DEF Check, Promise!Accept
<1>2. CASE ~Acceptable(window, c)
    BY <1>2, AcceptableExact DEF Check, Promise!Refuse
<1> QED BY <1>1, <1>2

(* The sliding window of replay.go implements AntiReplay: no counter is    *)
(* accepted twice under one session key, and no counter is refused that is *)
(* neither a replay nor WindowSize or more behind (replay.go:13-15).       *)
THEOREM WindowKeepsPromise == Spec => KeepsPromise
PROOF
<1>1. Init => Promise!Init
    BY DEF Init, Promise!Init
<1>2. IInv /\ [Next]_vars => [Promise!Next]_<<accepted, verdict>>
    <2> SUFFICES ASSUME IInv, [Next]_vars
                 PROVE  [Promise!Next]_<<accepted, verdict>>
        OBVIOUS
    <2>1. CASE Rotate
        BY <2>1 DEF Rotate, Promise!Next, Promise!NewKey
    <2>2. ASSUME NEW c \in Counters, Check(c) PROVE Promise!Next
        BY <2>2, CheckKeepsPromise DEF Promise!Next
    <2>3. CASE UNCHANGED vars
        BY <2>3 DEF vars
    <2> QED BY <2>1, <2>2, <2>3 DEF Next
<1> QED BY <1>1, <1>2, Invariance, PTL DEF Spec, KeepsPromise, Promise!Spec

-----------------------------------------------------------------------------
(* ReorderSpec: the type invariant, AckIsPrefix and HeldExactly are        *)
(* inductive together; OrderedStream's step follows from the invariant     *)
(* after the step.                                                         *)
StreamInv == StreamTypeOK /\ AckIsPrefix /\ HeldExactly

LEMMA StreamInvBuffered == StreamInv <=> Buffered(buffer, StreamLength, arrived, delivered)
PROOF
<1> USE StreamAssumption DEF Stream, InOrder!Stream, InOrder!Prefix, InOrder!Contiguous
<1>1. StreamInv => Buffered(buffer, StreamLength, arrived, delivered)
    BY DEF StreamInv, StreamTypeOK, AckIsPrefix, HeldExactly, Buffered
<1>2. ASSUME Buffered(buffer, StreamLength, arrived, delivered) PROVE StreamInv
    <2> DEFINE n == buffer.nextExpected
    <2>1. n \in 0 .. StreamLength /\ delivered = [k \in 1 .. n |-> k - 1]
        BY <1>2 DEF Buffered
    <2>2. \A k \in 1 .. n : k - 1 \in 0 .. StreamLength - 1
        BY <2>1
    <2>3. delivered \in Seq(0 .. StreamLength - 1)
        BY <2>1, <2>2
    <2> QED BY <1>2, <2>3 DEF StreamInv, StreamTypeOK, AckIsPrefix, HeldExactly, Buffered
<1> QED BY <1>1, <1>2

LEMMA StreamInvInit == StreamInit => StreamInv
BY EmptyBuffered, StreamInvBuffered, StreamAssumption DEF StreamInit

LEMMA StreamInvNext == StreamInv /\ [StreamNext]_streamVars => StreamInv'
PROOF
<1> SUFFICES ASSUME StreamInv, [StreamNext]_streamVars PROVE StreamInv'
    OBVIOUS
<1>1. CASE UNCHANGED streamVars
    BY <1>1 DEF streamVars, StreamInv, StreamTypeOK, AckIsPrefix, HeldExactly
<1>2. ASSUME NEW i \in Stream, Arrive(i) PROVE StreamInv'
    <2>1. Buffered(buffer', StreamLength, arrived', delivered')
        <3>1. i \in 0 .. StreamLength - 1
            BY DEF Stream, InOrder!Stream
        <3>2. Buffered(buffer, StreamLength, arrived, delivered)
            BY StreamInvBuffered
        <3>3. Buffered(Insert(buffer, i, i).buffer, StreamLength, arrived \cup {i},
                       delivered \o Insert(buffer, i, i).ready)
            BY <3>1, <3>2, StreamAssumption, InsertKeeps
        <3> QED BY <1>2, <3>3 DEF Arrive
    <2>2. Buffered(buffer, StreamLength, arrived, delivered)'
        BY <2>1 DEF Buffered
    <2> QED BY <2>2, StreamInvBuffered, PTL
<1> QED BY <1>1, <1>2 DEF StreamNext

LEMMA StreamInvariance == StreamSpec => []StreamInv
PROOF BY StreamInvInit, StreamInvNext, PTL DEF StreamSpec

(* Every reachable buffer is well formed (reorder.go:16-21).               *)
THEOREM StreamTypeCorrect == StreamSpec => []StreamTypeOK
PROOF BY StreamInvariance, PTL DEF StreamInv

(* What has been delivered is the prefix of the stream up to the           *)
(* watermark, and the watermark is the first position that has not arrived *)
(* (reorder.go:57-67).                                                     *)
THEOREM AckAlwaysPrefix == StreamSpec => []AckIsPrefix
PROOF BY StreamInvariance, PTL DEF StreamInv

(* Every frame that arrived is either delivered or held, never both and    *)
(* never lost (reorder.go:45-55).                                          *)
THEOREM NothingLost == StreamSpec => []HeldExactly
PROOF BY StreamInvariance, PTL DEF StreamInv

(* The reorder buffer implements OrderedStream: out of frames that come in *)
(* any order and any number of times it makes exactly-once, in-order       *)
(* delivery, with no frame delivered later than it could be                *)
(* (reorder.go:5-15).                                                      *)
THEOREM BufferKeepsOrder == StreamSpec => KeepsOrder
PROOF
<1>1. StreamInit => InOrder!Init
    BY DEF StreamInit, InOrder!Init, InOrder!Prefix
<1>2. StreamInv /\ StreamInv' /\ [StreamNext]_streamVars => [InOrder!Next]_<<arrived, delivered>>
    <2> SUFFICES ASSUME StreamInv', [StreamNext]_streamVars
                 PROVE  [InOrder!Next]_<<arrived, delivered>>
        OBVIOUS
    <2>1. CASE UNCHANGED streamVars
        BY <2>1 DEF streamVars
    <2>2. ASSUME NEW i \in Stream, Arrive(i) PROVE InOrder!Next
        <3>1. arrived' = arrived \cup {i}
            BY <2>2 DEF Arrive
        <3>2. /\ buffer'.nextExpected \in 0 .. StreamLength
              /\ InOrder!Contiguous(arrived', buffer'.nextExpected)
              /\ delivered' = InOrder!Prefix(buffer'.nextExpected)
            BY DEF StreamInv, StreamTypeOK, AckIsPrefix
        <3>3. InOrder!Arrive(i)
            BY <3>1, <3>2 DEF InOrder!Arrive
        <3> QED BY <3>3 DEF InOrder!Next, Stream
    <2> QED BY <2>1, <2>2 DEF StreamNext
<1> QED BY <1>1, <1>2, StreamInvariance, PTL DEF StreamSpec, KeepsOrder, InOrder!Spec

-----------------------------------------------------------------------------
(* Receiver: a step of the composition is a step of the window or a        *)
(* stutter of it, and a step of the buffer or a stutter of it, so each     *)
(* half keeps the promise it was proved to keep alone.  ExactlyTheFresh    *)
(* needs the link between the two: the counters accepted under the current *)
(* key are those of the frames that arrived under it.                      *)
Linked ==
    /\ rekeyed \in Stream \cup {StreamLength}
    /\ key \in {1, 2}
    /\ guarded \in BOOLEAN /\ lost \in BOOLEAN
    /\ guarded => /\ accepted = {CounterOf(i) : i \in {j \in arrived : KeyOf(j) = key}}
                  /\ \A i \in arrived : KeyOf(i) <= key

ReceiverInv == IInv /\ StreamInv /\ Linked

(* A frame's counter restarts with its key and counts up with it           *)
(* (session.go:95-98, :119).                                               *)
LEMMA CounterInRange ==
    ASSUME NEW r \in Stream \cup {StreamLength}, rekeyed = r, NEW i \in Stream
    PROVE  CounterOf(i) \in Stream /\ CounterOf(i) \in Counters /\ KeyOf(i) \in {1, 2}
PROOF
<1>1. CounterOf(i) \in Stream
    BY StreamAssumption DEF CounterOf, Stream, InOrder!Stream
<1> QED BY <1>1, ReceiverAssumption DEF KeyOf

(* Each step is a step, or a stutter, of both halves (session.go:148-169). *)
LEMMA HalvesStep ==
    ASSUME Linked, [ReceiverNext]_receiverVars
    PROVE  [Next]_vars /\ [StreamNext]_streamVars
PROOF
<1>1. CASE UNCHANGED receiverVars
    BY <1>1 DEF receiverVars
<1>2. CASE CompleteHandshake
    BY <1>2 DEF CompleteHandshake, Next
<1>3. ASSUME NEW i \in Stream, DecodeIncoming(i)
      PROVE  [Next]_vars /\ [StreamNext]_streamVars
    <2>1. CASE DecodeError(i)
        BY <2>1 DEF DecodeError, Drop
    <2>2. CASE Decode(i)
        <3>1. CounterOf(i) \in Counters
            BY CounterInRange DEF Linked
        <3> QED BY <2>2, <3>1 DEF Decode, Drop, Next, StreamNext
    <2>3. CASE InsertUnchecked(i)
        BY <2>3 DEF InsertUnchecked, StreamNext
    <2> QED BY <1>3, <2>1, <2>2, <2>3 DEF DecodeIncoming
<1> QED BY <1>1, <1>2, <1>3 DEF ReceiverNext

LEMMA LinkedInit == ReceiverInit => Linked
PROOF BY DEF ReceiverInit, Init, StreamInit, Linked

LEMMA LinkedNext ==
    ASSUME Linked, [ReceiverNext]_receiverVars
    PROVE  Linked'
PROOF
<1>1. CASE UNCHANGED receiverVars
    BY <1>1 DEF receiverVars, vars, streamVars, Linked, KeyOf, CounterOf
<1>2. CASE CompleteHandshake
    <2>1. /\ accepted' = {} /\ key = 1 /\ key' = 2
          /\ UNCHANGED <<arrived, guarded, rekeyed, lost>>
        BY <1>2 DEF CompleteHandshake, Rotate, streamVars
    <2>2. ASSUME guarded, NEW i \in arrived PROVE KeyOf(i) = 1
        BY <2>1, <2>2 DEF Linked, KeyOf
    <2> QED BY <2>1, <2>2 DEF Linked, KeyOf, CounterOf
<1>3. ASSUME NEW i \in Stream, DecodeIncoming(i) PROVE Linked'
    <2>1. UNCHANGED <<guarded, rekeyed, key>>
        BY <1>3 DEF DecodeIncoming, DecodeError, Decode, InsertUnchecked
    <2>2. lost' \in BOOLEAN
        BY <1>3 DEF DecodeIncoming, DecodeError, Decode, InsertUnchecked, Drop, Linked
    <2>3. CASE UNCHANGED <<accepted, arrived>>
        BY <2>1, <2>2, <2>3 DEF Linked, KeyOf, CounterOf
    <2>4. CASE /\ KeyOf(i) = key
               /\ accepted' = accepted \cup {CounterOf(i)}
               /\ arrived' = arrived \cup {i}
        BY <2>1, <2>2, <2>4 DEF Linked, KeyOf, CounterOf
    <2>5. CASE ~guarded
        BY <2>1, <2>2, <2>5 DEF Linked
    <2>6. CASE guarded
        BY <1>3, <2>3, <2>4, <2>6
        DEF DecodeIncoming, DecodeError, Decode, InsertUnchecked, Drop, Check, Arrive,
            vars, streamVars
    <2> QED BY <2>5, <2>6 DEF Linked
<1> QED BY <1>1, <1>2, <1>3 DEF ReceiverNext

LEMMA ReceiverInvariance == ReceiverSpec => []ReceiverInv
PROOF
<1>1. ReceiverInit => ReceiverInv
    BY InvInit, StreamInvInit, LinkedInit DEF ReceiverInit, ReceiverInv
<1>2. ReceiverInv /\ [ReceiverNext]_receiverVars => ReceiverInv'
    BY HalvesStep, InvNext, StreamInvNext, LinkedNext DEF ReceiverInv
<1> QED BY <1>1, <1>2, PTL DEF ReceiverSpec

(* The composed receiver's state is well formed (session.go:43-68).        *)
THEOREM ReceiverTypeCorrect == ReceiverSpec => []ReceiverTypeOK
PROOF
<1>1. ReceiverInv => ReceiverTypeOK
    BY DEF ReceiverInv, IInv, StreamInv, Linked, ReceiverTypeOK
<1> QED BY <1>1, ReceiverInvariance, PTL

(* The counters of two frames of one key lie as far apart as the frames.   *)
LEMMA SameKeyDistance ==
    ASSUME Linked, NEW i \in Stream, NEW j \in Stream, KeyOf(i) = KeyOf(j)
    PROVE  /\ CounterOf(i) \in Int /\ CounterOf(j) \in Int
           /\ CounterOf(j) - CounterOf(i) = j - i
PROOF
<1>1. /\ i \in Int /\ j \in Int /\ rekeyed \in Int
      /\ i < rekeyed <=> j < rekeyed
    BY StreamAssumption DEF Linked, Stream, InOrder!Stream, KeyOf
<1> QED BY <1>1 DEF CounterOf

(* The window's verdict on a frame of the current key, in the stream's own *)
(* terms, through any rotation (session.go:152-165, :95-98).               *)
THEOREM AlwaysExactlyTheFresh == ReceiverSpec => []ExactlyTheFresh
PROOF
<1>1. ASSUME ReceiverInv, guarded, NEW i \in Stream, KeyOf(i) = key
      PROVE  Acceptable(window, CounterOf(i)) <=>
                 /\ i \notin arrived
                 /\ \A j \in arrived : KeyOf(j) = key => j - i < WindowSize
    <2> DEFINE mine == {j \in arrived : KeyOf(j) = key}
    <2>1. /\ mine \subseteq Stream
          /\ \A c : c \in accepted <=> \E j \in mine : c = CounterOf(j)
        BY <1>1 DEF ReceiverInv, Linked, StreamInv, StreamTypeOK
    <2>2. /\ CounterOf(i) \in Counters
          /\ \A j \in mine : /\ CounterOf(j) - CounterOf(i) = j - i
                             /\ CounterOf(i) \in Int /\ CounterOf(j) \in Int
                             /\ i \in Int /\ j \in Int
        BY <1>1, <2>1, CounterInRange, SameKeyDistance, StreamAssumption
        DEF ReceiverInv, Linked, Stream, InOrder!Stream
    <2>3. CounterOf(i) \in accepted <=> i \in mine
        <3>1. ASSUME NEW j \in mine, CounterOf(i) = CounterOf(j) PROVE i = j
            BY <2>2, <3>1
        <3> QED BY <2>1, <3>1
    <2>4. i \in mine <=> i \in arrived
        BY <1>1
    <2>5. Promise!TooOld(CounterOf(i)) <=> \E j \in mine : j - i >= WindowSize
        <3> HIDE DEF mine
        <3> QED BY <2>1, <2>2 DEF Promise!TooOld
    <2>6. \A j \in mine : j - i >= WindowSize <=> ~(j - i < WindowSize)
        BY <2>2, WindowAssumption
    <2> QED BY <1>1, <2>2, <2>3, <2>4, <2>5, <2>6, AcceptableExact DEF ReceiverInv
<1>2. ReceiverInv => ExactlyTheFresh
    BY <1>1 DEF ExactlyTheFresh
<1> QED BY <1>2, ReceiverInvariance, PTL

(* The buffer holds nothing back: when every frame has arrived, the whole  *)
(* stream has been delivered, in order, through any rotation               *)
(* (reorder.go:57-67).                                                     *)
THEOREM AllArrivedAllDelivered ==
    ReceiverSpec => [](arrived = Stream => delivered = InOrder!Prefix(StreamLength))
PROOF
<1>1. ASSUME ReceiverInv, arrived = Stream PROVE delivered = InOrder!Prefix(StreamLength)
    <2>1. buffer.nextExpected \in 0 .. StreamLength /\ AckIsPrefix
        BY <1>1 DEF ReceiverInv, StreamInv, StreamTypeOK
    <2>2. buffer.nextExpected \notin 0 .. StreamLength - 1
        BY <1>1, <2>1 DEF AckIsPrefix, InOrder!Contiguous, Stream, InOrder!Stream
    <2>3. buffer.nextExpected = StreamLength
        BY <2>1, <2>2, StreamAssumption
    <2> QED BY <2>1, <2>3 DEF AckIsPrefix
<1>2. ReceiverInv => (arrived = Stream => delivered = InOrder!Prefix(StreamLength))
    BY <1>1
<1> QED BY <1>2, ReceiverInvariance, PTL

(* Composed, with the frames of two keys in any order and any number of    *)
(* times, the window still implements AntiReplay and the buffer still      *)
(* implements OrderedStream (replay.go:13-15, reorder.go:5-15).            *)
THEOREM ReceiverKeepsBoth == ReceiverSpec => KeepsPromise /\ KeepsOrder
PROOF
<1>1. ReceiverInit => Init /\ StreamInit
    BY DEF ReceiverInit
<1>2. ReceiverInv /\ [ReceiverNext]_receiverVars => [Next]_vars /\ [StreamNext]_streamVars
    BY HalvesStep DEF ReceiverInv
<1>3. ReceiverSpec => Spec /\ StreamSpec
    BY <1>1, <1>2, ReceiverInvariance, PTL DEF ReceiverSpec, Spec, StreamSpec
<1> QED BY <1>3, WindowKeepsPromise, BufferKeepsOrder, PTL
=============================================================================
