--------------------------- MODULE ReorderBuffer ----------------------------
(***************************************************************************)
(* The reorder buffer of transport/reorder.go, as operators on a buffer    *)
(* value.  `pending' maps the sequence numbers held back to their          *)
(* payloads.  The field `started' is left out: the only constructor sets   *)
(* it, so the branch that tests it is never taken.                         *)
(***************************************************************************)
EXTENDS Integers

CONSTANT SeqSpace       \* how many sequence numbers there are (2^32: uint32)

ASSUME SeqSpaceAssumption == SeqSpace \in Nat \ {0}

Seqs == 0 .. SeqSpace - 1

NoPending == [s \in {} |-> 0]

NewReorderBuffer(start) == [nextExpected |-> start, pending |-> NoPending]

(* Mutants: the watermark is not tested; the awaited number is behind it.  *)
Duplicate_HeldOnly(r, s) == s \in DOMAIN r.pending
Duplicate_OffByOne(r, s) == s <= r.nextExpected \/ s \in DOMAIN r.pending

(* Behind the watermark, or already held back: a duplicate.                *)
Duplicate(r, s) == s < r.nextExpected \/ s \in DOMAIN r.pending

Store(pending, s, payload) ==
    [t \in DOMAIN pending \cup {s} |-> IF t = s THEN payload ELSE pending[t]]

(* Mutant: one payload is flushed, not the whole run.                      *)
RunEnd_NoLoop(pending, n) == IF n \in DOMAIN pending THEN n + 1 ELSE n

(* Where the flush loop stops: the first number from n on that is not      *)
(* held.  The loop cannot run past the last number, because nothing below  *)
(* n is ever held.                                                         *)
RunEnd(pending, n) ==
    CHOOSE m \in n .. SeqSpace :
        m \notin DOMAIN pending /\ \A t \in n .. m - 1 : t \in DOMAIN pending

Uint32(n) == IF n = SeqSpace THEN 0 ELSE n      \* n++ wraps to 0

(* The buffer and the payloads Insert returns, when it stores the payload. *)
Flush(pending, n) ==
    LET end == RunEnd(pending, n) IN
    [buffer |-> [nextExpected |-> Uint32(end),
                 pending |-> [t \in DOMAIN pending \ (n .. end - 1) |-> pending[t]]],
     ready  |-> [i \in 1 .. end - n |-> pending[n + i - 1]]]

Insert(r, s, payload) ==
    IF Duplicate(r, s)
    THEN [buffer |-> r, ready |-> << >>]
    ELSE Flush(Store(r.pending, s, payload), r.nextExpected)
=============================================================================
