----------------------------- MODULE ReorderSpec ----------------------------
(***************************************************************************)
(* A receiver that inserts the frames of one stream into its               *)
(* ReorderBuffer.  The frame at position i of the stream carries sequence  *)
(* number i (NextSendSequence counts from 0) and the payload i; frames     *)
(* arrive in any order, each any number of times.  Insert holds the        *)
(* buffer's mutex, so one call is one step.  `arrived' and `delivered' are *)
(* history: the positions inserted, and what the calls returned.           *)
(***************************************************************************)
EXTENDS ReorderBuffer, Sequences

CONSTANT StreamLength   \* frames in the stream

(* The stream ends before the sequence numbers wrap.                       *)
ASSUME StreamAssumption == StreamLength \in Nat /\ StreamLength < SeqSpace

VARIABLES buffer, arrived, delivered

streamVars == <<buffer, arrived, delivered>>

InOrder == INSTANCE OrderedStream
    WITH StreamLength <- StreamLength, arrived <- arrived, delivered <- delivered

Stream == InOrder!Stream

StreamInit ==
    /\ buffer = NewReorderBuffer(0)
    /\ arrived = {}
    /\ delivered = << >>

Arrive(i) ==
    LET result == Insert(buffer, i, i) IN
    /\ buffer' = result.buffer
    /\ delivered' = delivered \o result.ready
    /\ arrived' = arrived \cup {i}

StreamNext == \E i \in Stream : Arrive(i)

StreamSpec == StreamInit /\ [][StreamNext]_streamVars

-----------------------------------------------------------------------------
(* The buffer is well formed and the history ranges over the stream        *)
(* (reorder.go:16-21).                                                     *)
StreamTypeOK ==
    /\ buffer.nextExpected \in 0 .. StreamLength
    /\ DOMAIN buffer.pending \subseteq Stream
    /\ arrived \in SUBSET Stream
    /\ delivered \in Seq(Stream)

(* nextExpected, the value meant as the cumulative ack, is the number of   *)
(* payloads delivered, and they are the stream's prefix (reorder.go:57-67  *)
(* and :80-86).                                                            *)
AckIsPrefix ==
    /\ delivered = InOrder!Prefix(buffer.nextExpected)
    /\ InOrder!Contiguous(arrived, buffer.nextExpected)

(* Nothing that arrived is lost or kept twice: past the watermark it is    *)
(* held under its own number, and nothing else is (reorder.go:45-55).      *)
HeldExactly ==
    /\ DOMAIN buffer.pending = {i \in arrived : i >= buffer.nextExpected}
    /\ \A i \in DOMAIN buffer.pending : buffer.pending[i] = i

(* The buffer keeps the promise of OrderedStream: exactly-once, in-order   *)
(* delivery, without delay, of what has arrived (reorder.go:5-15).         *)
KeepsOrder == InOrder!Spec
=============================================================================
