----------------------------- MODULE MCReceiver -----------------------------
(* Receiver on a 3-counter window in a 4-bit bitmap and a stream of eight  *)
(* frames, one less than the sequence space: counters reach past both      *)
(* edges of the window, with the rotation before any frame.                *)
EXTENDS Receiver

MCCounters == 0 .. 7
=============================================================================
