---------------------------- MODULE MCCongestion ----------------------------
(* Congestion with the default windows, blocks in units of one kibibyte    *)
(* and a half, short streaks, and round trips of few lengths.              *)
EXTENDS Congestion
=============================================================================
