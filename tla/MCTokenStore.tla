---------------------------- MODULE MCTokenStore ----------------------------
(* TokenStore with two devices that contend for one token over a few ticks *)
(* and one revocation: long enough for a binding to expire twice, for the  *)
(* first device to win it back, and for a Touch to come late.              *)
EXTENDS TokenStore
=============================================================================
