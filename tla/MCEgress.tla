------------------------------- MODULE MCEgress -----------------------------
(* Egress with two push handlers and a stream of four payloads, each of    *)
(* them a CONNECT or data (the first a CONNECT), so two connections can    *)
(* overlap and a third dial can follow.                                    *)
EXTENDS Egress
=============================================================================
