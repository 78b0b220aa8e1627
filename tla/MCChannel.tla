------------------------------ MODULE MCChannel -----------------------------
(* Channel with two pushed payloads, two queued payloads per server        *)
(* session and at most three handshakes, and a replay window of two        *)
(* counters.  MCChannel.cfg adds two failed calls and a restart;           *)
(* MCChannelReconnect.cfg has neither.                                     *)
EXTENDS Channel
=============================================================================
