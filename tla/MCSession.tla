------------------------------ MODULE MCSession -----------------------------
(* Session with two threads on each side of the session, two handshakes    *)
(* (so one reconnect) and a window as small as the peer's stream allows.   *)
EXTENDS Session, TLC

CONSTANTS s1, s2, r1, r2

Threads == Permutations({s1, s2}) \cup Permutations({r1, r2})
=============================================================================
