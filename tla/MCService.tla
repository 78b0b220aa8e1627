------------------------------ MODULE MCService -----------------------------
(* Service with five taps, two revocations and one death of the process or *)
(* of the Activity: enough for off and on again, twice, in any hurry.      *)
EXTENDS Service
=============================================================================
