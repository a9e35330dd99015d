------------------------------ MODULE MCGpsdo ------------------------------
(* Gains for the runs of Gpsdo: the loop frozen, so that the measurement   *)
(* side is explored alone, and the loop running.                           *)
EXTENDS Gpsdo

Frozen == NoGains
Stable == [P |-> 1, I |-> 1, D |-> 0]
Fast == [P |-> 3, I |-> 2, D |-> 0]
=============================================================================
