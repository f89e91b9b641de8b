---------------------------- MODULE MCRegistry ----------------------------
(* Model-checking instance of Registry: three member slots, two of them   *)
(* configured, so that a slot can be reaped in the middle of the array    *)
(* and at its end, and a deleted slot can be created again.               *)
EXTENDS Registry

MCLoad == [i \in 0..2 |-> 0]

(* Bound on the sessions held at once, which the loop can only exceed     *)
(* after a slot's count was reset under its sessions.                     *)
MaxSessions == 2
MCBound == \A i \in Slots : sessions[i] <= MaxSessions
=============================================================================
