------------------------------ MODULE FreePool ------------------------------
(* What the free-session pool promises (the specification's acquire and    *)
(* release): every session is either in use or free, acquire hands out a  *)
(* free session and fails only when none is free, release returns a       *)
(* session that was in use.                                                *)
CONSTANT Sessions
VARIABLES free, inUse

TypeOK == free \subseteq Sessions /\ inUse \subseteq Sessions

Init == free = Sessions /\ inUse = {}

Acquire(s) == s \in free /\ free' = free \ {s} /\ inUse' = inUse \cup {s}

(* acquire fails fast, and only when the pool is empty *)
Reject == free = {} /\ UNCHANGED <<free, inUse>>

Release(s) == s \in inUse /\ inUse' = inUse \ {s} /\ free' = free \cup {s}

Next == \E s \in Sessions : Acquire(s) \/ Release(s)

Spec == Init /\ [][Next \/ Reject]_<<free, inUse>>
=============================================================================
