------------------------------ MODULE MCProxy ------------------------------
(* Model-checking instance of Proxy: two session slots, two members, one  *)
(* clone, buffers of two bytes so that partial reads, partial writes and  *)
(* full buffers all occur.                                                 *)
EXTENDS Proxy

MCSessions == {"s1", "s2"}
CONSTANTS m1, m2
MCMembers == {m1, m2}
MCClones == {"c1"}

(* Members are interchangeable to the selection contract Proxy models.     *)
MCMemberSymmetry == Permutations(MCMembers)

(* Double releases grow the free queue and re-accepting a live slot       *)
(* orphans its client socket; both are bounded here.                       *)
MCBound == Len(pool) <= Cardinality(Sessions) + 1 /\ leaked <= MaxLeaked

(* Runs that ask about the rest of the data plane explore the behaviours  *)
(* in which no slot has been released twice; MCReleasedTwice asks about   *)
(* that on its own.                                                        *)
MCSingleRelease == MCBound /\ IsInjective(pool)
====
