---------------------------- MODULE MCSelection ----------------------------
(* Model-checking instance of Selection: three members so that rotation   *)
(* and the "entry after" of set_rr_server are visible; the cfgs choose   *)
(* the clone count, maxc and the algorithm.                               *)
EXTENDS Selection

MCLoad == [k \in {"member", "clone"} |-> [i \in 0..2 |-> i % 2]]

(* Connection counts are capped by maxc; the cursors and table are finite. *)
====
