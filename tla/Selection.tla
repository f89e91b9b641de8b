----------------------------- MODULE Selection -----------------------------
(***************************************************************************)
(* Backend selection of octopus-server (src/algorithms.c): the candidate   *)
(* filter and cursor repair of get_available_servers, the round robin,     *)
(* least connections, least load, static hash and sticky URI hash choices, *)
(* and the connection counts the choices read.                             *)
(*                                                                         *)
(* choose_server runs atomically in the event loop.  Everything else that *)
(* writes what it reads is the environment here: sessions ending          *)
(* (disconnect_member / disconnect_clone), and the admin tool and monitor  *)
(* enabling, failing and putting servers on standby.  A request is the    *)
(* hash slot its URI reduces to, or NoURI for a first line with no URI.    *)
(***************************************************************************)
EXTENDS Naturals, Sequences, FiniteSets, SequencesExt

CONSTANTS
  NMembers,      \* balancer->nmembers
  NClones,       \* balancer->nclones
  MaxC,          \* SERVER.maxc of every server
  Load,          \* SERVER.load of each server (from SNMP), fixed here
  SessionWeight, \* balancer->session_weight
  Algorithms,    \* the algorithms the configuration and cmd_algorithm may set
  CloneMode,     \* balancer->clone_mode = CLONE_MODE_ON
  Hashes,        \* the hash-table slots the requests reduce to
  NoURI,         \* a request whose first line has no URI
  StandbyKinds   \* the server kinds the admin tool may put on standby

ASSUME /\ NMembers \in Nat \ {0} /\ NClones \in Nat
       /\ MaxC \in Nat \ {0}
       /\ SessionWeight \in Nat
       /\ Algorithms \subseteq {"RR", "LC", "LL", "HASH", "STATIC"} /\ Algorithms # {}
       /\ CloneMode \in BOOLEAN
       /\ Hashes \subseteq Nat /\ NoURI \notin Hashes
       /\ StandbyKinds \subseteq {"member", "clone"}

Mem == 0..NMembers-1
Clo == 0..NClones-1
FREE == -1   \* HASH_VAL_FREE

VARIABLES
  next_member, next_clone,  \* the round-robin cursors
  hash_table,               \* balancer->hash_table, on the slots in Hashes
  usage,                    \* members[i].hash_table_usage
  enabled,                  \* status = SERVER_STATE_ENABLED, per kind
  standby,                  \* standby_state = STANDBY_STATE_TRUE, per kind
  c,                        \* SERVER.c, per kind
  algorithm                 \* balancer->algorithm

vars == <<next_member, next_clone, hash_table, usage, enabled, standby, c, algorithm>>

Idx == [member |-> Mem, clone |-> Clo]

ASSUME \A k \in {"member", "clone"} : \A i \in Idx[k] : Load[k][i] \in Nat

(* The candidate lists of get_available_servers, in index order. *)
Normal(k) == {i \in Idx[k] : c[k][i] < MaxC /\ enabled[k][i] /\ ~standby[k][i]}
Relaxed(k) == {i \in Idx[k] : c[k][i] < MaxC /\ enabled[k][i]}
Avail(k) == SetToSortSeq(IF Normal(k) # {} THEN Normal(k) ELSE Relaxed(k), <)

(* verify_server: -1 invalid, 1 a valid standby, 0 valid. *)
verify_server(k, i) ==
  IF ~enabled[k][i] \/ c[k][i] >= MaxC THEN -1
  ELSE IF standby[k][i] THEN 1 ELSE 0

(* Variant of get_available_servers that keeps a standby member cursor   *)
(* while normal members are available.                                    *)
get_available_servers_keep_standby ==
  LET am  == Avail("member")
      ac  == Avail("clone")
      ums == Normal("member") = {}
      vm  == verify_server("member", next_member)
      nm  == IF vm = -1 THEN am[1] ELSE next_member
      uc  == CloneMode /\ ac # <<>>
      vc  == IF uc THEN verify_server("clone", next_clone) ELSE 0
      nc  == IF vc = -1 THEN ac[1] ELSE next_clone
  IN [am |-> am, ac |-> ac, ums |-> ums, uc |-> uc, nc |-> nc,
      nm |-> IF vc = 1 /\ ~ums THEN am[1] ELSE nm,
      table |-> hash_table, usage |-> usage]

(* The globals get_available_servers leaves for the algorithms: the two  *)
(* lists, using_member_standby, use_clone and the repaired cursors; the   *)
(* record also carries the hash table and its usage counts.               *)
get_available_servers ==
  LET am  == Avail("member")
      ac  == Avail("clone")
      ums == Normal("member") = {}
      vm  == verify_server("member", next_member)
      nm  == IF vm = -1 \/ (vm = 1 /\ ~ums) THEN am[1] ELSE next_member
      uc  == CloneMode /\ ac # <<>>
      vc  == IF uc THEN verify_server("clone", next_clone) ELSE 0
      nc  == IF vc = -1 THEN ac[1] ELSE next_clone
  IN [am |-> am, ac |-> ac, ums |-> ums, uc |-> uc, nc |-> nc,
      nm |-> IF vc = 1 /\ ~ums THEN am[1] ELSE nm,
      table |-> hash_table, usage |-> usage]

(* Variant of the cursor advance that does not wrap from the last entry.  *)
RotateNoWrap(list, cur) ==
  LET at == SelectInSeq(list, LAMBDA x : x = cur)
  IN IF at = 0 \/ at = Len(list) THEN cur ELSE list[at + 1]

(* set_rr_server: advance a cursor found in the list to the next entry.   *)
Rotate(list, cur) ==
  LET at == SelectInSeq(list, LAMBDA x : x = cur)
  IN IF at = 0 THEN cur ELSE list[(at % Len(list)) + 1]

(* Variant of the scan that starts at the second candidate. *)
LowestSkipFirst(list, cur, key) ==
  FoldLeft(LAMBDA best, cand : IF key[cand] < key[best] THEN cand ELSE best,
           cur, Tail(list))

(* The scan of set_lc_server and set_ll_server: a candidate replaces the  *)
(* current choice when its key is strictly lower.                          *)
Lowest(list, cur, key) ==
  FoldLeft(LAMBDA best, cand : IF key[cand] < key[best] THEN cand ELSE best,
           cur, list)

set_rr_server(g) ==
  [g EXCEPT !.nm = Rotate(g.am, g.nm),
            !.nc = IF g.uc THEN Rotate(g.ac, g.nc) ELSE @]

(* Variant of set_lc_server whose scans skip the first candidate. *)
set_lc_server_skip_first(g) ==
  LET r == set_rr_server(g)
  IN [r EXCEPT !.nm = LowestSkipFirst(r.am, r.nm, c["member"]),
               !.nc = IF r.uc THEN LowestSkipFirst(r.ac, r.nc, c["clone"]) ELSE @]

set_lc_server(g) ==
  LET r == set_rr_server(g)
  IN [r EXCEPT !.nm = Lowest(r.am, r.nm, c["member"]),
               !.nc = IF r.uc THEN Lowest(r.ac, r.nc, c["clone"]) ELSE @]

(* Variant of set_ll_server that ranks members by connections alone. *)
set_ll_server_conn_only(g) ==
  [g EXCEPT !.nm = Lowest(g.am, g.nm, [i \in Mem |-> c["member"][i] * SessionWeight])]

set_ll_server(g) ==
  LET key(k) == [i \in Idx[k] |-> Load[k][i] + c[k][i] * SessionWeight]
  IN [g EXCEPT !.nm = Lowest(g.am, g.nm, key("member")),
               !.nc = IF g.uc THEN Lowest(g.ac, g.nc, key("clone")) ELSE @]

(* set_static_server with the request's hash h. *)
set_static_server(g, h) ==
  IF h = NoURI THEN set_lc_server(g)
  ELSE [g EXCEPT !.nm = g.am[(h % Len(g.am)) + 1],
                 !.nc = IF g.uc THEN g.ac[(h % Len(g.ac)) + 1] ELSE @]
(* Variant of set_hash_server that re-assigns a slot without taking it   *)
(* off the old member's usage.                                             *)
set_hash_server_no_release(g, h) ==
  IF h = NoURI THEN set_lc_server(g)
  ELSE IF hash_table[h] # FREE
  THEN LET cand == hash_table[h]
           st   == verify_server("member", cand)
       IN IF st = 0 \/ (st = 1 /\ g.ums)
          THEN [g EXCEPT !.nm = cand,
                         !.nc = IF g.uc THEN g.ac[(h % Len(g.ac)) + 1] ELSE @]
          ELSE LET r == set_lc_server(g)
               IN [r EXCEPT !.usage[r.nm] = @ + 1, !.table[h] = r.nm]
  ELSE LET r == set_lc_server(g)
       IN [r EXCEPT !.table[h] = r.nm, !.usage[r.nm] = @ + 1]

(* set_hash_server with the request's hash h: a hit on a valid member (or *)
(* on a standby when only standbys are left) is followed; a hit on any    *)
(* other member moves the slot to the least connected member; a miss      *)
(* assigns the slot the least connected member.  Both update the          *)
(* hash_table_usage counts.                                                *)
set_hash_server(g, h) ==
  IF h = NoURI THEN set_lc_server(g)
  ELSE IF hash_table[h] # FREE
  THEN LET cand == hash_table[h]
           st   == verify_server("member", cand)
       IN IF st = 0 \/ (st = 1 /\ g.ums)
          THEN [g EXCEPT !.nm = cand,
                         !.nc = IF g.uc THEN g.ac[(h % Len(g.ac)) + 1] ELSE @]
          ELSE LET r == set_lc_server(g)
               IN [r EXCEPT !.usage[cand] = @ - 1, !.usage[r.nm] = @ + 1, !.table[h] = r.nm]
  ELSE LET r == set_lc_server(g)
       IN [r EXCEPT !.table[h] = r.nm, !.usage[r.nm] = @ + 1]

(* The algorithm switch of choose_server. *)
Algorithmic(g, h) ==
  CASE algorithm = "RR" -> set_rr_server(g)
    [] algorithm = "LC" -> set_lc_server(g)
    [] algorithm = "LL" -> set_ll_server(g)
    [] algorithm = "STATIC" -> set_static_server(g, h)
    [] algorithm = "HASH" -> set_hash_server(g, h)

Requests == IF algorithm \in {"HASH", "STATIC"} THEN Hashes \cup {NoURI} ELSE {NoURI}

Init ==
  /\ next_member = 0
  /\ next_clone = 0
  /\ hash_table = [h \in Hashes |-> FREE]
  /\ usage = [i \in Mem |-> 0]
  /\ enabled = [k \in {"member", "clone"} |-> [i \in Idx[k] |-> TRUE]]
  /\ standby = [k \in {"member", "clone"} |-> [i \in Idx[k] |-> FALSE]]
  /\ c = [k \in {"member", "clone"} |-> [i \in Idx[k] |-> 0]]
  /\ algorithm \in Algorithms

(* choose_server for a request h, with the outcome of connect_server:     *)
(* each leg that connects adds one to its server's c.  No member          *)
(* available: choose_server returns -1 before touching any of this state. *)
choose_server(h) ==
  /\ Relaxed("member") # {}
  /\ LET g == Algorithmic(get_available_servers, h)
     IN /\ next_member' = g.nm
        /\ next_clone' = g.nc
        /\ hash_table' = g.table
        /\ usage' = g.usage
        /\ \E mok, cok \in BOOLEAN :
             LET c1 == IF mok THEN [c EXCEPT !["member"][g.nm] = @ + 1] ELSE c
             IN c' = IF mok /\ cok /\ g.uc THEN [c1 EXCEPT !["clone"][g.nc] = @ + 1] ELSE c1
  /\ UNCHANGED <<enabled, standby, algorithm>>

(* Variant of EndSession without the c > 0 guard. *)
EndSessionUnguarded(k, i) ==
  /\ c' = [c EXCEPT ![k][i] = @ - 1]
  /\ UNCHANGED <<next_member, next_clone, hash_table, usage, enabled, standby, algorithm>>

(* disconnect_member / disconnect_clone of some session on server i. *)
EndSession(k, i) ==
  /\ c[k][i] > 0
  /\ c' = [c EXCEPT ![k][i] = @ - 1]
  /\ UNCHANGED <<next_member, next_clone, hash_table, usage, enabled, standby, algorithm>>

(* cmd_enable / cmd_disable of the admin tool, and check_server_state    *)
(* setting ENABLED or FAILED; only enabled-ness matters to selection.    *)
SetEnabled(k, i, b) ==
  /\ enabled' = [enabled EXCEPT ![k][i] = b]
  /\ UNCHANGED <<next_member, next_clone, hash_table, usage, standby, c, algorithm>>

(* cmd_standby: toggle standby_state. *)
SetStandby(k, i) ==
  /\ k \in StandbyKinds
  /\ standby' = [standby EXCEPT ![k][i] = ~@]
  /\ UNCHANGED <<next_member, next_clone, hash_table, usage, enabled, c, algorithm>>

(* cmd_algorithm: switch the running algorithm; the cursors, the hash    *)
(* table and its usage counts are left as they are.                      *)
cmd_algorithm(a) ==
  /\ algorithm' = a
  /\ UNCHANGED <<next_member, next_clone, hash_table, usage, enabled, standby, c>>

Next ==
  \/ \E h \in Requests : choose_server(h)
  \/ \E a \in Algorithms : cmd_algorithm(a)
  \/ \E k \in {"member", "clone"} : \E i \in Idx[k], b \in BOOLEAN :
       \/ EndSession(k, i)
       \/ SetEnabled(k, i, b)
       \/ SetStandby(k, i)

Spec == Init /\ [][Next]_vars

(***************************************************************************)
(* Properties.  Each Choice property is about a choose_server step: the   *)
(* chosen server is judged in the state the step starts from.             *)
(***************************************************************************)

TypeOK ==
  /\ next_member \in Mem /\ next_clone \in Clo \cup {0}
  /\ hash_table \in [Hashes -> Mem \cup {FREE}]
  /\ usage \in [Mem -> Int]
  /\ \A k \in {"member", "clone"} :
       /\ enabled[k] \in [Idx[k] -> BOOLEAN] /\ standby[k] \in [Idx[k] -> BOOLEAN]
       /\ c[k] \in [Idx[k] -> 0..MaxC]

Choice == \E h \in Requests : choose_server(h)

(* A server the step may choose: enabled, under maxc, and a standby only  *)
(* when no enabled non-standby server of its kind has room.                *)
Admissible(k, i) ==
  /\ i \in Relaxed(k)
  /\ standby[k][i] => Normal(k) = {}

(* choose_server only ever directs a session to an admissible member,     *)
(* whatever the cursor was left pointing at by earlier choices and by     *)
(* the admin tool and monitor changing servers in between.                 *)
MemberChoiceValid == [][Choice => Admissible("member", next_member')]_vars

(* Round robin never picks the same member twice running while two or    *)
(* more members are admissible: set_rr_server moves the cursor to the     *)
(* entry after it in the candidate list.                                    *)
RoundRobinRotates ==
  [][Choice /\ algorithm = "RR" /\ Len(Avail("member")) >= 2 => next_member' # next_member]_vars

(* Least connections picks a member with no more connections than any    *)
(* other candidate.                                                        *)
LeastConnections ==
  [][Choice /\ algorithm = "LC" => \A i \in Relaxed("member") :
                 Admissible("member", i) => c["member"][next_member'] <= c["member"][i]]_vars

(* Least load picks a member whose SNMP load plus weighted connections is *)
(* no more than any other candidate's.                                     *)
LLKey(i) == Load["member"][i] + c["member"][i] * SessionWeight
LeastLoad ==
  [][Choice /\ algorithm = "LL" => \A i \in Relaxed("member") :
                 Admissible("member", i) => LLKey(next_member') <= LLKey(i)]_vars

(* hash_table_usage of each member counts the slots of the sticky hash    *)
(* table that route to it, through misses, re-assignments away from       *)
(* failed or standby members, and hits.                                    *)
UsageMatchesTable ==
  \A i \in Mem : usage[i] = Cardinality({h \in Hashes : hash_table[h] = i})
=============================================================================
