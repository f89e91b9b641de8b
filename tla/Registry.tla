----------------------------- MODULE Registry -----------------------------
(***************************************************************************)
(* The shared backend registry of octopus-server and the three processes  *)
(* that write it without a lock:                                           *)
(*   - the event loop, choosing a member under LC or HASH (set_lc_server  *)
(*     and set_hash_server of src/algorithms.c, taken from Selection),    *)
(*     connecting to it (connect_server), and ending sessions             *)
(*     (disconnect_member).  The loop calls choose_server only under     *)
(*     algorithms other than HASH and STATIC (src/octopus.c:232), so the  *)
(*     HASH actions below are the code as written, not reached from it;   *)
(*   - the monitor process (src/monitor.c): handle_delete_servers,        *)
(*     check_server_state and rebalance_hash;                              *)
(*   - the admin tool (src/admin.c): create, delete, enable, disable and  *)
(*     standby.                                                            *)
(* Each process's steps are atomic, and the processes interleave between *)
(* them.  The loop's choice is split where it reads the registry and      *)
(* later writes what it read: the hash lookup and the usage update, and   *)
(* the choice and the connection count.  The monitor's probe is split at  *)
(* its connect-and-select wait (up to connect_timeout seconds).  Only     *)
(* member servers are modelled; the monitor and admin treat clones alike. *)
(***************************************************************************)
EXTENDS Naturals, FiniteSets, SequencesExt

CONSTANTS
  NSlots,        \* MAXSERVERS: slots of balancer->members
  NInit,         \* members created from the configuration file
  MaxC,          \* SERVER.maxc of every server
  Load,          \* SERVER.load of each slot, for the Selection instance
  Hashes,        \* the hash-table slots the requests reduce to
  NoURI,         \* a request whose first line has no URI
  Algorithm      \* balancer->algorithm: "LC" or "HASH"

ASSUME /\ NSlots \in Nat \ {0} /\ NInit \in 1..NSlots
       /\ MaxC \in Nat \ {0}
       /\ Hashes \subseteq Nat /\ NoURI \notin Hashes
       /\ Algorithm \in {"LC", "HASH"}

Slots == 0..NSlots-1
States == {"FREE", "DELETED", "FAILED", "DISABLED", "ENABLED"}  \* SERVER_STATE_*
USHRT == 65536   \* hash_table_usage is an unsigned short

VARIABLES
  status,      \* members[i].status
  standby,     \* members[i].standby_state = STANDBY_STATE_TRUE
  c,           \* members[i].c
  usage,       \* members[i].hash_table_usage
  hash_table,  \* balancer->hash_table on the slots in Hashes
  nmembers,    \* balancer->nmembers
  next_member, \* the loop's member cursor
  sessions,    \* live member legs per slot (the sessions' member pointers)
  loop,        \* where the loop is in choose_server
  mon          \* the monitor's place in its sweep

vars == <<status, standby, c, usage, hash_table, nmembers, next_member,
          sessions, loop, mon>>

Kinded(f, empty) == [k \in {"member", "clone"} |-> IF k = "member" THEN f ELSE empty]

(* The selection engine sees the registry: a slot is enabled when its     *)
(* status is SERVER_STATE_ENABLED; slots past nmembers are memset, FREE.  *)
Sel == INSTANCE Selection WITH
         NMembers <- NSlots, NClones <- 0, SessionWeight <- 1,
         Load <- Kinded(Load, <<>>), Algorithms <- {"HASH"}, CloneMode <- FALSE,
         StandbyKinds <- {"member"}, next_clone <- 0, algorithm <- "HASH",
         enabled <- Kinded([i \in Slots |-> status[i] = "ENABLED"], <<>>),
         standby <- Kinded(standby, <<>>), c <- Kinded(c, <<>>)

FREE == Sel!FREE

Init ==
  /\ status = [i \in Slots |-> IF i < NInit THEN "ENABLED" ELSE "FREE"]
  /\ standby = [i \in Slots |-> FALSE]
  /\ c = [i \in Slots |-> 0]
  /\ usage = [i \in Slots |-> 0]
  /\ hash_table = [h \in Hashes |-> FREE]
  /\ nmembers = NInit
  /\ next_member = 0
  /\ sessions = [i \in Slots |-> 0]
  /\ loop = [pc |-> "idle", h |-> NoURI, cand |-> FREE, nm |-> 0]
  /\ mon = [phase |-> "reap", i |-> 0]

(***************************************************************************)
(* The event loop.                                                         *)
(***************************************************************************)

(* choose_server under LC: get_available_servers, set_lc_server, then    *)
(* connect_server on the member chosen.  No member: it returns -1.        *)
ChooseLC ==
  /\ Algorithm = "LC" /\ loop.pc = "idle"
  /\ Sel!Relaxed("member") # {}
  /\ LET lc == Sel!set_lc_server(Sel!get_available_servers).nm
     IN /\ next_member' = lc
        /\ loop' = [pc |-> "connect", h |-> NoURI, cand |-> FREE, nm |-> lc]
  /\ UNCHANGED <<status, standby, c, usage, hash_table, nmembers, sessions, mon>>

(* choose_server for request h up to the end of the hash lookup: a hit on *)
(* a valid member goes straight to connect_server; a hit on any other     *)
(* slot, or a miss, has run set_lc_server and still owes the usage and    *)
(* table updates.  No member available: choose_server returns -1.         *)
Select(h) ==
  /\ Algorithm = "HASH" /\ loop.pc = "idle"
  /\ Sel!Relaxed("member") # {}
  /\ LET g    == Sel!get_available_servers
         lc   == Sel!set_lc_server(g).nm
         cand == IF h = NoURI THEN FREE ELSE hash_table[h]
         st   == IF cand = FREE THEN -1 ELSE Sel!verify_server("member", cand)
         hit  == cand # FREE /\ (st = 0 \/ (st = 1 /\ g.ums))
     IN /\ next_member' = IF hit THEN cand ELSE lc
        /\ loop' = [pc |-> IF hit \/ h = NoURI THEN "connect" ELSE "hash",
                    h |-> h, cand |-> cand, nm |-> IF hit THEN cand ELSE lc]
  /\ UNCHANGED <<status, standby, c, usage, hash_table, nmembers, sessions, mon>>

(* The rest of set_hash_server: the old member's count down, the new one *)
(* up, and the table entry, on whatever the registry holds by now.        *)
HashCommit ==
  /\ loop.pc = "hash"
  /\ LET released == IF loop.cand = FREE THEN usage
                     ELSE [usage EXCEPT ![loop.cand] = (@ - 1) % USHRT]
     IN usage' = [released EXCEPT ![loop.nm] = (@ + 1) % USHRT]
  /\ hash_table' = [hash_table EXCEPT ![loop.h] = loop.nm]
  /\ loop' = [loop EXCEPT !.pc = "connect"]
  /\ UNCHANGED <<status, standby, c, nmembers, next_member, sessions, mon>>

(* connect_server's member leg: on success the slot's c goes up and the  *)
(* session holds it; on failure choose_server fails and the session is   *)
(* deleted with no member.                                                *)
Connect(ok) ==
  /\ loop.pc = "connect"
  /\ c' = IF ok THEN [c EXCEPT ![loop.nm] = @ + 1] ELSE c
  /\ sessions' = IF ok THEN [sessions EXCEPT ![loop.nm] = @ + 1] ELSE sessions
  /\ loop' = [loop EXCEPT !.pc = "idle"]
  /\ UNCHANGED <<status, standby, usage, hash_table, nmembers, next_member, mon>>

(* disconnect_member of a session on slot i: c -= 1 through the session's *)
(* member pointer, whatever the slot holds now.                           *)
EndSession(i) ==
  /\ sessions[i] > 0
  /\ c' = [c EXCEPT ![i] = @ - 1]
  /\ sessions' = [sessions EXCEPT ![i] = @ - 1]
  /\ UNCHANGED <<status, standby, usage, hash_table, nmembers, next_member, loop, mon>>

(***************************************************************************)
(* The monitor process.                                                    *)
(***************************************************************************)

(* One pass of initialize_monitor's loop, after its sleep: mon.phase is   *)
(* the sweep it is in and mon.i the slot it has reached; every sweep      *)
(* re-reads nmembers.                                                      *)
Sweep(phase, i) == mon' = [phase |-> phase, i |-> i]

(* handle_delete_servers at slot mon.i: a DELETED member with no          *)
(* connections loses its hash entries and is memset (status FREE,         *)
(* standby_state 0 = STANDBY_STATE_TRUE); the last slot shrinks nmembers. *)
Reap ==
  LET i == mon.i IN
  /\ mon.phase = "reap" /\ i < nmembers
  /\ IF status[i] = "DELETED" /\ c[i] = 0
       THEN /\ hash_table' = [h \in Hashes |-> IF hash_table[h] = i THEN FREE ELSE hash_table[h]]
            /\ status' = [status EXCEPT ![i] = "FREE"]
            /\ standby' = [standby EXCEPT ![i] = TRUE]
            /\ usage' = [usage EXCEPT ![i] = 0]
            /\ nmembers' = IF i = nmembers - 1 THEN nmembers - 1 ELSE nmembers
       ELSE UNCHANGED <<hash_table, status, standby, usage, nmembers>>
  /\ Sweep("reap", i + 1)
  /\ UNCHANGED <<c, next_member, sessions, loop>>

(* check_server_state at slot mon.i up to its wait: only ENABLED and      *)
(* FAILED members are probed; the others return at once.                   *)
CheckStart ==
  LET i == mon.i IN
  /\ mon.phase = "check" /\ i < nmembers
  /\ IF status[i] \in {"ENABLED", "FAILED"} THEN Sweep("probe", i) ELSE Sweep("check", i + 1)
  /\ UNCHANGED <<status, standby, c, usage, hash_table, nmembers, next_member, sessions, loop>>

(* check_server_state after its connect-and-select wait: the verdict is   *)
(* written over the status, whatever it is by now; a socket or setup      *)
(* failure, or an immediate connect error, writes nothing.                *)
CheckEnd(verdict) ==
  /\ mon.phase = "probe"
  /\ status' = CASE verdict = "alive" -> [status EXCEPT ![mon.i] = "ENABLED"]
                 [] verdict = "dead"  -> [status EXCEPT ![mon.i] = "FAILED"]
                 [] verdict = "error" -> status
  /\ Sweep("check", mon.i + 1)
  /\ UNCHANGED <<standby, c, usage, hash_table, nmembers, next_member, sessions, loop>>

(* The end of a sweep: reap and check pass on once mon.i reaches nmembers. *)
SweepDone ==
  /\ mon.phase \in {"reap", "check"} /\ mon.i >= nmembers
  /\ Sweep(IF mon.phase = "reap" THEN "check" ELSE "rebalance", 0)
  /\ UNCHANGED <<status, standby, c, usage, hash_table, nmembers, next_member, sessions, loop>>

(* The hash entries rebalance_hash moves: the first k, in table order,    *)
(* that point at the high-load member.                                     *)
Moved(high, k) ==
  LET own == SetToSortSeq({h \in Hashes : hash_table[h] = high}, <)
  IN Range(SubSeq(own, 1, k))

(* rebalance_hash, when SNMP is on and its interval is due: among the     *)
(* enabled, non-standby members under HASH the SNMP loads make some member high and  *)
(* another low; when the threshold is met, usage[high] * hrs / 100        *)
(* entries, as many as exist, move.  Then the monitor sleeps again.       *)
Rebalance(high, low, k) ==
  /\ mon.phase = "rebalance" /\ Algorithm = "HASH"
  /\ LET subjects == {i \in Slots : i < nmembers /\ status[i] = "ENABLED" /\ ~standby[i]}
         own      == {h \in Hashes : hash_table[h] = high}
     IN /\ Cardinality(subjects) > 1
        /\ high \in subjects /\ low \in subjects /\ high # low
        /\ k \in 1..Cardinality(own) /\ k <= usage[high]
        /\ hash_table' = [h \in Hashes |-> IF h \in Moved(high, k) THEN low ELSE hash_table[h]]
        /\ usage' = [usage EXCEPT ![high] = (@ - k) % USHRT, ![low] = (@ + k) % USHRT]
  /\ Sweep("reap", 0)
  /\ UNCHANGED <<status, standby, c, nmembers, next_member, sessions, loop>>

(* No rebalance this pass (another algorithm, SNMP off, interval not    *)
(* due, or under the threshold): back to sleep.                                             *)
NoRebalance ==
  /\ mon.phase = "rebalance"
  /\ Sweep("reap", 0)
  /\ UNCHANGED <<status, standby, c, usage, hash_table, nmembers, next_member, sessions, loop>>

(***************************************************************************)
(* The admin tool.                                                         *)
(***************************************************************************)

(* set_subject: a single member id below nmembers, neither FREE nor      *)
(* DELETED.                                                                *)
Subject(i) == i < nmembers /\ status[i] \notin {"FREE", "DELETED"}

AdminSet(i, st) ==
  /\ status' = [status EXCEPT ![i] = st]
  /\ UNCHANGED <<standby, c, usage, hash_table, nmembers, next_member, sessions, loop, mon>>

cmd_delete(i) == Subject(i) /\ AdminSet(i, "DELETED")

cmd_enable(i) == Subject(i) /\ status[i] = "DISABLED" /\ AdminSet(i, "ENABLED")

cmd_disable(i) == Subject(i) /\ status[i] \in {"ENABLED", "FAILED"} /\ AdminSet(i, "DISABLED")

cmd_standby(i) ==
  /\ Subject(i)
  /\ standby' = [standby EXCEPT ![i] = ~@]
  /\ UNCHANGED <<status, c, usage, hash_table, nmembers, next_member, sessions, loop, mon>>

(* create_balancer_server: the first FREE slot below nmembers, or a new   *)
(* slot at the end; the slot is overwritten with a DISABLED server whose *)
(* counters are zero.                                                      *)
create_balancer_server(i) ==
  /\ status' = [status EXCEPT ![i] = "DISABLED"]
  /\ standby' = [standby EXCEPT ![i] = FALSE]
  /\ c' = [c EXCEPT ![i] = 0]
  /\ usage' = [usage EXCEPT ![i] = 0]
  /\ nmembers' = IF i = nmembers THEN nmembers + 1 ELSE nmembers

cmd_create ==
  LET free == {i \in Slots : i < nmembers /\ status[i] = "FREE"}
      i    == IF free # {} THEN Min(free) ELSE nmembers
  IN /\ i \in Slots
     /\ create_balancer_server(i)
     /\ UNCHANGED <<hash_table, next_member, sessions, loop, mon>>

Next ==
  \/ ChooseLC
  \/ \E h \in Hashes \cup {NoURI} : Select(h)
  \/ HashCommit
  \/ \E ok \in BOOLEAN : Connect(ok)
  \/ Reap \/ CheckStart \/ SweepDone \/ NoRebalance
  \/ \E v \in {"alive", "dead", "error"} : CheckEnd(v)
  \/ cmd_create
  \/ \E i \in Slots :
       \/ EndSession(i)
       \/ cmd_delete(i) \/ cmd_enable(i) \/ cmd_disable(i) \/ cmd_standby(i)
       \/ \E low \in Slots, k \in 1..Cardinality(Hashes) : Rebalance(i, low, k)

Spec == Init /\ [][Next]_vars

(***************************************************************************)
(* Properties.                                                             *)
(***************************************************************************)

TypeOK ==
  /\ status \in [Slots -> States] /\ standby \in [Slots -> BOOLEAN]
  /\ c \in [Slots -> -NSlots..MaxC + 1] /\ usage \in [Slots -> 0..USHRT - 1]
  /\ hash_table \in [Hashes -> Slots \cup {FREE}]
  /\ nmembers \in 0..NSlots /\ next_member \in Slots
  /\ sessions \in [Slots -> Nat] /\ mon \in [phase : {"reap", "check", "probe", "rebalance"}, i : 0..NSlots]

(* A member the admin tool deleted leaves DELETED only by being reaped:   *)
(* no other process brings it back.  check_server_state reads the status  *)
(* before its probe and writes its verdict after it.                       *)
NeverRevived ==
  [][\A i \in Slots : status[i] = "DELETED" => status'[i] \in {"DELETED", "FREE"}]_vars

(* A member slot handle_delete_servers has freed is referenced by        *)
(* nothing: no hash-table entry routes to it and no session's member      *)
(* pointer holds it, while the loop may be between its hash lookup and    *)
(* its table update, or between its choice and connect_server's c += 1.   *)
FreedSlotUnreferenced ==
  \A i \in Slots : status[i] = "FREE" =>
      /\ \A h \in Hashes : hash_table[h] # i
      /\ sessions[i] = 0
=============================================================================
