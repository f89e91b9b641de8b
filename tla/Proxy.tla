------------------------------- MODULE Proxy -------------------------------
(***************************************************************************)
(* The proxy data plane of octopus-server: the single-threaded epoll loop  *)
(* of main() (src/octopus.c), the per-session state machine of             *)
(* client_read/client_write/member_read/member_write/clone_read/           *)
(* clone_write, the teardown of delete_session and disconnect_*, and the   *)
(* outbound legs opened by connect_server (src/connect.c).                 *)
(*                                                                         *)
(* Data is abstracted to byte counts: a buffer is its *_used_buffer value, *)
(* a socket is "has an fd" plus its epoll registration and interest set.   *)
(* The peers (client, member and clone servers) are the environment: each  *)
(* epoll event, read count, write count, EOF and error they can produce is *)
(* a nondeterministic choice.  One epoll event is handled atomically, as   *)
(* the loop handles it without yielding; the handlers an event with both   *)
(* EPOLLIN and EPOLLOUT runs one after the other are composed as           *)
(* functions on the World record.                                          *)
(*                                                                         *)
(* Backend selection is abstracted to its contract: any member that        *)
(* get_available_servers admits (enabled backends, c < maxc), any clone    *)
(* under its maxc when cloning is on.  The Selection module checks the    *)
(* algorithms against that contract.  The free-session pool is the FIFO    *)
(* the specification describes; the code's own ring (SessionQueue) never   *)
(* yields a session at all, see the README.                                *)
(***************************************************************************)
EXTENDS Naturals, Sequences, FiniteSets, SequencesExt, Functions

CONSTANTS
  Sessions,            \* the SESSION slots made by initialize_sessions
  Members,             \* balancer->members[]
  Clones,              \* balancer->clones[]
  None,                \* a SERVER pointer not yet set
  MESSAGE_SIZE_LIMIT,  \* capacity of each session buffer (4096 bytes)
  MaxConn,             \* SERVER.maxc of every backend
  Algorithm,           \* balancer->algorithm
  CloneMode,           \* balancer->clone_mode = CLONE_MODE_ON
  MemberOutcomes,      \* the ways opening a member leg can end
  CloneOutcomes,       \* the ways opening a clone leg can end
  MaxLeaked            \* bound on orphaned sockets explored

ASSUME /\ MESSAGE_SIZE_LIMIT \in Nat \ {0}
       /\ MaxConn \in Nat \ {0}
       /\ Members # {} /\ None \notin Members \cup Clones
       /\ Algorithm \in {"RR", "LC", "LL", "HASH", "STATIC"}
       /\ CloneMode \in BOOLEAN
       /\ MemberOutcomes \subseteq {"ok", "socket", "setup", "epoll"}
       /\ CloneOutcomes \subseteq {"ok", "socket", "setup", "bind", "epoll"}
       /\ "ok" \in MemberOutcomes \cap CloneOutcomes

VARIABLES
  sess,    \* sessions[]: the SESSION struct of every slot
  conn,    \* SERVER.c of every member and clone
  pool,    \* the free-session queue, head first
  leaked   \* sockets opened by connect_server that no session refers to

vars == <<sess, conn, pool, leaked>>

Backends == Members \cup Clones
Legs == {"cli", "mem", "clo"}
Flags == {"MEM_CONNECTED", "CLI_CONNECTED", "CLO_CONNECTED", "FRESH",
          "MEM_READ_READY", "CLI_READ_READY", "CLO_READ_READY",
          "MEM_WRITE_READY", "CLI_WRITE_READY", "CLO_WRITE_READY",
          "MEM_BUFF_FULL", "CLI_BUFF_FULL"}

(* The epoll_event groups ro_ev, wr_ev, rw_ev and null_ev, by the events  *)
(* beyond EPOLLERR|EPOLLHUP they ask for.                                  *)
Interest(read, write) ==
  (IF read THEN {"IN"} ELSE {}) \cup (IF write THEN {"OUT"} ELSE {})
RO == Interest(TRUE, FALSE)
RW == Interest(TRUE, TRUE)

(* fd[l]: the leg's descriptor is >= 0; reg[l]: it is in the epoll set;   *)
(* ev[l]: the interest it is registered with.                             *)
UnusedSession ==
  [state |-> {}, fd |-> [l \in Legs |-> FALSE], reg |-> [l \in Legs |-> FALSE],
   ev |-> [l \in Legs |-> {}], member |-> None, clone |-> None,
   client_used |-> 0, member_used |-> 0, clone_used |-> 0]

World == [sess |-> sess, conn |-> conn, pool |-> pool, leaked |-> leaked]
Apply(W) == /\ sess' = W.sess /\ conn' = W.conn
            /\ pool' = W.pool /\ leaked' = W.leaked

St(W, s) == W.sess[s].state
SetFlags(W, s, F) == [W EXCEPT !.sess[s].state = @ \cup F]
ClearFlags(W, s, F) == [W EXCEPT !.sess[s].state = @ \ F]

(* epoll_ctl(EPOLL_CTL_MOD): fails and changes nothing when the fd is -1  *)
(* or was never added.                                                     *)
Modify(W, s, l, I) ==
  IF W.sess[s].reg[l] THEN [W EXCEPT !.sess[s].ev[l] = I] ELSE W

(* shutdown + close of a leg's fd; closing drops it from the epoll set.   *)
CloseLeg(W, s, l) ==
  [W EXCEPT !.sess[s].fd[l] = FALSE, !.sess[s].reg[l] = FALSE, !.sess[s].ev[l] = {}]

disconnect_client(W, s) ==
  IF W.sess[s].fd["cli"]
  THEN ClearFlags(CloseLeg(W, s, "cli"), s, {"CLI_CONNECTED"})
  ELSE W

disconnect_member(W, s) ==
  IF W.sess[s].fd["mem"]
  THEN [ClearFlags(CloseLeg(W, s, "mem"), s, {"MEM_CONNECTED"})
          EXCEPT !.conn[W.sess[s].member] = @ - 1]
  ELSE W

disconnect_clone(W, s) ==
  IF W.sess[s].fd["clo"]
  THEN [ClearFlags(CloseLeg(W, s, "clo"), s, {"CLO_CONNECTED"})
          EXCEPT !.conn[W.sess[s].clone] = @ - 1]
  ELSE W

(* delete_session: disconnect the legs whose CONNECTED flag is set, reset *)
(* state and buffer counts, and hand the slot to add_unused_session.      *)
delete_session(W, s) ==
  LET W1 == IF "CLI_CONNECTED" \in St(W, s) THEN disconnect_client(W, s) ELSE W
      W2 == IF "MEM_CONNECTED" \in St(W1, s) THEN disconnect_member(W1, s) ELSE W1
      W3 == IF "CLO_CONNECTED" \in St(W2, s) THEN disconnect_clone(W2, s) ELSE W2
  IN [W3 EXCEPT !.sess[s].state = {}, !.sess[s].client_used = 0,
                !.sess[s].member_used = 0, !.sess[s].clone_used = 0,
                !.pool = Append(@, s)]

(* Variant of MemberConnect that counts the member connection before the  *)
(* epoll_ctl ADD that can still fail.                                      *)
MemberConnectCountFirst(W, s, m, o) ==
  CASE o = "ok" ->
         [w |-> [SetFlags(W, s, {"MEM_CONNECTED", "MEM_READ_READY"})
                   EXCEPT !.sess[s].member = m, !.sess[s].fd["mem"] = TRUE,
                          !.sess[s].reg["mem"] = TRUE, !.sess[s].ev["mem"] = RO,
                          !.conn[m] = @ + 1],
          ok |-> TRUE]
    [] o = "socket" -> [w |-> W, ok |-> FALSE]
    [] o = "setup" -> [w |-> [W EXCEPT !.leaked = @ + 1], ok |-> FALSE]
    [] o = "epoll" ->
         [w |-> [W EXCEPT !.sess[s].member = m, !.sess[s].fd["mem"] = TRUE,
                          !.conn[m] = @ + 1],
          ok |-> FALSE]

(* The member path of connect_server, run only when memberfd == -1.       *)
(* "socket": socket() fails; "setup": fcntl, bind or connect fails after  *)
(* socket() and returns -1 without closing it; "epoll": epoll_ctl ADD     *)
(* fails after memberfd and member were stored; "ok": c++ and the flags.  *)
MemberConnect(W, s, m, o) ==
  CASE o = "ok" ->
         [w |-> [SetFlags(W, s, {"MEM_CONNECTED", "MEM_READ_READY"})
                   EXCEPT !.sess[s].member = m, !.sess[s].fd["mem"] = TRUE,
                          !.sess[s].reg["mem"] = TRUE, !.sess[s].ev["mem"] = RO,
                          !.conn[m] = @ + 1],
          ok |-> TRUE]
    [] o = "socket" -> [w |-> W, ok |-> FALSE]
    [] o = "setup" -> [w |-> [W EXCEPT !.leaked = @ + 1], ok |-> FALSE]
    [] o = "epoll" ->
         [w |-> [W EXCEPT !.sess[s].member = m, !.sess[s].fd["mem"] = TRUE],
          ok |-> FALSE]

(* The clone path, run when use_clone is set and clonefd == -1; its       *)
(* failures return 1 (carry on without a clone) except a bind failure,    *)
(* which returns -1.  Every failure after socket() leaks the socket.      *)
CloneConnect(W, s, c, o) ==
  CASE o = "ok" ->
         [w |-> [SetFlags(W, s, {"CLO_CONNECTED", "CLO_READ_READY"})
                   EXCEPT !.sess[s].clone = c, !.sess[s].fd["clo"] = TRUE,
                          !.sess[s].reg["clo"] = TRUE, !.sess[s].ev["clo"] = RO,
                          !.conn[c] = @ + 1],
          status |-> 0]
    [] o = "socket" -> [w |-> W, status |-> 1]
    [] o = "setup" -> [w |-> [W EXCEPT !.leaked = @ + 1], status |-> 1]
    [] o = "bind" -> [w |-> [W EXCEPT !.leaked = @ + 1], status |-> -1]
    [] o = "epoll" ->
         [w |-> [W EXCEPT !.sess[s].clone = c, !.sess[s].fd["clo"] = TRUE],
          status |-> 1]

(* A selection: the member and clone get_available_servers and the       *)
(* algorithm settle on (clone None: use_clone = 0), and how opening each  *)
(* leg ends.  NoChoice: get_available_servers found no member.            *)
(* Failures that orphan a socket are explored while fewer than MaxLeaked  *)
(* sockets are orphaned.                                                   *)
Bounded(W, O) == IF W.leaked < MaxLeaked THEN O ELSE O \ {"setup", "bind"}
NoChoice == [m |-> None, c |-> None, mo |-> "ok", co |-> "ok"]
MemberCandidates(W) == {m \in Members : W.conn[m] < MaxConn}
CloneCandidates(W) ==
  IF CloneMode THEN {c \in Clones : W.conn[c] < MaxConn} ELSE {}
Selections(W) ==
  IF MemberCandidates(W) = {} THEN {NoChoice}
  ELSE [m : MemberCandidates(W),
        c : IF CloneCandidates(W) = {} THEN {None} ELSE CloneCandidates(W),
        mo : Bounded(W, MemberOutcomes), co : Bounded(W, CloneOutcomes)]

connect_server(W, s, ch) ==
  LET mr == IF W.sess[s].fd["mem"] THEN [w |-> W, ok |-> TRUE]
            ELSE MemberConnect(W, s, ch.m, ch.mo)
  IN IF ~mr.ok THEN [w |-> mr.w, status |-> -1]
     ELSE IF ch.c # None /\ ~mr.w.sess[s].fd["clo"]
          THEN CloneConnect(mr.w, s, ch.c, ch.co)
          ELSE [w |-> mr.w, status |-> 0]

(* choose_server: -1 when no member is available, else connect_server.    *)
choose_server(W, s, ch) ==
  IF ch.m = None THEN [w |-> W, status |-> -1] ELSE connect_server(W, s, ch)
(* The four interest recomputations of the "SESSION SOCKET MAINTAIN"      *)
(* blocks that look at both the read and the write flag of a leg.         *)
MaintainClient(W, s) ==
  Modify(W, s, "cli", Interest("CLI_READ_READY" \in St(W, s),
                               "CLI_WRITE_READY" \in St(W, s)))
MaintainMember(W, s) ==
  Modify(W, s, "mem", Interest("MEM_READ_READY" \in St(W, s),
                               "MEM_WRITE_READY" \in St(W, s)))

(* client_read after read() returned n (0: EOF or error).                 *)
client_read(W, s, n, ch) ==
  IF n = 0 THEN delete_session(W, s)
  ELSE
    LET W1 == [W EXCEPT !.sess[s].client_used = @ + n]
        r  == IF "FRESH" \in St(W1, s) THEN choose_server(W1, s, ch)
              ELSE [w |-> W1, status |-> 0]
        W2 == ClearFlags(r.w, s, {"FRESH"})
        W3 == IF "CLO_CONNECTED" \notin St(W2, s) THEN W2
              ELSE IF n > MESSAGE_SIZE_LIMIT - W2.sess[s].clone_used
                   THEN disconnect_clone(W2, s)
                   ELSE [W2 EXCEPT !.sess[s].clone_used = @ + n]
        W4 == SetFlags(W3, s, {"MEM_WRITE_READY", "CLO_WRITE_READY"})
        W5 == IF W4.sess[s].client_used = MESSAGE_SIZE_LIMIT
              THEN ClearFlags(SetFlags(W4, s, {"CLI_BUFF_FULL"}), s, {"CLI_READ_READY"})
              ELSE W4
        W6 == Modify(MaintainClient(W5, s), s, "mem",
                     Interest("MEM_READ_READY" \in St(W5, s), TRUE))
    IN IF r.status = -1 THEN delete_session(r.w, s)
       ELSE IF "CLO_CONNECTED" \in St(W6, s) THEN Modify(W6, s, "clo", RW)
       ELSE W6

(* Variant of client_write that never ends a session whose member is gone *)
(* once the client has been sent everything.                               *)
client_write_keeps_session(W, s, n) ==
  IF n < 0 THEN delete_session(W, s)
  ELSE
    LET W1 == [W EXCEPT !.sess[s].member_used = @ - n]
        W2 == IF W1.sess[s].member_used = 0
              THEN ClearFlags(W1, s, {"CLI_WRITE_READY"}) ELSE W1
        W3 == IF "MEM_BUFF_FULL" \in St(W2, s)
              THEN SetFlags(ClearFlags(W2, s, {"MEM_BUFF_FULL"}), s, {"MEM_READ_READY"})
              ELSE W2
    IN MaintainMember(MaintainClient(W3, s), s)

(* client_write after write() returned n (-1: error).                     *)
client_write(W, s, n) ==
  IF n < 0 THEN delete_session(W, s)
  ELSE
    LET W1 == [W EXCEPT !.sess[s].member_used = @ - n]
        W2 == IF W1.sess[s].member_used = 0
              THEN ClearFlags(W1, s, {"CLI_WRITE_READY"}) ELSE W1
        W3 == IF "MEM_BUFF_FULL" \in St(W2, s)
              THEN SetFlags(ClearFlags(W2, s, {"MEM_BUFF_FULL"}), s, {"MEM_READ_READY"})
              ELSE W2
    IN IF W1.sess[s].member_used = 0 /\ "MEM_CONNECTED" \notin St(W1, s)
       THEN delete_session(W2, s)
       ELSE MaintainMember(MaintainClient(W3, s), s)

(* Variant of member_read whose client interest ignores the bytes it has  *)
(* just buffered for the client: ro_ev or null_ev by CLI_READ_READY.      *)
member_read_read_only_client(W, s, n) ==
  IF n = 0
  THEN IF "CLI_WRITE_READY" \notin St(W, s) THEN delete_session(W, s)
       ELSE disconnect_member(W, s)
  ELSE
    LET W1 == SetFlags([W EXCEPT !.sess[s].member_used = @ + n], s, {"CLI_WRITE_READY"})
        W2 == IF W1.sess[s].member_used = MESSAGE_SIZE_LIMIT
              THEN ClearFlags(SetFlags(W1, s, {"MEM_BUFF_FULL"}), s, {"MEM_READ_READY"})
              ELSE W1
    IN MaintainMember(Modify(W2, s, "cli", Interest("CLI_READ_READY" \in St(W2, s), FALSE)), s)

(* member_read after read() returned n (0: EOF or error).                 *)
member_read(W, s, n) ==
  IF n = 0
  THEN IF "CLI_WRITE_READY" \notin St(W, s) THEN delete_session(W, s)
       ELSE disconnect_member(W, s)
  ELSE
    LET W1 == SetFlags([W EXCEPT !.sess[s].member_used = @ + n], s, {"CLI_WRITE_READY"})
        W2 == IF W1.sess[s].member_used = MESSAGE_SIZE_LIMIT
              THEN ClearFlags(SetFlags(W1, s, {"MEM_BUFF_FULL"}), s, {"MEM_READ_READY"})
              ELSE W1
    IN MaintainMember(Modify(W2, s, "cli", Interest("CLI_READ_READY" \in St(W2, s), TRUE)), s)

(* member_write after write() returned n (-1: error).                     *)
member_write(W, s, n) ==
  IF n < 0 THEN disconnect_member(W, s)
  ELSE
    LET W1 == SetFlags([W EXCEPT !.sess[s].client_used = @ - n], s, {"MEM_READ_READY"})
        W2 == IF W1.sess[s].client_used = 0
              THEN ClearFlags(W1, s, {"MEM_WRITE_READY"}) ELSE W1
        W3 == IF "CLI_BUFF_FULL" \in St(W2, s)
              THEN SetFlags(ClearFlags(W2, s, {"CLI_BUFF_FULL"}), s, {"CLI_READ_READY"})
              ELSE W2
    IN MaintainMember(Modify(W3, s, "cli", Interest(TRUE, "CLI_WRITE_READY" \in St(W3, s))), s)

(* clone_read: the bytes go to the waste buffer; only EOF/error matters.   *)
clone_read(W, s, n) == IF n = 0 THEN disconnect_clone(W, s) ELSE W

clone_write(W, s, n) ==
  IF n < 0 THEN disconnect_clone(W, s)
  ELSE
    LET W1 == SetFlags([W EXCEPT !.sess[s].clone_used = @ - n], s, {"CLO_READ_READY"})
        W2 == IF W1.sess[s].clone_used = 0
              THEN ClearFlags(W1, s, {"CLO_WRITE_READY"}) ELSE W1
    IN Modify(W2, s, "clo", Interest(TRUE, "CLO_WRITE_READY" \in St(W2, s)))
(***************************************************************************)
(* Init and the epoll events.                                              *)
(***************************************************************************)

(* initialize_sessions: every slot unused, every fd -1; all servers have  *)
(* c = 0; every slot is in the free queue.                                 *)
Init ==
  /\ sess = [s \in Sessions |-> UnusedSession]
  /\ conn = [b \in Backends |-> 0]
  /\ pool = SetToSeq(Sessions)
  /\ leaked = 0

(* EPOLLIN on the listener with a session to give: get_new_session, the   *)
(* client flags and fd (a clientfd still open in the slot is orphaned),   *)
(* epoll ADD of the client, and for the algorithms that need no URI an    *)
(* immediate choose_server.                                                *)
Accept ==
  /\ pool # <<>>
  /\ LET s  == Head(pool)
         W1 == [SetFlags(World, s, {"CLI_CONNECTED", "CLI_READ_READY"})
                  EXCEPT !.pool = Tail(@), !.sess[s].fd["cli"] = TRUE,
                         !.leaked = IF World.sess[s].fd["cli"] THEN @ + 1 ELSE @]
         W2 == [W1 EXCEPT !.sess[s].reg["cli"] = TRUE, !.sess[s].ev["cli"] = RO]
     IN \/ Apply(delete_session(W1, s))       \* epoll_ctl ADD failed
        \/ IF Algorithm \in {"HASH", "STATIC"} THEN Apply(W2)
           ELSE \E ch \in Selections(W2) :
                  LET r == choose_server(W2, s, ch)
                  IN Apply(IF r.status = -1 THEN delete_session(r.w, s)
                           ELSE ClearFlags(r.w, s, {"FRESH"}))

(* get_new_session returned NULL: the connection is closed at once.       *)
AcceptRejected ==
  /\ pool = <<>>
  /\ UNCHANGED vars

(* Variant of the read count that may run one byte past the buffer.        *)
ReadResultsPastEnd(room) == 0..room + 1

(* What read() and write() can return on a leg, 0 standing for EOF and    *)
(* error alike in reads (the handlers treat them the same) and -1 for a    *)
(* write error.  A write on a closed fd fails.                             *)
ReadResults(room) == IF room = 0 THEN {0} ELSE 0..room

WriteResults(open, used) ==
  IF ~open THEN {-1} ELSE IF used = 0 THEN {0} ELSE {-1} \cup 1..used

(* The events one epoll_wait entry can carry for a registered fd: ERR or   *)
(* HUP at any time, IN and OUT as asked for.                               *)
Ready(s, l) == SUBSET sess[s].ev[l] \ {{}}

ClientHangup(s) ==
  /\ sess[s].reg["cli"]
  /\ Apply(delete_session(World, s))

ClientReady(s) ==
  /\ sess[s].reg["cli"]
  /\ \E E \in Ready(s, "cli") :
     \E n \in IF "IN" \in E THEN ReadResults(MESSAGE_SIZE_LIMIT - sess[s].client_used)
              ELSE {0} :
     \E ch \in IF "FRESH" \in sess[s].state THEN Selections(World) ELSE {NoChoice} :
       LET W1 == IF "IN" \in E THEN client_read(World, s, n, ch) ELSE World
       IN IF "OUT" \notin E THEN Apply(W1)
          ELSE \E m \in WriteResults(W1.sess[s].fd["cli"], W1.sess[s].member_used) :
                 Apply(client_write(W1, s, m))

MemberHangup(s) ==
  /\ sess[s].reg["mem"]
  /\ Apply(disconnect_member(World, s))

MemberReady(s) ==
  /\ sess[s].reg["mem"]
  /\ \E E \in Ready(s, "mem") :
     \E n \in IF "IN" \in E THEN ReadResults(MESSAGE_SIZE_LIMIT - sess[s].member_used)
              ELSE {0} :
       LET W1 == IF "IN" \in E THEN member_read(World, s, n) ELSE World
       IN IF "OUT" \notin E THEN Apply(W1)
          ELSE \E m \in WriteResults(W1.sess[s].fd["mem"], W1.sess[s].client_used) :
                 Apply(member_write(W1, s, m))

CloneHangup(s) ==
  /\ sess[s].reg["clo"]
  /\ Apply(disconnect_clone(World, s))

(* clone_read discards what it reads, so one positive count stands for all. *)
CloneReady(s) ==
  /\ sess[s].reg["clo"]
  /\ \E E \in Ready(s, "clo") :
     \E n \in IF "IN" \in E THEN {0, 1} ELSE {0} :
       LET W1 == IF "IN" \in E THEN clone_read(World, s, n) ELSE World
       IN IF "OUT" \notin E THEN Apply(W1)
          ELSE \E m \in WriteResults(W1.sess[s].fd["clo"], W1.sess[s].clone_used) :
                 Apply(clone_write(W1, s, m))

Next ==
  \/ Accept
  \/ AcceptRejected
  \/ \E s \in Sessions :
       \/ ClientHangup(s) \/ ClientReady(s)
       \/ MemberHangup(s) \/ MemberReady(s)
       \/ CloneHangup(s) \/ CloneReady(s)

Spec == Init /\ [][Next]_vars

(* The loop keeps serving a client that keeps its socket open: a client   *)
(* leg that stays registered is eventually handled.                        *)
Fairness == \A s \in Sessions : WF_vars(ClientReady(s))

FairSpec == Spec /\ Fairness
(***************************************************************************)
(* Properties.                                                             *)
(***************************************************************************)

TypeOK ==
  /\ sess \in [Sessions -> [state : SUBSET Flags,
                            fd : [Legs -> BOOLEAN], reg : [Legs -> BOOLEAN],
                            ev : [Legs -> SUBSET {"IN", "OUT"}],
                            member : Members \cup {None}, clone : Clones \cup {None},
                            client_used : 0..MESSAGE_SIZE_LIMIT,
                            member_used : 0..MESSAGE_SIZE_LIMIT,
                            clone_used : 0..MESSAGE_SIZE_LIMIT]]
  /\ conn \in [Backends -> Int]
  /\ pool \in Seq(Sessions)
  /\ leaked \in Nat

Holders(b) ==
  {s \in Sessions : \/ "MEM_CONNECTED" \in sess[s].state /\ sess[s].member = b
                    \/ "CLO_CONNECTED" \in sess[s].state /\ sess[s].clone = b}

(* SERVER.c, which get_available_servers compares with maxc and the least *)
(* connection algorithms minimise, equals the number of sessions whose     *)
(* member or clone leg is connected to that server: connect_server counts *)
(* a leg up only once it is in epoll, disconnect_member/disconnect_clone  *)
(* count it down exactly once, and teardown paths never skip it.          *)
ConnAccounting == \A b \in Backends : conn[b] = Cardinality(Holders(b))

(* Level-triggered epoll only wakes a leg for what it is registered for:   *)
(* bytes waiting in a buffer must have EPOLLOUT registered on the leg that *)
(* drains them, or they stay there until an unrelated event.  The          *)
(* handlers recompute interest piecemeal (client_read, member_read and     *)
(* member_write each rebuild only some legs from some flags).              *)
NoMissedWrite ==
  \A s \in Sessions :
    /\ sess[s].member_used > 0 /\ sess[s].reg["cli"] => "OUT" \in sess[s].ev["cli"]
    /\ sess[s].client_used > 0 /\ sess[s].reg["mem"] => "OUT" \in sess[s].ev["mem"]
    /\ sess[s].clone_used > 0 /\ sess[s].reg["clo"] => "OUT" \in sess[s].ev["clo"]

(* A response that outlives its member is flushed and the session closed:  *)
(* once the member is gone with bytes still owed to the client, the client *)
(* leg is eventually closed (client_write deletes the session when the    *)
(* member buffer drains with MEM_CONNECTED clear).  Stated for the        *)
(* behaviours that never release a slot twice (see SessionReleasedOnce).  *)
FlushThenClose ==
  []IsInjective(pool) =>
  \A s \in Sessions :
    ("CLI_CONNECTED" \in sess[s].state /\ "MEM_CONNECTED" \notin sess[s].state
       /\ sess[s].member_used > 0)
      ~> "CLI_CONNECTED" \notin sess[s].state
(* The free-session queue holds each slot at most once and only slots no  *)
(* connection is using, as the specification requires of the session     *)
(* pool.  An event carrying EPOLLIN and EPOLLOUT runs client_read and then *)
(* client_write on the same fd: if the read ends the session, the write   *)
(* fails on the closed fd and delete_session releases the slot again.     *)
SessionReleasedOnce ==
  /\ IsInjective(pool)
  /\ \A i \in DOMAIN pool : sess[pool[i]].state = {}

(* Backpressure: a leg is polled for input only while its buffer has room  *)
(* (reaching MESSAGE_SIZE_LIMIT clears the leg's READ_READY).  Otherwise   *)
(* read() is asked for 0 bytes, returns 0, and the handler takes that for  *)
(* EOF.  member_write sets MEM_READ_READY after every write, also while    *)
(* MEM_BUFF_FULL is set.                                                   *)
NoReadIntoFullBuffer ==
  \A s \in Sessions :
    /\ "IN" \in sess[s].ev["cli"] => sess[s].client_used < MESSAGE_SIZE_LIMIT
    /\ "IN" \in sess[s].ev["mem"] => sess[s].member_used < MESSAGE_SIZE_LIMIT

(* A session whose client is still connected and past selection has a     *)
(* member leg, or is flushing what the member sent (member_used > 0);      *)
(* else the client's bytes have nowhere to go and nothing ends the         *)
(* session until the client gives up.  Member ERR/HUP events and           *)
(* member_write errors only disconnect the member; and under HASH/STATIC   *)
(* accept never sets FRESH, so client_read never selects a member.         *)
NoOrphanSession ==
  \A s \in Sessions :
    "CLI_CONNECTED" \in sess[s].state /\ "FRESH" \notin sess[s].state
      => "MEM_CONNECTED" \in sess[s].state \/ sess[s].member_used > 0

(* Every socket connect_server opens is either owned by a session and in  *)
(* the epoll set, or closed: no descriptor is orphaned by a failed         *)
(* fcntl/bind/connect or epoll_ctl ADD.                                    *)
NoFdLeak ==
  /\ leaked = 0
  /\ \A s \in Sessions, l \in Legs : sess[s].fd[l] => sess[s].reg[l]
=============================================================================
