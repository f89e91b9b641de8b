---------------------------- MODULE SessionQueue ----------------------------
(* The circular free-session queue of octopus-server: the array            *)
(* unused_session_queue.unused_sessions with its head and rear indices,   *)
(* filled by initialize_unused_session (src/init.c), drained by           *)
(* get_new_session on accept and refilled by add_unused_session from       *)
(* delete_session (src/octopus.c).  The event loop is the only user, so   *)
(* each call is one atomic step; inUse is the set of sessions handed out. *)
EXTENDS Naturals, FiniteSets, Functions

CONSTANTS
  Sessions,   \* the slots sessions[0 .. session_limit-1]
  Null        \* an unused_sessions entry never written

ASSUME Null \notin Sessions

N == Cardinality(Sessions)

VARIABLES
  head, rear,  \* unused_session_queue.head and .rear
  slot,        \* unused_session_queue.unused_sessions[]
  inUse,       \* sessions owned by a connection
  crashed      \* the process died (integer division by zero)

vars == <<head, rear, slot, inUse, crashed>>

Index == 0..N-1

(* An enumeration sessions[0..N-1] of the slots. *)
Order == CHOOSE f \in Bijection(Index, Sessions) : TRUE

TypeOK ==
  /\ head \in Index /\ rear \in Index
  /\ slot \in [Index -> Sessions \cup {Null}]
  /\ inUse \subseteq Sessions
  /\ crashed \in BOOLEAN

(* initialize_unused_session: head = rear = 0, then every session (all    *)
(* are STATE_UNUSED) is stored at rear, rear advancing modulo N after     *)
(* each store.                                                             *)
Init ==
  /\ head = 0
  /\ slot = Order
  /\ rear = N % N
  /\ inUse = {}
  /\ crashed = FALSE

(* get_new_session: empty when head == rear; otherwise                   *)
(* head = (head + 1) % head and the entry at the new head is returned.   *)
get_new_session ==
  /\ ~crashed
  /\ head # rear
  /\ head # 0
  /\ head' = (head + 1) % head
  /\ slot[head'] # Null
  /\ inUse' = inUse \cup {slot[head']}
  /\ UNCHANGED <<rear, slot, crashed>>

(* The same call with head = 0: the modulus is zero, SIGFPE ends the     *)
(* process.                                                                *)
get_new_session_div_zero ==
  /\ ~crashed
  /\ head # rear /\ head = 0
  /\ crashed' = TRUE
  /\ UNCHANGED <<head, rear, slot, inUse>>

(* get_new_session returned NULL: accept closes the client.              *)
get_new_session_empty ==
  /\ ~crashed
  /\ head = rear
  /\ UNCHANGED vars

(* add_unused_session, called by delete_session for a session in use.    *)
add_unused_session(s) ==
  /\ ~crashed
  /\ s \in inUse
  /\ rear' = (rear + 1) % N
  /\ slot' = [slot EXCEPT ![rear'] = s]
  /\ inUse' = inUse \ {s}
  /\ UNCHANGED <<head, crashed>>

Next ==
  \/ get_new_session
  \/ get_new_session_div_zero
  \/ get_new_session_empty
  \/ \E s \in Sessions : add_unused_session(s)

Spec == Init /\ [][Next]_vars

(* The queue implements the pool: the sessions the queue can still hand   *)
(* out are the entries after head up to and including rear, the entry    *)
(* get_new_session reads (it pre-increments head) and add_unused_session *)
(* writes (it pre-increments rear).                                       *)
Queued == {slot[(head + i) % N] : i \in 1..((rear - head + N) % N)} \ {Null}

Pool == INSTANCE FreePool WITH free <- Queued

(* The free-session queue behaves as the specification's pool: at start   *)
(* every session can be acquired, acquire fails only when every session   *)
(* is in use, and release makes a session acquirable again.               *)
PoolRefinement == Pool!Spec
=============================================================================
