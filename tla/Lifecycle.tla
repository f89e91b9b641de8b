---------------------------- MODULE Lifecycle ----------------------------
(***************************************************************************)
(* The processes of octopus-server from the shared-memory setup on:       *)
(*   orig    - the process started from the console (main); it forks the  *)
(*             monitor, and in daemon mode forks the daemon and exits;     *)
(*   daemon  - the detached master of daemon mode;                         *)
(*   monitor - the health-monitor child of orig.                           *)
(* The master is orig in foreground mode and daemon in daemon mode; each  *)
(* process learns the other's pid only from balancer->master_pid and      *)
(* balancer->monitor_pid in shared memory.  A process stops through       *)
(* clean_exit (the SIGTERM/SIGINT handler, src/signals.c) or through      *)
(* write_log's fatal path (src/logging.c).  Each pc is the next thing the  *)
(* process does; "none" is a process not forked yet.                       *)
(***************************************************************************)
EXTENDS Naturals

CONSTANT Modes   \* the -f flag: "foreground" or "daemon"

Procs == {"orig", "daemon", "monitor"}
Masters == {"orig", "daemon"}
NoPid == "0"     \* a pid field still as memset

VARIABLES
  mode,          \* foreground or daemon
  pc,            \* pc[p]: where process p is
  term,          \* term[p]: SIGTERM pending for p
  master_pid,    \* balancer->master_pid
  monitor_pid,   \* balancer->monitor_pid
  alive          \* balancer->alive

vars == <<mode, pc, term, master_pid, monitor_pid, alive>>

Live(p) == pc[p] \notin {"none", "exited"}

(* waitpid by p blocks while p has a child that has not exited: only orig *)
(* has one, the monitor, until it exits (daemon is in a session of its    *)
(* own and has no children).                                               *)
WaitReturns(p) == ~(p = "orig" /\ Live("monitor"))

Goto(p, l) == pc' = [pc EXCEPT ![p] = l]

(* main after initialize_shm: the balancer is alive, no pid is published. *)
Init ==
  /\ mode \in Modes
  /\ pc = [p \in Procs |-> IF p = "orig" THEN "fork" ELSE "none"]
  /\ term = [p \in Procs |-> FALSE]
  /\ master_pid = NoPid /\ monitor_pid = NoPid
  /\ alive = 1

(* initialize_monitor: fork the monitor; a failed fork is only logged.    *)
InitMonitor ==
  /\ pc["orig"] = "fork"
  /\ \/ pc' = [pc EXCEPT !["orig"] = "init", !["monitor"] = "start"]
     \/ Goto("orig", "init")
  /\ UNCHANGED <<mode, term, master_pid, monitor_pid, alive>>

(* The monitor child's first step: balancer->monitor_pid = getpid().       *)
MonitorStart ==
  /\ pc["monitor"] = "start"
  /\ monitor_pid' = "monitor"
  /\ Goto("monitor", "running")
  /\ UNCHANGED <<mode, term, master_pid, alive>>

(* initialize_fds and initialize_sessions: a failed malloc is fatal.      *)
InitSessions ==
  /\ pc["orig"] = "init"
  /\ Goto("orig", "process") \/ Goto("orig", "fatal")
  /\ UNCHANGED <<mode, term, master_pid, monitor_pid, alive>>

(* initialize_process: in foreground mode orig becomes the master; in     *)
(* daemon mode it forks the daemon and exits, or a failed fork is fatal.  *)
InitProcess ==
  /\ pc["orig"] = "process"
  /\ IF mode = "foreground"
       THEN /\ master_pid' = "orig" /\ Goto("orig", "listen")
       ELSE /\ \/ pc' = [pc EXCEPT !["orig"] = "exited", !["daemon"] = "setsid"]
               \/ Goto("orig", "fatal")
            /\ UNCHANGED master_pid
  /\ UNCHANGED <<mode, term, monitor_pid, alive>>

(* The daemon's rest of initialize_process: setsid and chdir (fatal on    *)
(* failure), then balancer->master_pid = getpid().                         *)
DaemonSetup ==
  /\ pc["daemon"] = "setsid"
  /\ \/ master_pid' = "daemon" /\ Goto("daemon", "listen")
     \/ UNCHANGED master_pid /\ Goto("daemon", "fatal")
  /\ UNCHANGED <<mode, term, monitor_pid, alive>>

(* create_serversocket and the listener's epoll ADD: a failed socket,     *)
(* bind or listen is fatal.                                                *)
Listen(p) ==
  /\ pc[p] = "listen"
  /\ Goto(p, "running") \/ Goto(p, "fatal")
  /\ UNCHANGED <<mode, term, master_pid, monitor_pid, alive>>

(* write_log with OCTOPUS_LOG_EXIT, part 1: kill the monitor's pid if set. *)
FatalKillMonitor(p) ==
  /\ pc[p] = "fatal"
  /\ term' = IF monitor_pid # NoPid THEN [term EXCEPT ![monitor_pid] = TRUE] ELSE term
  /\ Goto(p, "waitmon")
  /\ UNCHANGED <<mode, master_pid, monitor_pid, alive>>

(* Part 2: waitpid(balancer->monitor_pid); with pid 0, any child in the   *)
(* group.                                                                   *)
FatalWaitMonitor(p) ==
  /\ pc[p] = "waitmon" /\ WaitReturns(p)
  /\ Goto(p, "killmaster")
  /\ UNCHANGED <<mode, term, master_pid, monitor_pid, alive>>

(* Part 3: kill(balancer->master_pid, SIGTERM) if it is set.  A signal p  *)
(* sends itself is handled before kill returns: p is then the master and  *)
(* enters clean_exit.                                                      *)
FatalKillMaster(p) ==
  /\ pc[p] = "killmaster"
  /\ \/ /\ master_pid \in {NoPid, p} => master_pid = NoPid
        /\ term' = IF master_pid # NoPid THEN [term EXCEPT ![master_pid] = TRUE] ELSE term
        /\ UNCHANGED alive /\ Goto(p, "waitmaster")
     \/ /\ master_pid = p
        /\ alive' = 0 /\ Goto(p, "cleanexit") /\ UNCHANGED term
  /\ UNCHANGED <<mode, master_pid, monitor_pid>>

(* Part 4: waitpid(balancer->master_pid), then exit(-1).                  *)
FatalExit(p) ==
  /\ pc[p] = "waitmaster" /\ WaitReturns(p)
  /\ Goto(p, "exited")
  /\ UNCHANGED <<mode, term, master_pid, monitor_pid, alive>>

(* signal_handler -> clean_exit on a pending SIGTERM: the master sets     *)
(* alive = 0 and waits for a child; the monitor detaches and exits; any   *)
(* other process (one whose pid is not published yet) exits.  SIGTERM is  *)
(* blocked while its handler runs, and the handler never returns.          *)
Deliverable(p) == term[p] /\ Live(p) /\ pc[p] # "cleanexit"

Deliver(p) ==
  /\ Deliverable(p)
  /\ term' = [term EXCEPT ![p] = FALSE]
  /\ IF p = master_pid
       THEN alive' = 0 /\ Goto(p, "cleanexit")
       ELSE UNCHANGED alive /\ Goto(p, "exited")
  /\ UNCHANGED <<mode, master_pid, monitor_pid>>

(* clean_exit in the master: waitpid(-1) for the monitor, remove the SHM  *)
(* segment, exit(0).                                                        *)
CleanExitWait(p) ==
  /\ pc[p] = "cleanexit" /\ WaitReturns(p)
  /\ Goto(p, "exited")
  /\ UNCHANGED <<mode, term, master_pid, monitor_pid, alive>>

(* octopus-admin's kill command: kill(monitor_pid), kill(master_pid),     *)
(* after checking that the balancer is alive.  A pid of 0 signals the     *)
(* admin's own process group, which ends the admin there.                  *)
cmd_kill ==
  /\ alive = 1
  /\ term' = IF monitor_pid = NoPid THEN term
             ELSE [q \in Procs |-> term[q] \/ (q = monitor_pid /\ Live(q))
                                           \/ (q = master_pid /\ Live(q))]
  /\ UNCHANGED <<mode, pc, master_pid, monitor_pid, alive>>

(* The operator sends SIGTERM to a running master.                         *)
StopMaster ==
  /\ master_pid # NoPid /\ pc[master_pid] = "running"
  /\ term' = [term EXCEPT ![master_pid] = TRUE]
  /\ UNCHANGED <<mode, pc, master_pid, monitor_pid, alive>>

(* Ctrl-C at the console while orig runs: SIGINT (same handler) to orig   *)
(* and the monitor, its process group.                                     *)
Interrupt ==
  /\ Live("orig")
  /\ term' = [q \in Procs |-> term[q] \/ (q \in {"orig", "monitor"} /\ Live(q))]
  /\ UNCHANGED <<mode, pc, master_pid, monitor_pid, alive>>

(* A pending signal is delivered before the process's next step.          *)
Step(p) ==
  \/ /\ ~Deliverable(p)
     /\ \/ p = "orig" /\ (InitMonitor \/ InitSessions \/ InitProcess)
        \/ p = "monitor" /\ MonitorStart
        \/ p = "daemon" /\ DaemonSetup
        \/ p \in Masters /\ (Listen(p) \/ FatalKillMonitor(p) \/ FatalWaitMonitor(p)
                             \/ FatalKillMaster(p) \/ FatalExit(p) \/ CleanExitWait(p))
  \/ Deliver(p)

Next == (\E p \in Procs : Step(p)) \/ cmd_kill \/ StopMaster \/ Interrupt

(* Each live process is scheduled, and the kernel delivers a pending      *)
(* signal; the operator and the admin act when they choose.                *)
Spec == Init /\ [][Next]_vars /\ \A p \in Procs : WF_vars(Step(p))

TypeOK ==
  /\ mode \in Modes
  /\ pc \in [Procs -> {"none", "fork", "init", "process", "setsid", "listen", "start",
                       "running", "fatal", "waitmon", "killmaster", "waitmaster",
                       "cleanexit", "exited"}]
  /\ term \in [Procs -> BOOLEAN]
  /\ master_pid \in Masters \cup {NoPid} /\ monitor_pid \in {"monitor", NoPid}
  /\ alive \in {0, 1}

(* Once the master starts stopping, through clean_exit or write_log's     *)
(* fatal path, every process of the balancer eventually exits: clean_exit *)
(* says the master waits for the monitor to quit, and write_log that it   *)
(* sends termination signals to monitor and master.                        *)
Stopping == alive = 0 \/ \E p \in Masters : pc[p] \in {"fatal", "waitmon", "killmaster", "waitmaster"}
Stopped == \A p \in Procs : ~Live(p)
ShutdownCompletes == Stopping ~> Stopped
=============================================================================
