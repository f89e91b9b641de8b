# TLA+ models of octopuslb

octopuslb (`octopus-server`) is a TCP load balancer written in C. This
directory has TLA+ models of its parts, the TLC configurations that check
them, and `PROJECT.json`. That file records the components, the runs, the
mutants, the map from each definition to the source lines it models, the
findings, and the hazards.

## The system

| Part | Source | What it does |
|------|--------|--------------|
| Event loop | `src/octopus.c` `main` | One thread runs level-triggered epoll. The listener's EPOLLIN accepts a client. Per-leg events go to the handlers. |
| Session state machine | `src/octopus.c` `client_read` … `clone_write`, `delete_session`, `disconnect_*` | Each session has three legs: client, member and clone. It has three buffers of `MESSAGE_SIZE_LIMIT` bytes and a set of `STATE_*` flags that decide the epoll interest of each leg. |
| Connection establisher | `src/connect.c` `connect_server` | Opens the member leg, and the clone leg when cloning is on. |
| Selection engine | `src/algorithms.c` | `get_available_servers` filters the backends. RR, LC, LL, HASH and STATIC pick one. The URI hash table is sticky. |
| Free-session queue | `src/init.c` `initialize_unused_session`, `src/octopus.c` `get_new_session`, `add_unused_session` | A ring of session pointers. |
| Health monitor | `src/monitor.c`, `set_cloned_state` in `src/octopus.h` | A forked process that probes backends, reaps deleted ones, keeps the clone mode and rebalances the hash table. It writes to the registry in shared memory without locks. |
| Admin tool | `src/admin.c` | Edits the shared registry: create, delete, enable, disable, standby, maxc, maxl, algorithm and clone mode. |
| Startup and shutdown | `main`, `src/init.c`, `src/logging.c` `write_log`, `src/signals.c` | `main` forks the monitor, then (in daemon mode) forks the daemon master and exits. Both processes learn each other's pid only from `master_pid` and `monitor_pid` in shared memory. SIGTERM and SIGINT run `clean_exit`. A fatal `write_log` kills and waits for the monitor and the master, then exits. |
| Config | `src/config.c` `parse_config_file` | Reads the file line by line. Lines inside a `[name]` … `[/name]` section set the server's values, and the close creates the server. Global directives set balancer fields. |

**How the parts interact.**
1. `accept` takes a session from the free queue.
2. Unless the algorithm is HASH or STATIC, `choose_server` calls `get_available_servers`, the algorithm and then `connect_server`. This increments the chosen backend's `c`.
3. The handlers move bytes between the legs.
4. `disconnect_*` decrements `c`. `delete_session` returns the slot to the queue.

The monitor and the admin tool change backend status, `maxc` and the hash table while the loop reads them.

## Modules

**Proxy.tla** models the event loop, the session state machine and
`connect_server`.

State:
- `sess`: the SESSION array. Each record holds:
  - `state`: the set of flag names;
  - per leg (`cli`, `mem`, `clo`): whether an fd is open, whether it is in the epoll set, and its interest (`{"IN","OUT"}` subsets, standing for ro_ev, wr_ev, rw_ev and null_ev);
  - `member` and `clone`;
  - the three `*_used_buffer` counts.
- `conn`: `SERVER.c` for each backend.
- `pool`: the free queue.
- `leaked`: sockets that no session refers to.

Handlers:
- Each C handler is an operator from a *world* record to a new world. Its guards and assignments follow the C.
- An epoll event with both IN and OUT runs the read handler and then the write handler on the result, exactly as `main` does.
- Every epoll event is one atomic action: `Accept`, `AcceptRejected`, and for each leg `*Hangup` (ERR/HUP) and `*Ready` (IN and/or OUT).

Environment choices:
- `read()` returns 0 (EOF or error, which the handlers treat alike) or any count up to the free room.
- `write()` returns -1 or any count up to the bytes buffered. A write on a closed fd returns -1.
- `connect_server`'s member leg ends in one of `ok`, `socket`, `setup` (fcntl, bind or connect failed after `socket()`) or `epoll` (ADD failed).
- Its clone leg ends in one of those or `bind`.

Selection is abstracted to its contract: any member below `maxc`, and any clone below `maxc` when cloning is on. It is called `Selections`. Two more abstractions:
- **Pool.** Proxy uses the FIFO pool the specification describes, not the code's ring. The code's ring never hands out a session (see SessionQueue). With the ring, no behaviour of the data plane could be checked at all.
- **Backends.** Backend status and standby are fixed at Enabled.

**SessionQueue.tla** models the code's ring:
- `head`, `rear` and `slot`;
- `initialize_unused_session`, `get_new_session` (including its `% head`, where head 0 crashes the process) and `add_unused_session`.

**FreePool.tla** is the abstract pool from the specification: acquire, reject only when empty, and release. `SessionQueue` is mapped onto it by `INSTANCE FreePool WITH free <- Queued`. `Queued` is the entries from head+1 to rear, matching the pre-increment of both `get_new_session` and `add_unused_session`.

**Selection.tla** models the selection engine of `src/algorithms.c` over
the backend registry. Its state:
- `next_member` and `next_clone`: the cursors;
- `hash_table` and `usage`: the sticky URI table and `hash_table_usage`;
- per kind (`member`, `clone`) and index: `enabled`, `standby` and `c`.

Its actions:
- `choose_server(h)`: `get_available_servers`, then the algorithm, then the
  `c` increments of `connect_server`. `h` is the URI hash, or `NoURI`.
  `connect_server` may fail on either leg, and the clone is counted only when
  both legs connect.
- `EndSession`: the `c--` of `disconnect_member` and `disconnect_clone`.
- `SetEnabled` and `SetStandby`: the admin tool's `cmd_enable`,
  `cmd_disable` and `cmd_standby` (a toggle).
- `cmd_algorithm`: the admin tool switches the running algorithm within the
  cfg's `Algorithms`, leaving the cursors and the hash table as they are.

`get_available_servers` returns a record with the two sorted lists
(`SetToSortSeq` of the normal servers, or of the relaxed ones when none is
normal), `use_member_standby`, `use_clone` and the cursor corrections. The
clone fallback is translated as written: it tests `use_member_standby` and
writes `server_next_member_id` (algorithms.c:93-94). `Rotate` is RR's
"entry after the cursor, else the first". `Lowest` is the strict-`<` scan
that LC and LL share, starting after the cursor. DJBHash is abstracted to a
small set of hash values, which is enough for hits, re-assignments and
misses.

**Registry.tla** composes the three processes that share the backend
registry without a lock. Each step of a process is atomic, and the
processes interleave between steps.
- **Event loop.** It selects through an `INSTANCE Selection`, under the constant `Algorithm`, LC or HASH. The loop calls `choose_server` only for algorithms other than HASH and STATIC (octopus.c:232), so the runs use LC (`ChooseLC`, `choose_server` with `set_lc_server`). The HASH actions `Select` and `HashCommit` are `set_hash_server` as written, kept for when that path is reached; `Rebalance` runs only under HASH, as `rebalance_hash` does.
  Selection's `enabled`, `standby` and `c` are mapped onto the registry's
  `status`, `standby` and `c`. Its choice is split where it reads the
  registry and later writes what it read:
  - `Select(h)` is `set_hash_server` up to `set_lc_server`: a hit on a valid member, a miss, or no URI.
  - `HashCommit` is the usage decrement and increment, and the table write.
  - `Connect(ok)` is `connect_server`'s `c += 1`.
  - `EndSession(i)` is `disconnect_member`'s `c -= 1` through the session's member pointer.
  - `loop` holds the loop's place and what it read; `sessions` counts the sessions on each slot.
- **Monitor** (`mon` is its place in one pass of `initialize_monitor`):
  - `Reap` is `handle_delete_servers` on one slot. It memsets the slot and frees its hash entries.
  - `CheckStart` and `CheckEnd(verdict)` are `check_server_state`, split at its connect-and-select wait. The verdict is `alive`, `dead` or `error` (nothing written).
  - `Rebalance(high, low, k)` is `rebalance_hash`. The SNMP loads are abstracted to a choice of the high and low member and of how many entries move; `NoRebalance` is a pass without it.
- **Admin tool:** `cmd_create`, `cmd_delete`, `cmd_enable`, `cmd_disable` and `cmd_standby` on single members, with `set_subject`'s checks (`Subject`).

**Lifecycle.tla** models the processes of a server from the shared-memory
setup on: `orig` (started from the console), `daemon` (the detached master
in daemon mode) and `monitor` (orig's child). `pc[p]` is the next thing
process `p` does, and `term[p]` is a pending SIGTERM or SIGINT.
- **Startup.** `InitMonitor` forks the monitor; a failed fork is only logged. `MonitorStart` is the child publishing `monitor_pid`. `InitSessions` is `initialize_fds` and `initialize_sessions`. `InitProcess` makes orig the master in foreground mode; in daemon mode orig forks and exits, and `DaemonSetup` is the child's `setsid`, `chdir` and `master_pid`. `Listen` is `create_serversocket`. Each of them may fail fatally.
- **Fatal exit.** `FatalKillMonitor`, `FatalWaitMonitor`, `FatalKillMaster` and `FatalExit` are the four steps of `write_log`'s `OCTOPUS_LOG_EXIT` path. `kill` happens only for a pid above 0, `waitpid(0)` waits for any child, and a signal a process sends itself is handled before `kill` returns.
- **Signals.** `Deliver` runs `clean_exit` on a pending signal before the process's next step: the master sets `alive = 0` and goes to `CleanExitWait` (`waitpid(-1)`, SHM removal, exit); any other process exits. SIGTERM is blocked while the handler runs (`Deliverable`). `WaitReturns` is `waitpid`: only orig has a child, the monitor.
- **Environment.** `cmd_kill` is the admin's kill command. `StopMaster` is an operator's SIGTERM to the master, and `Interrupt` is Ctrl-C to orig's process group.

**ConfigParser.tla** is `parse_config_file` reading the server sections,
one line per step. A line is a record: `[d |-> "open"]`, `[d |-> "close"]`,
or a directive `[d |-> k, v |-> x]`. `cur` holds the parser's per-server
locals and `defaults` holds `default_maxc` and `default_maxl`.
- `ServerDirective` is the `if (inServerSection)` block. `Fatal` holds its fatal checks and `Assign` its assignments, as written: `clone = false` writes `standbyState`, and an unknown word is fatal only if `errno` (0 there) is set.
- `CloseSection` is the `[/` branch, taken whether or not a section is open. It runs `create_balancer_server`, which appends with no MAXSERVERS check, then resets the locals except the address.
- `OpenSection`, `DefaultDirective`, `Ignored` (a server directive outside a section) and `EndOfFile` are the other branches.
- The first section's address is the uninitialised `serverIP`: the model value `Garbage`.

`Declared(file)` is the reference, read from spec.md. It is a `FoldLeft` of `DeclStep` over the lines and gives the servers the file declares, or `Invalid` for a configuration error. Such an error is a bad value, a nested or stray section mark, an unclosed section, a section without an address, or more than MAXSERVERS servers.

**MCProxy.tla**, **MCSessionQueue.tla**, **MCSelection.tla**, **MCRegistry.tla** and **MCConfigParser.tla** are the model-checking instances.

## Runs

| Run | Config | Expect | What it shows |
|-----|--------|--------|---------------|
| proxy_safety | MCProxy.cfg | pass | `TypeOK`; `ConnAccounting` (each backend's `c` equals the number of sessions whose leg to it is connected); `NoMissedWrite` (a leg whose buffer has bytes to drain is registered for EPOLLOUT). Covers RR with cloning and every connect failure outcome. |
| proxy_flush_liveness | MCProxyLive.cfg | pass | `FlushThenClose`: after the member leaves with bytes still owed to the client, the client leg is eventually closed. The property checks that close happens, not that every owed byte was written before it. This is the specification's "member EOF with 200 bytes pending" scenario. |
| released_twice | MCReleasedTwice.cfg | violation | `SessionReleasedOnce`: an EPOLLIN\|EPOLLOUT client event whose read hits EOF deletes the session in `client_read`. `client_write` then fails on the closed fd and deletes it again, so the slot is in the free queue twice. Two accepts later, two clients share one session. |
| full_buffer_polled | MCFullBuffer.cfg | violation | `NoReadIntoFullBuffer`: `member_write` sets `MEM_READ_READY` while `MEM_BUFF_FULL`. A zero-byte read is then taken for EOF and the member is cut mid-response. |
| orphan_hash | MCOrphanHash.cfg | violation | `NoOrphanSession`: under HASH, `STATE_FRESH` is never set, so no member is ever chosen. |
| fd_leak | MCFdLeak.cfg | violation | `NoFdLeak`: failures in `connect_server` after `socket()` leave descriptors open. |
| session_queue_init | MCSessionQueue.cfg | violation | `PoolRefinement`: the queue as initialised is empty, so every accept is rejected. It fails in the initial state, so this run says nothing about steps after it, such as the `(head+1) % head` wrap at octopus.c:826 (see the hazard list). |
| select | MCSelect.cfg | pass | With `cmd_algorithm` switching between RR, HASH, LC and LL, and servers failing and going on standby: `TypeOK`; `MemberChoiceValid` (the chosen member is enabled and below `maxc`, and on standby only if no normal one is available); `RoundRobinRotates` (RR picks the available entry after the previous one, wrapping); `LeastConnections` (LC picks a member with the fewest connections. On a tie the code keeps the member at the rotated cursor, and otherwise takes the first strictly lower one in list order. The property checks only that the choice is minimal, not how ties are broken); `LeastLoad` (LL minimises `load + c * session_weight`); `UsageMatchesTable` (`hash_table_usage[m]` equals the number of table entries that point at `m`, through hits, re-assignments and misses). |
| deleted_revived | MCDeletedRevived.cfg | violation | `NeverRevived`: `check_server_state` reads the status, waits for its probe, then writes ENABLED or FAILED. An admin delete made during the wait is overwritten, and the deleted server serves again. The same holds for a disable. |
| config_servers | MCConfig.cfg | violation | `ServersAsDeclared`: when the parse ends, the server starts with exactly the declared servers, and a file with an error stops it. TLC's trace is a lone `[/` line, which creates a server with an uninitialised address, and the server starts. Separate runs restricted to well-formed sections showed the property failing in five more ways. A `status = bogus` is accepted. `clone = false` clears `standby = true`. `default_maxc` inside a section overrides its `maxc`. An unclosed last section is dropped. A second server with MAXSERVERS = 1 overflows the array. |
| shutdown_hang | MCLifecycle.cfg | violation | `ShutdownCompletes`: once the master starts stopping, every process eventually exits. It fails on two paths, and TLC returns one or the other depending on how its two workers schedule the search. (1) An operator's SIGTERM to a foreground master that started normally: `clean_exit` never signals the monitor, so the master blocks in `waitpid(-1)` (signals.c:35). A daemon master has no children, so it exits and leaves the monitor running. (2) `initialize_sessions` fails before the monitor has published its pid: `write_log` skips the kill and `waitpid(0)` waits forever for a monitor that never exits (logging.c:51). The property cannot see the admin tool's `kill(0)` at admin.c:923, because there the master is never signalled and stopping never starts. |
| freed_slot_referenced | MCFreedRef.cfg | violation | `FreedSlotUnreferenced`: under LC the loop chooses a member (c still 0), the admin deletes it, the monitor reaps it, and `connect_server` then increments `c` of the freed slot. A later `cmd_create` resets `c` under the live session, and its end drives `c` negative. The same window in `set_hash_server` writes a hash entry onto the freed slot. |

The runs other than released_twice constrain the search to behaviours in
which no slot has been released twice (`MCSingleRelease`). Without that
constraint the double release, and the sharing of a session it leads to,
breaks every other property, and those runs would only report that one
bug. `FlushThenClose` states the same restriction in the property itself,
as `[]IsInjective(pool) => ...`.

The checker admits twelve runs. Two earlier violation runs gave up their places and remain hazards with notes. One showed `RoundRobinRotates` broken by the clone fallback at algorithms.c:93. The other showed `NoOrphanSession` broken under RR: a member error or hang-up with nothing owed to the client only disconnects the member (octopus.c:663, 297, 307), and the client stays attached to nothing.

Each property of a passing run has a mutant in `PROJECT.json`: a plausible
coding error, defined next to the operator it replaces, that TLC shows
breaks the property.

## Bounds

- **Sessions, members, clones.** Two sessions let two connections interleave and let a slot be re-accepted. Two members make choice and `maxc` matter. One clone is enough for the clone path.
- **Symmetry.** Member symmetry is used in the safety run. Members are interchangeable under the contract Proxy models. The liveness run uses no symmetry.
- **Buffers.** `MESSAGE_SIZE_LIMIT = 2` gives empty, partly full and full buffers, and partial reads and writes. Every guard in the handlers compares only with 0 and the limit.
- **maxc.** `MaxConn = 1` makes "no member available" reachable with two sessions.
- **Selection.** Three members make "the entry after" differ from "the next index". The `select` run uses no clones, `maxc = 2` and one hash value plus `NoURI`:
  - connection counts of 0, 1 and 2 differ between members, which LC and LL need;
  - the one hash value still gives a miss, a hit and a re-assignment once its member fails or fills;
  - `MCLoad` gives members different loads.
  Two hash values with all four algorithms took over four minutes. With no clones the `select` run cannot reach the clone fallback at algorithms.c:93-94. There, when no clone is normal, the fallback tests the member standby flag and overwrites the member cursor. An earlier run with two clones found it breaking `RoundRobinRotates`. It is now a hazard without a run, because the shutdown model needed that run's place.
- **Registry.** Three slots with two configured let a slot be reaped in the middle of the array and at its end, and a freed slot be created again. `MaxC = 1` makes a member invalid after one session. Both runs use `Algorithm = "LC"`, the path the loop reaches. `MCBound` caps the sessions per slot at 2; they only grow past `maxc` after a slot's count was reset. Both Registry runs find their violation within eight steps.
- **ConfigParser.** Files of up to six lines over nine line kinds: the section marks, one address, and one value for each bug class. Two sections with an address each fit, which is enough for leftover state between sections and, with `MAXSERVERS = 1`, for overflow. `DEFAULT_MAXC` keeps the code's 500.
- **Lifecycle.** It has no numeric bound: the three processes and their program counters are the whole state (284 states). Both modes are checked.
- **Pool and leaks.** `MCBound` caps the pool length (it only grows past the session count through double release). `MaxLeaked = 1` caps orphaned sockets: failures that leak are offered only below it.

## Fairness

`WF_vars(ClientReady(s))`: the loop never blocks except in `epoll_wait`, and
level-triggered epoll reports a registered, ready fd on every call. So a
client leg with registered interest that keeps its socket open is
eventually served. No fairness is assumed for members or clones, because a
backend may stall forever.

Lifecycle has `WF_vars(Step(p))` for each process. The kernel schedules
every runnable process and delivers a pending unblocked signal before the
process next runs. A process blocked in `waitpid` is not enabled. The
operator, Ctrl-C and the admin tool have no fairness: they act when
someone chooses to.

## Not modelled, and the plan

Sessions:
1. **Selection, remaining.** `DJBHash` and the URI parser as pure operators, checked against a reference over short strings. STATIC affinity properties. Proxy still uses the selection contract, not `Selection`.
2. **Monitor and admin, remaining.**
   - Clones in Registry, and `set_cloned_state`.
   - `cmd_maxc` racing a selection.
   - The monitor's descriptor leak on an immediate connect error (monitor.c:76).
   - A passing Registry run needs a property that holds under these races. Every one tried so far is broken by the two findings above.
3. **Event batches at the fd level.** Stale events after fd reuse within one `epoll_wait` batch.
4. **Further properties.** The clone fallback at algorithms.c:93 (see Bounds), `CloneFailureNonFatal` (connect.c:157) and a byte-level model of the clone stream (the `strncpy` at octopus.c:419).

Not modelled at all:
- the global directives of the config file (each copies one parsed value into the balancer or exits), logging text, the SHM removal in `clean_exit`, SNMP polling I/O and shared-memory setup. These are I/O whose results appear as constants or as nondeterministic inputs.
- `check_server_snmp` and `calc_effective_load`: SNMP I/O and a load formula whose results Registry replaces with a nondeterministic high/low choice.
- byte counters (`bsent`, `brecv`, `completed_c`), which no decision reads.
