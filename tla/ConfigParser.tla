--------------------------- MODULE ConfigParser ---------------------------
(***************************************************************************)
(* parse_config_file (src/config.c) reading the server sections of the    *)
(* configuration file, one line per step, and create_balancer_server      *)
(* (src/octopus.h) storing each server it closes.  A line is a record:     *)
(* [d |-> "open"] is "[name]", [d |-> "close"] is "[/name]", and           *)
(* [d |-> k, v |-> x] is the directive "k = x".  Names, the global         *)
(* directives that do not touch servers, and log text are left out.        *)
(*                                                                         *)
(* Declared(file) is what the file declares, read from the specification: *)
(* a server for each closed section with the values its own lines give    *)
(* and the defaults for the rest, or Invalid when the file has a          *)
(* configuration error, which must stop the server from starting.         *)
(***************************************************************************)
EXTENDS Integers, Sequences, SequencesExt

CONSTANTS
  Lines,          \* the lines a file may hold
  MaxLines,       \* the longest file
  MAXSERVERS,     \* capacity of balancer->members and balancer->clones
  IPs,            \* addresses inet_aton accepts
  Garbage         \* an uninitialised struct in_addr

ASSUME MaxLines \in Nat /\ MAXSERVERS \in Nat \ {0} /\ Garbage \notin IPs

DEFAULT_MAXC == 500    \* initialize_balancer: balancer->default_maxc
DEFAULT_MAXL == 4      \* balancer->default_maxl (4.0)
ServerDirectives == {"port", "maxc", "maxl", "status", "standby", "ip", "clone"}

VARIABLES
  file,       \* the lines read so far
  inSection,  \* inServerSection
  cur,        \* serverStatus, standbyState, serverClone, serverPort, ...
  defaults,   \* balancer->default_maxc and default_maxl
  members,    \* balancer->members[0 .. nmembers-1]
  clones,     \* balancer->clones[0 .. nclones-1]
  outcome     \* "reading", "done" (return 0) or "fatal" (exit)

vars == <<file, inSection, cur, defaults, members, clones, outcome>>

(* The per-server locals as parse_config_file initialises and resets    *)
(* them; the address is not among them.                                  *)
Fresh(d, ip) == [status |-> "ENABLED", standby |-> FALSE, clone |-> FALSE,
                 port |-> 80, maxc |-> d.maxc, maxl |-> d.maxl, ip |-> ip]

Init ==
  /\ file = <<>>
  /\ inSection = FALSE
  /\ defaults = [maxc |-> DEFAULT_MAXC, maxl |-> DEFAULT_MAXL]
  /\ cur = Fresh(defaults, Garbage)
  /\ members = <<>> /\ clones = <<>>
  /\ outcome = "reading"

(* errno at the status, standby and clone checks: the parse clears it    *)
(* and only strtol sets it in the loop, whose failures are fatal.        *)
errno == 0

Read(l) ==
  /\ outcome = "reading" /\ Len(file) < MaxLines
  /\ file' = Append(file, l)

(* A directive of an open section: a value out of range is fatal; an     *)
(* unknown status, standby or clone word is fatal only if errno is set.  *)
(* "clone = false" sets standbyState, not serverClone.                   *)
Fatal(l) ==
  \/ l.d = "port" /\ l.v \notin 1..65535
  \/ l.d = "maxc" /\ l.v < 0
  \/ l.d = "maxl" /\ l.v <= 0
  \/ l.d = "ip" /\ l.v \notin IPs
  \/ l.d \in {"status", "standby", "clone"} /\ errno # 0
       /\ l.v \notin {"enabled", "disabled", "true", "false"}

Assign(s, l) ==
  CASE l.d \in {"port", "maxc", "maxl", "ip"} -> [s EXCEPT ![l.d] = l.v]
    [] l.d = "status" /\ l.v = "enabled"  -> [s EXCEPT !.status = "ENABLED"]
    [] l.d = "status" /\ l.v = "disabled" -> [s EXCEPT !.status = "DISABLED"]
    [] l.d = "standby" /\ l.v \in {"true", "false"} -> [s EXCEPT !.standby = (l.v = "true")]
    [] l.d = "clone" /\ l.v = "true"  -> [s EXCEPT !.clone = TRUE]
    [] l.d = "clone" /\ l.v = "false" -> [s EXCEPT !.standby = FALSE]
    [] OTHER -> s

ServerDirective(l) ==
  /\ l.d \in ServerDirectives /\ inSection
  /\ Read(l)
  /\ IF Fatal(l) THEN outcome' = "fatal" /\ UNCHANGED cur
                 ELSE cur' = Assign(cur, l) /\ UNCHANGED outcome
  /\ UNCHANGED <<inSection, defaults, members, clones>>

(* A server directive outside a section matches no branch.               *)
Ignored(l) ==
  /\ l.d \in ServerDirectives /\ ~inSection
  /\ Read(l)
  /\ UNCHANGED <<inSection, cur, defaults, members, clones, outcome>>

(* create_balancer_server: copy the server to the end of its array and  *)
(* increment the count; nothing checks MAXSERVERS.  Its port check can  *)
(* not fail on a port parse_config_file accepted.                         *)
create_balancer_server(s) ==
  LET srv == [k \in {"status", "standby", "port", "maxc", "maxl", "ip"} |-> s[k]]
  IN IF s.clone THEN clones' = Append(clones, srv) /\ UNCHANGED members
                ELSE members' = Append(members, srv) /\ UNCHANGED clones

(* "[/": create the server from the locals, whether or not a section is *)
(* open, then reset the locals but the address.                          *)
CloseSection(l) ==
  /\ l.d = "close"
  /\ Read(l)
  /\ create_balancer_server(cur)
  /\ cur' = Fresh(defaults, cur.ip)
  /\ inSection' = FALSE
  /\ UNCHANGED <<defaults, outcome>>

(* "[": a section starts; the locals keep what the last lines set.       *)
OpenSection(l) ==
  /\ l.d = "open"
  /\ Read(l)
  /\ inSection' = TRUE
  /\ UNCHANGED <<cur, defaults, members, clones, outcome>>

(* default_maxc and default_maxl, read in or out of a section, set the  *)
(* balancer default and the current server's value too.                  *)
DefaultDirective(l) ==
  /\ l.d \in {"default_maxc", "default_maxl"}
  /\ Read(l)
  /\ IF l.d = "default_maxl" /\ l.v < 0
       THEN outcome' = "fatal" /\ UNCHANGED <<cur, defaults>>
       ELSE LET k == IF l.d = "default_maxc" THEN "maxc" ELSE "maxl" IN
            /\ defaults' = [defaults EXCEPT ![k] = l.v]
            /\ cur' = [cur EXCEPT ![k] = l.v]
            /\ UNCHANGED outcome
  /\ UNCHANGED <<inSection, members, clones>>

(* fgets returns NULL: fclose and return 0.                              *)
EndOfFile ==
  /\ outcome = "reading"
  /\ outcome' = "done"
  /\ UNCHANGED <<file, inSection, cur, defaults, members, clones>>

Next ==
  \/ \E l \in Lines : ServerDirective(l) \/ Ignored(l) \/ CloseSection(l)
                      \/ OpenSection(l) \/ DefaultDirective(l)
  \/ EndOfFile

Spec == Init /\ [][Next]_vars

TypeOK ==
  /\ file \in Seq(Lines) /\ Len(file) <= MaxLines
  /\ inSection \in BOOLEAN
  /\ cur.status \in {"ENABLED", "DISABLED"} /\ cur.ip \in IPs \cup {Garbage}
  /\ Len(members) + Len(clones) <= MaxLines
  /\ outcome \in {"reading", "done", "fatal"}

(***************************************************************************)
(* What the file declares.  Every value must be valid, a section must be  *)
(* closed before the next opens and by the end of the file, a close needs *)
(* an open section, a section must give its address, and each array      *)
(* holds at most MAXSERVERS servers; a server directive outside a section *)
(* is ignored.  A section's own maxc and maxl win over default_maxc and   *)
(* default_maxl; otherwise the default in force at its close applies.     *)
(***************************************************************************)
Invalid == "invalid"
NoValue == "none"

Valid(l) ==
  CASE l.d = "port" -> l.v \in 1..65535
    [] l.d = "maxc" -> l.v >= 0
    [] l.d = "maxl" -> l.v > 0
    [] l.d = "ip"   -> l.v \in IPs
    [] l.d = "status" -> l.v \in {"enabled", "disabled"}
    [] l.d \in {"standby", "clone"} -> l.v \in {"true", "false"}
    [] l.d = "default_maxl" -> l.v >= 0
    [] OTHER -> TRUE

Section == [status |-> "enabled", standby |-> "false", clone |-> "false", port |-> 80,
            maxc |-> NoValue, maxl |-> NoValue, ip |-> NoValue]

Server(sec, d) ==
  [status |-> IF sec.status = "enabled" THEN "ENABLED" ELSE "DISABLED",
   standby |-> sec.standby = "true", port |-> sec.port, ip |-> sec.ip,
   maxc |-> IF sec.maxc = NoValue THEN d.maxc ELSE sec.maxc,
   maxl |-> IF sec.maxl = NoValue THEN d.maxl ELSE sec.maxl]

DeclStep(a, l) ==
  LET bad == [a EXCEPT !.bad = TRUE] IN
  CASE a.bad -> a
    [] l.d \in ServerDirectives /\ ~a.in -> a
    [] ~Valid(l) -> bad
    [] l.d = "open"  -> IF a.in THEN bad ELSE [a EXCEPT !.in = TRUE, !.sec = Section]
    [] l.d = "close" ->
         IF ~a.in \/ a.sec.ip = NoValue THEN bad
         ELSE LET k == IF a.sec.clone = "true" THEN "clones" ELSE "members" IN
              [a EXCEPT !.in = FALSE, ![k] = Append(@, Server(a.sec, a.defaults))]
    [] l.d \in {"default_maxc", "default_maxl"} ->
         LET k == IF l.d = "default_maxc" THEN "maxc" ELSE "maxl" IN
         [a EXCEPT !.defaults[k] = l.v]
    [] a.in -> [a EXCEPT !.sec[l.d] = l.v]
    [] OTHER -> a

Declared(f) ==
  LET r == FoldLeft(DeclStep, [bad |-> FALSE, in |-> FALSE, sec |-> Section,
                               defaults |-> [maxc |-> DEFAULT_MAXC, maxl |-> DEFAULT_MAXL],
                               members |-> <<>>, clones |-> <<>>], f)
  IN IF r.bad \/ r.in \/ Len(r.members) > MAXSERVERS \/ Len(r.clones) > MAXSERVERS
       THEN Invalid ELSE <<r.members, r.clones>>

(* parse_config_file starts the server with exactly the servers the file *)
(* declares, and a file with a configuration error stops it (spec.md     *)
(* section 6: an invalid directive value is fatal at startup).  The      *)
(* parser's locals carry over between sections and its value checks      *)
(* depend on errno, so a reviewer reads this off no single line.          *)
ServersAsDeclared ==
  outcome # "reading" =>
    IF Declared(file) = Invalid THEN outcome = "fatal"
    ELSE outcome = "done" /\ <<members, clones>> = Declared(file)
=============================================================================
