--------------------------- MODULE ProxyLifecycle ---------------------------
(***************************************************************************)
(* motim/cli/proxy.py: the commands start, stop and status as processes    *)
(* that share the PID file and the operating system's table of processes.  *)
(* Every look at the file, look at a process, signal and unlink is a step. *)
(* The file is written by one os.replace(), so it names a PID or is absent.*)
(***************************************************************************)
EXTENDS Naturals, FiniteSets

CONSTANTS Starts, Stops, Checks,   \* the invocations of start, stop and status
          Pids,                    \* the numbers the operating system hands out
          None                     \* no file; no PID

ASSUME CommandsDisjoint == /\ Starts \cap Stops = {} /\ Starts \cap Checks = {}
                           /\ Stops \cap Checks = {}
ASSUME NoneIsNoPid == None \notin Pids

VARIABLES file,                    \* PID_FILE
          table,                   \* the process under each PID
          pc, known,               \* of each command: its place, and its local pid or child
          same,                    \* history, of each stop: its process still has its PID
          excuses,                 \* history: what went wrong around the commands
          raced                    \* history: a command was under way while another started

vars == <<file, table, pc, known, same, excuses, raced>>

Commands == Starts \cup Stops \cup Checks

Init == /\ file = None /\ table = [p \in Pids |-> "free"]
        /\ pc = [c \in Commands |-> "idle"] /\ known = [c \in Commands |-> None]
        /\ same = [c \in Stops |-> FALSE] /\ excuses = {} /\ raced = FALSE

\* os.kill(pid, 0) answers for a zombie and for a stranger too, but is not permitted for
\* the process of another user, a foreign one.
Alive(p) == table[p] \notin {"free", "foreign"}

Serving == {p \in Pids : table[p] = "serving"}

\* The starts that mitmdump p is a child of; a child stays a zombie until it is waited for.
Supervisors(p) == {c \in Starts : pc[c] \in {"write", "wait", "finally"} /\ known[c] = p}

Dead(p) == IF Supervisors(p) = {} THEN "free" ELSE "zombie"

\* A start is between its first look at the file and the file that names its child,
\* while another command still has a look at it or a finally ahead.
Starting(c) == c \in Starts /\ pc[c] \notin {"idle", "wait", "finally"}
Underway(d) == pc[d] \notin {"idle", "wait"} \/ (pc[d] = "wait" /\ table[known[d]] # "serving")
Contended == \E c, d \in Commands : c # d /\ Starting(c) /\ Underway(d)

Watch == raced' = (raced \/ Contended)

\* The local pid goes with the command.
Goto(c, place) == /\ pc' = [pc EXCEPT ![c] = place] /\ Watch
                  /\ known' = IF place = "idle" THEN [known EXCEPT ![c] = None] ELSE known
GotoWith(c, place, p) == /\ pc' = [pc EXCEPT ![c] = place] /\ Watch
                         /\ known' = [known EXCEPT ![c] = p]
\* Another process gets p.
Reuse(p) == same' = [d \in Stops |-> same[d] /\ known[d] # p]
Excuse(e) == excuses' = excuses \cup {e}

(***************************************************************************)
(* What the three commands have in common.                                 *)
(***************************************************************************)
Look(c) ==
    /\ pc[c] = "idle"
    /\ IF file # None THEN Goto(c, "read")
       ELSE IF c \in Starts THEN Goto(c, "spawn")
       ELSE UNCHANGED <<pc, known>> /\ Watch
    /\ UNCHANGED <<file, table, same, excuses>>

\* The file may be gone by now: then int(read_text()) raises.
Read(c) ==
    /\ pc[c] = "read"
    /\ IF file = None
       THEN Goto(c, IF c \in Stops THEN "unlink" ELSE "retry") /\ UNCHANGED same
       ELSE /\ GotoWith(c, "alive", file)
            /\ same' = [d \in Stops |-> d = c \/ same[d]]
    /\ UNCHANGED <<file, table, excuses>>

\* A live process stops a start, is reported by a status and signalled by a stop.
Probe(c) ==
    /\ pc[c] = "alive"
    /\ Goto(c, IF ~Alive(known[c]) THEN "unlink" ELSE IF c \in Stops THEN "term" ELSE "idle")
    /\ UNCHANGED <<file, table, same, excuses>>

\* start and status try an unlink that raises once more, whatever the file is by then.
\* A start goes on all the same; a stop and a status end, in a traceback if it raised.
UnlinkStale(c) ==
    /\ pc[c] \in {"unlink", "retry"}
    /\ Goto(c, IF pc[c] = "unlink" /\ file = None /\ c \notin Stops THEN "retry"
               ELSE IF c \in Starts THEN "spawn" ELSE "idle")
    /\ file' = None
    /\ UNCHANGED <<table, same, excuses>>

(***************************************************************************)
(* start.                                                                  *)
(***************************************************************************)
\* The certificate or the addon is missing: Abort before the try.
Aborts(c) ==
    /\ c \in Starts /\ pc[c] = "spawn"
    /\ Goto(c, "idle")
    /\ UNCHANGED <<file, table, same, excuses>>

Spawn(c, p) ==
    /\ c \in Starts /\ pc[c] = "spawn" /\ table[p] = "free"
    /\ table' = [table EXCEPT ![p] = "serving"]
    /\ GotoWith(c, "write", p) /\ Reuse(p)
    /\ UNCHANGED <<file, excuses>>

\* mitmdump is not installed.
SpawnFails(c) ==
    /\ c \in Starts /\ pc[c] = "spawn"
    /\ GotoWith(c, "finally", None)
    /\ UNCHANGED <<file, table, same, excuses>>

Write(c) ==
    /\ c \in Starts /\ pc[c] = "write"
    /\ file' = known[c] /\ Goto(c, "wait")
    /\ UNCHANGED <<table, same, excuses>>

\* _write_pid_atomic() raises: the child runs on and nothing names it.
WriteFails(c) ==
    /\ c \in Starts /\ pc[c] = "write"
    /\ Goto(c, "finally") /\ Excuse("unwritten")
    /\ UNCHANGED <<file, table, same>>

\* Fault: start polls its child instead of waiting for it.
WaitedWithoutReaping(c) ==
    /\ c \in Starts /\ pc[c] = "wait" /\ table[known[c]] = "zombie"
    /\ GotoWith(c, "finally", None)
    /\ UNCHANGED <<file, table, same, excuses>>

\* wait() returns when the child has ended, and reaps it.
Waited(c) ==
    /\ c \in Starts /\ pc[c] = "wait" /\ table[known[c]] = "zombie"
    /\ table' = [table EXCEPT ![known[c]] = "free"]
    /\ GotoWith(c, "finally", None)
    /\ UNCHANGED <<file, same, excuses>>

\* Fault: the child has a session of its own, and Ctrl+C does not reach it.
InterruptedAlone(c) ==
    /\ c \in Starts /\ pc[c] \in {"write", "wait"}
    /\ Goto(c, "finally")
    /\ UNCHANGED <<file, table, same, excuses>>

\* Fault: the interrupt ends start without its finally.
InterruptedAtOnce(c) ==
    /\ c \in Starts /\ pc[c] \in {"write", "wait"}
    /\ table' = [table EXCEPT ![known[c]] = IF @ = "serving" THEN "stopping" ELSE "free"]
    /\ Goto(c, "idle")
    /\ UNCHANGED <<file, same, excuses>>

\* Ctrl+C reaches the child too, which need not have ended when start goes on.
Interrupted(c) ==
    /\ c \in Starts /\ pc[c] \in {"write", "wait"}
    /\ table' = [table EXCEPT ![known[c]] = IF @ = "serving" THEN "stopping" ELSE @]
    /\ Goto(c, "finally")
    /\ UNCHANGED <<file, same, excuses>>

\* The process of a start is gone: an unreaped child of it is reaped by the system.
Reaped(c) == [p \in Pids |-> IF p = known[c] /\ c \in Supervisors(p) /\ table[p] = "zombie"
                             THEN "free" ELSE table[p]]

StartEnds(c) ==
    /\ c \in Starts /\ pc[c] = "finally"
    /\ file' = None /\ Goto(c, "idle") /\ table' = Reaped(c)
    /\ UNCHANGED <<same, excuses>>

\* Fault of the environment: the start is killed, and no finally runs.
StartKilled(c) ==
    /\ c \in Starts /\ pc[c] \in {"write", "wait", "finally"}
    /\ Goto(c, "idle") /\ table' = Reaped(c)
    /\ excuses' = excuses \cup {"killed"} \cup IF pc[c] = "write" THEN {"unwritten"} ELSE {}
    /\ UNCHANGED <<file, same>>

(***************************************************************************)
(* stop.                                                                   *)
(***************************************************************************)
\* SIGTERM to whatever has the PID now; without one os.kill() raises, which goes to the finally.
Terminate(c) ==
    /\ c \in Stops /\ pc[c] = "term"
    /\ Goto(c, IF Alive(known[c]) THEN "sleep" ELSE "finally")
    /\ table' = [table EXCEPT ![known[c]] = IF @ = "serving" THEN "stopping" ELSE @]
    /\ UNCHANGED <<file, same, excuses>>

\* Fault: stop trusts its SIGTERM.
LooksAgainAtNothing(c) ==
    /\ c \in Stops /\ pc[c] = "sleep"
    /\ Goto(c, "finally")
    /\ UNCHANGED <<file, table, same, excuses>>

\* Half a second later.
LooksAgain(c) ==
    /\ c \in Stops /\ pc[c] = "sleep"
    /\ Goto(c, IF Alive(known[c]) THEN "kill" ELSE "finally")
    /\ UNCHANGED <<file, table, same, excuses>>

Kill(c) ==
    /\ c \in Stops /\ pc[c] = "kill"
    /\ table' = [table EXCEPT ![known[c]] = IF Alive(known[c]) THEN Dead(known[c]) ELSE @]
    /\ Goto(c, "finally")
    /\ UNCHANGED <<file, same, excuses>>

StopEnds(c) ==
    /\ c \in Stops /\ pc[c] = "finally"
    /\ file' = None /\ Goto(c, "idle")
    /\ UNCHANGED <<table, same, excuses>>

(***************************************************************************)
(* Processes.  mitmdump may end at any time: its port is taken, or it      *)
(* crashes, or it has been asked to.                                       *)
(***************************************************************************)
ProxyEnds(p) ==
    /\ table[p] \in {"serving", "stopping"}
    /\ table' = [table EXCEPT ![p] = Dead(p)]
    /\ Watch
    /\ UNCHANGED <<file, pc, known, same, excuses>>

StrangerStarts(p, kind) ==
    /\ table[p] = "free"
    /\ table' = [table EXCEPT ![p] = kind]
    /\ Reuse(p)
    /\ Watch
    /\ UNCHANGED <<file, pc, known, excuses>>

StrangerEnds(p) ==
    /\ table[p] \in {"stranger", "foreign"}
    /\ table' = [table EXCEPT ![p] = "free"]
    /\ Watch
    /\ UNCHANGED <<file, pc, known, same, excuses>>

Start(c) == \/ Aborts(c) \/ SpawnFails(c) \/ Write(c) \/ WriteFails(c)
            \/ Waited(c) \/ Interrupted(c) \/ StartEnds(c) \/ StartKilled(c)
            \/ \E p \in Pids : Spawn(c, p)
Stop(c) == Terminate(c) \/ LooksAgain(c) \/ Kill(c) \/ StopEnds(c)
Command(c) == Look(c) \/ Read(c) \/ Probe(c) \/ UnlinkStale(c) \/ Start(c) \/ Stop(c)
Process(p) == ProxyEnds(p) \/ StrangerEnds(p) \/ \E kind \in {"stranger", "foreign"} : StrangerStarts(p, kind)

Next == (\E c \in Commands : Command(c)) \/ (\E p \in Pids : Process(p))

Spec == Init /\ [][Next]_vars

(***************************************************************************)
(* Properties.                                                             *)
(***************************************************************************)
\* Type correctness: a signalled PID was read, a child of a waiting start has not been
\* reaped, and a zombie has a parent.
TypeOK ==
    /\ file \in Pids \cup {None}
    /\ table \in [Pids -> {"free", "serving", "stopping", "zombie", "stranger", "foreign"}]
    /\ pc \in [Commands -> {"idle", "read", "alive", "unlink", "retry", "spawn", "write", "wait",
                            "finally", "term", "sleep", "kill"}]
    /\ known \in [Commands -> Pids \cup {None}]
    /\ same \in [Stops -> BOOLEAN] /\ raced \in BOOLEAN
    /\ excuses \subseteq {"unwritten", "killed"}
    /\ \A c \in Commands : pc[c] \in {"alive", "write", "wait", "term", "sleep", "kill"} => known[c] # None
    /\ \A p \in Pids : table[p] = "zombie" => Supervisors(p) # {}

\* At most one proxy serves, and the PID file names it from the moment its start has
\* written it: stop and status find it, and the next start refuses.  Only a command that
\* runs while another one starts, and a start that dies or fails before it has written,
\* break this (the check at cli/proxy.py:115-128, the writes and the three finallys).
OneNamedProxy ==
    ~raced /\ ~Contended /\ "unwritten" \notin excuses =>
        /\ Cardinality(Serving) <= 1
        /\ \A p \in Serving : file = p \/ \E c \in Supervisors(p) : pc[c] = "write"

\* The PID file outlives a start only if the start was killed: every other way out of
\* start passes its finally.
FileGoesWithStart ==
    file # None /\ "killed" \notin excuses => \E c \in Starts : pc[c] \in {"wait", "finally"}

\* A stop that reaches its finally has ended the process whose PID it read, unless that
\* process was replaced under its PID meanwhile: SIGTERM, half a second, SIGKILL.
StopStops ==
    \A c \in Stops : pc[c] = "finally" /\ same[c] => table[known[c]] \in {"free", "zombie"}
=============================================================================
