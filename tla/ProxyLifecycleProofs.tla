----------------------- MODULE ProxyLifecycleProofs ------------------------
(***************************************************************************)
(* The safety properties of ProxyLifecycle for any number of starts, stops *)
(* and status commands and any set of PIDs.                                *)
(***************************************************************************)
EXTENDS ProxyLifecycle, FiniteSetTheorems, TLAPS

\* No two commands have been in each other's way so far.
Quiet == ~raced /\ ~Contended /\ "unwritten" \notin excuses

Named(p) == file = p \/ \E c \in Supervisors(p) : pc[c] = "write"

\* What a command still ahead of a look, an unlink or a finally knows about the proxies
\* that serve: none at all, or only the one whose PID it holds.
Informed(c) ==
    /\ pc[c] \in {"unlink", "retry", "spawn", "finally", "sleep", "kill"} => Serving = {}
    /\ pc[c] \in {"alive", "term", "write", "wait"} => Serving \subseteq {known[c]}

OrderlyInv ==
    Quiet => (\A p \in Serving : Named(p)) /\ (\A c \in Commands : Informed(c))

\* A stop follows a process it may signal, and leaves it dead.
Follows(c) ==
    same[c] => /\ pc[c] \in {"term", "sleep", "kill"} => table[known[c]] # "foreign"
               /\ pc[c] = "finally" => known[c] \in Pids /\ table[known[c]] \in {"free", "zombie"}

StopInv == \A c \in Stops : Follows(c)

IInv == TypeOK /\ OrderlyInv /\ StopInv /\ FileGoesWithStart
-----------------------------------------------------------------------------
(* Type correctness                                                        *)

\* Types in the first state.
LEMMA TypeInit == Init => TypeOK
BY DEF Init, TypeOK, Supervisors

\* Every step keeps them.
LEMMA TypeStep == TypeOK /\ [Next]_vars => TypeOK'
<1> SUFFICES ASSUME TypeOK, [Next]_vars PROVE TypeOK'
  OBVIOUS
<1> USE CommandsDisjoint, NoneIsNoPid DEF TypeOK, Commands, Supervisors
<1>0. Contended \in BOOLEAN
  BY DEF Contended
<1>1. ASSUME NEW c \in Commands, Look(c) PROVE TypeOK'
  <2>1. CASE file # None
    BY <1>1, <2>1, <1>0 DEF Look, Goto, Watch
  <2>2. CASE file = None /\ c \in Starts
    BY <1>1, <2>2, <1>0 DEF Look, Goto, Watch
  <2>3. CASE file = None /\ c \notin Starts
    BY <1>1, <2>3, <1>0 DEF Look, Watch
  <2> QED
    BY <2>1, <2>2, <2>3
<1>2. ASSUME NEW c \in Commands, Read(c) PROVE TypeOK'
  <2>1. CASE file = None
    BY <1>2, <2>1, <1>0 DEF Read, Goto, Watch
  <2>2. CASE file # None
    <3>1. same' \in [Stops -> BOOLEAN]
      BY <1>2, <2>2 DEF Read
    <3> QED
      BY <1>2, <2>2, <3>1, <1>0 DEF Read, GotoWith, Watch
  <2> QED
    BY <2>1, <2>2
<1>3. ASSUME NEW c \in Commands, Probe(c) PROVE TypeOK'
  BY <1>3 DEF Probe, Goto, GotoWith, Watch, Alive
<1>4. ASSUME NEW c \in Commands, UnlinkStale(c) PROVE TypeOK'
  BY <1>4 DEF UnlinkStale, Goto, GotoWith, Watch
<1>5. ASSUME NEW c \in Commands, Aborts(c) PROVE TypeOK'
  BY <1>5 DEF Aborts, Goto, GotoWith, Watch
<1>6. ASSUME NEW c \in Commands, SpawnFails(c) PROVE TypeOK'
  BY <1>6 DEF SpawnFails, Goto, GotoWith, Watch
<1>7. ASSUME NEW c \in Commands, Write(c) PROVE TypeOK'
  BY <1>7 DEF Write, Goto, GotoWith, Watch
<1>8. ASSUME NEW c \in Commands, WriteFails(c) PROVE TypeOK'
  BY <1>8 DEF WriteFails, Goto, GotoWith, Watch, Excuse
<1>9. ASSUME NEW c \in Commands, Waited(c) PROVE TypeOK'
  BY <1>9 DEF Waited, Goto, GotoWith, Watch
<1>10. ASSUME NEW c \in Commands, Interrupted(c) PROVE TypeOK'
  BY <1>10 DEF Interrupted, Goto, GotoWith, Watch
<1>11. ASSUME NEW c \in Commands, StartEnds(c) PROVE TypeOK'
  BY <1>11 DEF StartEnds, Goto, GotoWith, Watch, Reaped
<1>12. ASSUME NEW c \in Commands, StartKilled(c) PROVE TypeOK'
  BY <1>12 DEF StartKilled, Goto, GotoWith, Watch, Reaped
<1>13. ASSUME NEW c \in Commands, Terminate(c) PROVE TypeOK'
  BY <1>13 DEF Terminate, Goto, GotoWith, Watch, Alive
<1>14. ASSUME NEW c \in Commands, LooksAgain(c) PROVE TypeOK'
  BY <1>14 DEF LooksAgain, Goto, GotoWith, Watch, Alive
<1>15. ASSUME NEW c \in Commands, Kill(c) PROVE TypeOK'
  BY <1>15 DEF Kill, Goto, GotoWith, Watch, Alive, Dead
<1>16. ASSUME NEW c \in Commands, StopEnds(c) PROVE TypeOK'
  BY <1>16 DEF StopEnds, Goto, GotoWith, Watch
<1>17. ASSUME NEW c \in Commands, NEW p \in Pids, Spawn(c, p) PROVE TypeOK'
  BY <1>17 DEF Spawn, GotoWith, Watch, Reuse
<1>18. ASSUME NEW p \in Pids, ProxyEnds(p) PROVE TypeOK'
  BY <1>18 DEF ProxyEnds, Dead, Watch
<1>19. ASSUME NEW p \in Pids, NEW kind \in {"stranger", "foreign"}, StrangerStarts(p, kind) PROVE TypeOK'
  BY <1>19 DEF StrangerStarts, Reuse, Watch
<1>20. ASSUME NEW p \in Pids, StrangerEnds(p) PROVE TypeOK'
  BY <1>20 DEF StrangerEnds, Watch
<1>21. CASE UNCHANGED vars
  BY <1>21 DEF vars
<1> QED
  BY <1>1, <1>2, <1>3, <1>4, <1>5, <1>6, <1>7, <1>8, <1>9, <1>10, <1>11, <1>12, <1>13, <1>14, <1>15, <1>16, <1>17, <1>18, <1>19, <1>20, <1>21 DEF Next, Command, Process, Start, Stop
-----------------------------------------------------------------------------
(* The file and the starts                                                 *)

\* Every step keeps the file with its start.
LEMMA FileStep == TypeOK /\ FileGoesWithStart /\ [Next]_vars => FileGoesWithStart'
<1> SUFFICES ASSUME TypeOK, FileGoesWithStart, [Next]_vars PROVE FileGoesWithStart'
  OBVIOUS
<1> USE CommandsDisjoint, NoneIsNoPid DEF FileGoesWithStart, TypeOK, Commands, Goto, GotoWith
<1>1. ASSUME NEW c \in Commands, Look(c) PROVE FileGoesWithStart'
  BY <1>1 DEF Look
<1>2. ASSUME NEW c \in Commands, Read(c) PROVE FileGoesWithStart'
  BY <1>2 DEF Read
<1>3. ASSUME NEW c \in Commands, Probe(c) PROVE FileGoesWithStart'
  BY <1>3 DEF Probe
<1>4. ASSUME NEW c \in Commands, UnlinkStale(c) PROVE FileGoesWithStart'
  BY <1>4 DEF UnlinkStale
<1>5. ASSUME NEW c \in Commands, Aborts(c) PROVE FileGoesWithStart'
  BY <1>5 DEF Aborts
<1>6. ASSUME NEW c \in Commands, SpawnFails(c) PROVE FileGoesWithStart'
  BY <1>6 DEF SpawnFails
<1>7. ASSUME NEW c \in Commands, Write(c) PROVE FileGoesWithStart'
  BY <1>7 DEF Write
<1>8. ASSUME NEW c \in Commands, WriteFails(c) PROVE FileGoesWithStart'
  BY <1>8 DEF WriteFails, Excuse
<1>9. ASSUME NEW c \in Commands, Waited(c) PROVE FileGoesWithStart'
  BY <1>9 DEF Waited
<1>10. ASSUME NEW c \in Commands, Interrupted(c) PROVE FileGoesWithStart'
  BY <1>10 DEF Interrupted
<1>11. ASSUME NEW c \in Commands, StartEnds(c) PROVE FileGoesWithStart'
  BY <1>11 DEF StartEnds
<1>12. ASSUME NEW c \in Commands, StartKilled(c) PROVE FileGoesWithStart'
  BY <1>12 DEF StartKilled
<1>13. ASSUME NEW c \in Commands, Terminate(c) PROVE FileGoesWithStart'
  BY <1>13 DEF Terminate
<1>14. ASSUME NEW c \in Commands, LooksAgain(c) PROVE FileGoesWithStart'
  BY <1>14 DEF LooksAgain
<1>15. ASSUME NEW c \in Commands, Kill(c) PROVE FileGoesWithStart'
  BY <1>15 DEF Kill
<1>16. ASSUME NEW c \in Commands, StopEnds(c) PROVE FileGoesWithStart'
  BY <1>16 DEF StopEnds
<1>17. ASSUME NEW c \in Commands, NEW p \in Pids, Spawn(c, p) PROVE FileGoesWithStart'
  BY <1>17 DEF Spawn
<1>18. ASSUME NEW p \in Pids, ProxyEnds(p) PROVE FileGoesWithStart'
  BY <1>18 DEF ProxyEnds
<1>19. ASSUME NEW p \in Pids, NEW kind \in {"stranger", "foreign"}, StrangerStarts(p, kind)
      PROVE FileGoesWithStart'
  BY <1>19 DEF StrangerStarts
<1>20. ASSUME NEW p \in Pids, StrangerEnds(p) PROVE FileGoesWithStart'
  BY <1>20 DEF StrangerEnds
<1>21. CASE UNCHANGED vars
  BY <1>21 DEF vars
<1> QED
  BY <1>1, <1>2, <1>3, <1>4, <1>5, <1>6, <1>7, <1>8, <1>9, <1>10, <1>11, <1>12, <1>13, <1>14, <1>15, <1>16, <1>17, <1>18, <1>19, <1>20, <1>21 DEF Next, Command, Process, Start, Stop

-----------------------------------------------------------------------------
(* What a stop follows                                                     *)

\* Every step keeps a stop on the process it read.
LEMMA StopStep == TypeOK /\ StopInv /\ [Next]_vars => StopInv'
<1> SUFFICES ASSUME TypeOK, StopInv, [Next]_vars PROVE StopInv'
  OBVIOUS
<1> USE CommandsDisjoint, NoneIsNoPid DEF StopInv, Follows, TypeOK, Commands, Goto, GotoWith
<1>1. ASSUME NEW c \in Commands, Look(c) PROVE StopInv'
  BY <1>1 DEF Look
<1>2. ASSUME NEW c \in Commands, Read(c) PROVE StopInv'
  BY <1>2 DEF Read
<1>3. ASSUME NEW c \in Commands, Probe(c) PROVE StopInv'
  BY <1>3 DEF Probe, Alive
<1>4. ASSUME NEW c \in Commands, UnlinkStale(c) PROVE StopInv'
  BY <1>4 DEF UnlinkStale
<1>5. ASSUME NEW c \in Commands, Aborts(c) PROVE StopInv'
  BY <1>5 DEF Aborts
<1>6. ASSUME NEW c \in Commands, SpawnFails(c) PROVE StopInv'
  BY <1>6 DEF SpawnFails
<1>7. ASSUME NEW c \in Commands, Write(c) PROVE StopInv'
  BY <1>7 DEF Write
<1>8. ASSUME NEW c \in Commands, WriteFails(c) PROVE StopInv'
  BY <1>8 DEF WriteFails
<1>9. ASSUME NEW c \in Commands, Waited(c) PROVE StopInv'
  BY <1>9 DEF Waited
<1>10. ASSUME NEW c \in Commands, Interrupted(c) PROVE StopInv'
  BY <1>10 DEF Interrupted
<1>11. ASSUME NEW c \in Commands, StartEnds(c) PROVE StopInv'
  <2>1. \A p \in Pids : table'[p] = table[p] \/ table'[p] = "free"
    BY <1>11 DEF StartEnds, Reaped
  <2>2. \A d \in Stops : d # c /\ pc'[d] = pc[d] /\ known'[d] = known[d] /\ same'[d] = same[d]
    BY <1>11 DEF StartEnds
  <2> QED
    BY <2>1, <2>2
<1>12. ASSUME NEW c \in Commands, StartKilled(c) PROVE StopInv'
  <2>1. \A p \in Pids : table'[p] = table[p] \/ table'[p] = "free"
    BY <1>12 DEF StartKilled, Reaped
  <2>2. \A d \in Stops : d # c /\ pc'[d] = pc[d] /\ known'[d] = known[d] /\ same'[d] = same[d]
    BY <1>12 DEF StartKilled
  <2> QED
    BY <2>1, <2>2
<1>13. ASSUME NEW c \in Commands, Terminate(c) PROVE StopInv'
  BY <1>13 DEF Terminate, Alive
<1>14. ASSUME NEW c \in Commands, LooksAgain(c) PROVE StopInv'
  BY <1>14 DEF LooksAgain, Alive
<1>15. ASSUME NEW c \in Commands, Kill(c) PROVE StopInv'
  BY <1>15 DEF Kill, Alive, Dead
<1>16. ASSUME NEW c \in Commands, StopEnds(c) PROVE StopInv'
  BY <1>16 DEF StopEnds
<1>17. ASSUME NEW c \in Commands, NEW p \in Pids, Spawn(c, p) PROVE StopInv'
  <2>1. \A q \in Pids \ {p} : table'[q] = table[q]
    BY <1>17 DEF Spawn
  <2>2. \A d \in Stops : /\ d # c /\ pc'[d] = pc[d] /\ known'[d] = known[d]
                         /\ same'[d] => same[d] /\ known[d] # p
    BY <1>17 DEF Spawn, Reuse
  <2> QED
    BY <2>1, <2>2
<1>18. ASSUME NEW p \in Pids, ProxyEnds(p) PROVE StopInv'
  BY <1>18 DEF ProxyEnds, Dead
<1>19. ASSUME NEW p \in Pids, NEW kind \in {"stranger", "foreign"}, StrangerStarts(p, kind)
      PROVE StopInv'
  <2>1. \A q \in Pids \ {p} : table'[q] = table[q]
    BY <1>19 DEF StrangerStarts
  <2>2. \A d \in Stops : /\ pc'[d] = pc[d] /\ known'[d] = known[d]
                         /\ same'[d] => same[d] /\ known[d] # p
    BY <1>19 DEF StrangerStarts, Reuse
  <2> QED
    BY <2>1, <2>2
<1>20. ASSUME NEW p \in Pids, StrangerEnds(p) PROVE StopInv'
  BY <1>20 DEF StrangerEnds
<1>21. CASE UNCHANGED vars
  BY <1>21 DEF vars
<1> QED
  BY <1>1, <1>2, <1>3, <1>4, <1>5, <1>6, <1>7, <1>8, <1>9, <1>10, <1>11, <1>12, <1>13, <1>14, <1>15, <1>16, <1>17, <1>18, <1>19, <1>20, <1>21 DEF Next, Command, Process, Start, Stop
-----------------------------------------------------------------------------
(* One proxy, and the file names it                                        *)

\* No step makes up for a race or a failed write.
LEMMA QuietBefore == TypeOK /\ [Next]_vars /\ Quiet' => Quiet
<1> SUFFICES ASSUME TypeOK, [Next]_vars, Quiet' PROVE Quiet
  OBVIOUS
<1>1. CASE Next
  <2>1. Watch /\ excuses \subseteq excuses'
    BY <1>1 DEF Next, Command, Process, Start, Stop, Look, Read, Probe, UnlinkStale, Aborts, SpawnFails,
       Write, WriteFails, Waited, Interrupted, StartEnds, StartKilled, Terminate, LooksAgain, Kill,
       StopEnds, Spawn, ProxyEnds, StrangerStarts, StrangerEnds, Goto, GotoWith, Excuse
  <2> QED
    BY <2>1 DEF Quiet, Watch
<1>2. CASE UNCHANGED vars
  BY <1>2 DEF vars, Quiet, Contended, Starting, Underway
<1> QED
  BY <1>1, <1>2

\* While one command looks at the file, no start is about to write it.
LEMMA NobodyWrites ==
  ASSUME ~Contended, NEW c \in Commands, pc[c] \notin {"idle", "wait"}
  PROVE  \A p \in Pids : \A d \in Supervisors(p) : pc[d] = "write" => d = c
BY DEF Contended, Starting, Underway, Supervisors, Commands

\* Every step keeps, in the absence of a race, what each command knows of the proxies.
LEMMA OrderlyStep == TypeOK /\ OrderlyInv /\ [Next]_vars => OrderlyInv'
<1> DEFINE Good == (\A p \in Serving : Named(p)) /\ (\A c \in Commands : Informed(c))
<1> SUFFICES ASSUME TypeOK, OrderlyInv, [Next]_vars, Quiet' PROVE Good'
  BY DEF OrderlyInv
<1>0. Quiet /\ Good
  BY QuietBefore DEF OrderlyInv
<1> USE <1>0, CommandsDisjoint, NoneIsNoPid
     DEF Serving, Named, Informed, Supervisors, TypeOK, Commands, Goto, GotoWith
<1>1. ASSUME NEW c \in Commands, Look(c) PROVE Good'
  <2>1. CASE file # None
    BY <1>1, <2>1 DEF Look
  <2>2. CASE file = None /\ c \notin Starts
    BY <1>1, <2>2 DEF Look
  <2>3. CASE file = None /\ c \in Starts
    <3>1. ASSUME NEW p \in Serving PROVE FALSE
      <4>1. PICK d \in Starts : pc[d] = "write"
        BY <2>3
      <4>2. pc' = [pc EXCEPT ![c] = "spawn"] /\ d # c
        BY <1>1, <2>3, <4>1 DEF Look
      <4> QED
        BY <4>1, <4>2 DEF Quiet, Contended, Starting, Underway
    <3> QED
      BY <1>1, <2>3, <3>1 DEF Look
  <2> QED
    BY <2>1, <2>2, <2>3
<1>2. ASSUME NEW c \in Commands, Read(c) PROVE Good'
  <2>1. Serving \subseteq {file}
    BY <1>2, NobodyWrites DEF Read, Quiet
  <2> QED
    BY <1>2, <2>1 DEF Read
<1>3. ASSUME NEW c \in Commands, Probe(c) PROVE Good'
  BY <1>3 DEF Probe, Alive
<1>4. ASSUME NEW c \in Commands, UnlinkStale(c) PROVE Good'
  BY <1>4 DEF UnlinkStale
<1>5. ASSUME NEW c \in Commands, Aborts(c) PROVE Good'
  BY <1>5 DEF Aborts
<1>6. ASSUME NEW c \in Commands, SpawnFails(c) PROVE Good'
  BY <1>6 DEF SpawnFails
<1>7. ASSUME NEW c \in Commands, Write(c) PROVE Good'
  BY <1>7 DEF Write
<1>8. ASSUME NEW c \in Commands, WriteFails(c) PROVE Good'
  BY <1>8 DEF WriteFails, Excuse, Quiet
<1>9. ASSUME NEW c \in Commands, Waited(c) PROVE Good'
  BY <1>9 DEF Waited
<1>10. ASSUME NEW c \in Commands, Interrupted(c) PROVE Good'
  BY <1>10 DEF Interrupted
<1>11. ASSUME NEW c \in Commands, StartEnds(c) PROVE Good'
  BY <1>11 DEF StartEnds, Reaped
<1>12. ASSUME NEW c \in Commands, StartKilled(c) PROVE Good'
  <2>1. Serving' = Serving /\ pc' = [pc EXCEPT ![c] = "idle"] /\ c \in Starts
    BY <1>12 DEF StartKilled, Reaped
  <2>2. pc[c] # "write"
    BY <1>12 DEF StartKilled, Quiet
  <2>3. \A d \in Starts : d # c => pc'[d] = pc[d] /\ known'[d] = known[d]
    BY <1>12 DEF StartKilled
  <2>4. \A p \in Serving' : Named(p)'
    BY <1>12, <2>1, <2>2, <2>3 DEF StartKilled
  <2>5. \A d \in Commands : Informed(d)'
    BY <1>12, <2>1 DEF StartKilled
  <2> QED
    BY <2>4, <2>5
<1>13. ASSUME NEW c \in Commands, Terminate(c) PROVE Good'
  BY <1>13 DEF Terminate, Alive
<1>14. ASSUME NEW c \in Commands, LooksAgain(c) PROVE Good'
  BY <1>14 DEF LooksAgain, Alive
<1>15. ASSUME NEW c \in Commands, Kill(c) PROVE Good'
  BY <1>15 DEF Kill, Alive, Dead
<1>16. ASSUME NEW c \in Commands, StopEnds(c) PROVE Good'
  BY <1>16 DEF StopEnds
<1>17. ASSUME NEW c \in Commands, NEW p \in Pids, Spawn(c, p) PROVE Good'
  BY <1>17 DEF Spawn, Quiet, Contended, Starting, Underway
<1>18. ASSUME NEW p \in Pids, ProxyEnds(p) PROVE Good'
  BY <1>18 DEF ProxyEnds, Dead
<1>19. ASSUME NEW p \in Pids, NEW kind \in {"stranger", "foreign"}, StrangerStarts(p, kind)
      PROVE Good'
  BY <1>19 DEF StrangerStarts
<1>20. ASSUME NEW p \in Pids, StrangerEnds(p) PROVE Good'
  BY <1>20 DEF StrangerEnds
<1>21. CASE UNCHANGED vars
  BY <1>21 DEF vars
<1> QED
  BY <1>1, <1>2, <1>3, <1>4, <1>5, <1>6, <1>7, <1>8, <1>9, <1>10, <1>11, <1>12, <1>13, <1>14, <1>15, <1>16, <1>17, <1>18, <1>19, <1>20, <1>21 DEF Next, Command, Process, Start, Stop

-----------------------------------------------------------------------------
(* Theorems                                                                *)

\* The invariant holds throughout.
LEMMA Inductive == Spec => []IInv
<1>1. Init => IInv
  BY TypeInit, NoneIsNoPid DEF Init, IInv, OrderlyInv, StopInv, Follows, FileGoesWithStart, Serving, Informed, Commands
<1>2. IInv /\ [Next]_vars => IInv'
  BY TypeStep, OrderlyStep, StopStep, FileStep DEF IInv
<1> QED
  BY <1>1, <1>2, PTL DEF Spec

\* Every command and every process keeps within its states.
THEOREM TypeCorrect == Spec => []TypeOK
BY Inductive, PTL DEF IInv

\* Commands that keep out of each other's way leave at most one proxy serving, and the
\* PID file names it from the moment it is written.
THEOREM OneProxy == Spec => []OneNamedProxy
<1>1. IInv => OneNamedProxy
  <2> SUFFICES ASSUME IInv, Quiet PROVE /\ Cardinality(Serving) <= 1
                                        /\ \A p \in Serving : Named(p)
    BY DEF OneNamedProxy, Quiet, Named
  <2>1. \A p \in Serving : Named(p)
    BY DEF IInv, OrderlyInv
  <2>2. \E x : Serving \subseteq {x}
    <3>1. CASE \E c \in Starts : pc[c] = "write"
      BY <3>1 DEF IInv, OrderlyInv, Informed, Commands
    <3>2. CASE ~ \E c \in Starts : pc[c] = "write"
      BY <2>1, <3>2 DEF Named, Supervisors
    <3> QED
      BY <3>1, <3>2
  <2>3. PICK x : Serving \subseteq {x}
    BY <2>2
  <2>4. Serving = {} \/ Serving = {x}
    BY <2>3
  <2> QED
    BY <2>1, <2>4, FS_EmptySet, FS_Singleton
<1> QED
  BY <1>1, Inductive, PTL

\* Only a killed start leaves its PID file behind.
THEOREM FileCleaned == Spec => []FileGoesWithStart
BY Inductive, PTL DEF IInv

\* A stop leaves the process it read the PID of dead, unless the PID was reused.
THEOREM StopWorks == Spec => []StopStops
<1>1. IInv => StopStops
  BY DEF IInv, StopInv, Follows, StopStops
<1> QED
  BY <1>1, Inductive, PTL
=============================================================================
