------------------------- MODULE CaptureSystemProofs -------------------------
(***************************************************************************)
(* The safety properties of CaptureSystem for any number of hook threads   *)
(* and of flushing threads, any queues and batches and any number of       *)
(* calls.  The pipeline's own invariant, proved in CapturePipelineProofs,  *)
(* carries over, as a step of the process is one of the pipeline or leaves *)
(* it alone; the writer's variables are followed anew, because its items   *)
(* are now the pipeline's events, of which it may see only some.           *)
(***************************************************************************)
EXTENDS CaptureSystem, CapturePipelineProofs

\* The writer's variables range over what the code stores in them.
WriterTypeOK ==
    /\ wq \in Seq(Nat) /\ wbatch \in Seq(Nat) /\ wdb \in Seq(Nat)
    /\ wputs \in Nat /\ wdropped \in Nat /\ wwritten \in Nat /\ wfailed \in Nat
    /\ wseen \in Nat /\ wproducer \in [{Pipe} -> W!ProducerPCs]

\* The pipeline's worker is in the writer's enqueue() only while it forwards.
Calls == wproducer[Pipe] # "idle" => worker = "forward"

\* Events that the writer may have by now.
Sent ==
    processed + (IF \/ worker \in {"failed", "done"}
                    \/ worker = "forward" /\ wproducer[Pipe] = "count"
                 THEN 1 ELSE 0)

\* What the writer committed, holds and has waiting climbs through the events.
Below(s, t) == \A a \in Elements(s), b \in Elements(t) : a < b
Ordered ==
    /\ Climbs(wdb, Sent) /\ Climbs(wbatch, Sent) /\ Climbs(wq, Sent)
    /\ Below(wbatch, wq) /\ Below(wdb, wq)
    /\ wworker # "committed" => Below(wdb, wbatch)

\* Nothing gets to the writer that is not in the spec.
InSpecs ==
    WriteSpecs => /\ Elements(wq) \subseteq Elements(recorded)
                  /\ Elements(wbatch) \subseteq Elements(recorded)
                  /\ Elements(wdb) \subseteq Elements(recorded)

\* What the pipeline has passed on is in the writer or counted as dropped.
InCount == IF wproducer[Pipe] = "count" THEN 1 ELSE 0
PassedOn ==
    /\ wputs = wwritten + wfailed + Len(wbatch) + Len(wq)
    /\ wworker \notin {"failing", "unopened"} => Len(forwarded) + InCount = wdropped + wputs

\* The writer ends only on the way out, with what it had at the beginning of it.
Leaving ==
    /\ wstop => phase # "running"
    /\ handed <= wputs
    /\ wworker = "dead" => wstop /\ W!Settled >= handed
    /\ joined => wworker = "dead"

\* The store is closed after the writer, and once; the exit is orderly only
\* when everything is over.
Closing ==
    /\ phase \in {"saving", "saved", "gone"} => wcloser = "done"
    /\ copy["main"] # None => phase = "saving"
    /\ exit = "orderly" => phase = "gone"

\* While no update() has raced a flush() every copy is whole, and a clean spec
\* is in its file.
Flushing ==
    ~raced => /\ \A f \in Flushers : copy[f] # None => copy[f] = Len(recorded)
              /\ ~dirty => saved = Len(recorded)

\* Once the store is closed what is committed is in the spec file.
Filed ==
    (phase \in {"saved", "gone"} /\ exit # "unsaved" /\ joined /\ WriteSpecs /\ ~raced) =>
        \A i \in DOMAIN wdb : \E j \in 1..saved : recorded[j] = wdb[i]

-----------------------------------------------------------------------------
(* Sequences and their elements                                            *)

\* What Append, Tail and \o do to the elements.
LEMMA ElementsOf ==
  ASSUME NEW s \in Seq(Nat), NEW t \in Seq(Nat), NEW e \in Nat
  PROVE  /\ Elements(Append(s, e)) = Elements(s) \cup {e}
         /\ Elements(s \o t) = Elements(s) \cup Elements(t)
         /\ s # <<>> => Elements(s) = Elements(Tail(s)) \cup {Head(s)}
<1>1. Len(s) \in Nat /\ Len(t) \in Nat /\ DOMAIN s = 1..Len(s) /\ DOMAIN t = 1..Len(t)
  BY LenProperties
<1>2. Elements(Append(s, e)) = Elements(s) \cup {e}
  <2> DEFINE u == Append(s, e)
  <2>1. /\ u \in Seq(Nat) /\ Len(u) = Len(s) + 1
        /\ \A i \in 1..Len(s) : u[i] = s[i]
        /\ u[Len(s) + 1] = e
    BY AppendProperties
  <2>2. DOMAIN u = 1..(Len(s) + 1)
    BY <2>1, LenProperties
  <2> HIDE DEF u
  <2> QED
    BY <1>1, <2>1, <2>2 DEF Elements, u
<1>3. Elements(s \o t) = Elements(s) \cup Elements(t)
  <2> DEFINE u == s \o t
  <2>1. /\ u \in Seq(Nat) /\ Len(u) = Len(s) + Len(t)
        /\ \A i \in 1..(Len(s) + Len(t)) : u[i] = IF i <= Len(s) THEN s[i] ELSE t[i - Len(s)]
    BY ConcatProperties
  <2>2. DOMAIN u = 1..(Len(s) + Len(t))
    BY <2>1, LenProperties
  <2> HIDE DEF u
  <2>3. \A x \in Elements(u) : x \in Elements(s) \cup Elements(t)
    <3> SUFFICES ASSUME NEW i \in DOMAIN u
                 PROVE  u[i] \in Elements(s) \cup Elements(t)
      BY DEF Elements
    <3>1. CASE i <= Len(s)
      BY <1>1, <2>1, <2>2, <3>1 DEF Elements
    <3>2. CASE ~(i <= Len(s))
      <4>1. i - Len(s) \in DOMAIN t /\ u[i] = t[i - Len(s)]
        BY <1>1, <2>1, <2>2, <3>2
      <4> QED
        BY <4>1 DEF Elements
    <3> QED
      BY <3>1, <3>2
  <2>4. \A i \in DOMAIN s : s[i] \in Elements(u)
    <3> SUFFICES ASSUME NEW i \in DOMAIN s PROVE s[i] \in Elements(u)
      OBVIOUS
    <3>1. i \in DOMAIN u /\ u[i] = s[i]
      BY <1>1, <2>1, <2>2
    <3> QED
      BY <3>1 DEF Elements
  <2>5. \A i \in DOMAIN t : t[i] \in Elements(u)
    <3> SUFFICES ASSUME NEW i \in DOMAIN t PROVE t[i] \in Elements(u)
      OBVIOUS
    <3>1. Len(s) + i \in DOMAIN u /\ ~(Len(s) + i <= Len(s)) /\ (Len(s) + i) - Len(s) = i
      BY <1>1, <2>2
    <3>2. u[Len(s) + i] = t[i]
      BY <2>1, <2>2, <3>1
    <3> QED
      BY <3>1, <3>2 DEF Elements
  <2>6. Elements(s) \subseteq Elements(u) /\ Elements(t) \subseteq Elements(u)
    BY <2>4, <2>5 DEF Elements
  <2> QED
    BY <2>3, <2>6 DEF u
<1>4. ASSUME s # <<>>
      PROVE  Elements(s) = Elements(Tail(s)) \cup {Head(s)}
  <2> DEFINE u == Tail(s)
  <2>1. u \in Seq(Nat) /\ Len(u) = Len(s) - 1 /\ (\A i \in 1..Len(u) : u[i] = s[i + 1])
        /\ Len(s) # 0 /\ Head(s) = s[1]
    BY <1>4, HeadTailProperties, EmptySeq
  <2>2. DOMAIN u = 1..(Len(s) - 1)
    BY <2>1, LenProperties
  <2> HIDE DEF u
  <2>3. \A i \in DOMAIN s : s[i] \in Elements(u) \cup {Head(s)}
    <3> SUFFICES ASSUME NEW i \in DOMAIN s, i # 1 PROVE s[i] \in Elements(u)
      BY <2>1
    <3>1. i - 1 \in DOMAIN u /\ (i - 1) + 1 = i
      BY <1>1, <2>2
    <3>2. u[i - 1] = s[i]
      BY <2>1, <2>2, <3>1
    <3> QED
      BY <3>1, <3>2 DEF Elements
  <2>4. \A i \in DOMAIN u : u[i] \in Elements(s)
    <3> SUFFICES ASSUME NEW i \in DOMAIN u PROVE u[i] \in Elements(s)
      OBVIOUS
    <3>1. i + 1 \in DOMAIN s /\ u[i] = s[i + 1]
      BY <1>1, <2>1, <2>2
    <3> QED
      BY <3>1 DEF Elements
  <2>5. Head(s) \in Elements(s)
    <3>1. 1 \in DOMAIN s
      BY <1>1, <2>1
    <3> QED
      BY <2>1, <3>1 DEF Elements
  <2>6. Elements(s) \subseteq Elements(u) \cup {Head(s)} /\ Elements(u) \subseteq Elements(s)
    BY <2>3, <2>4 DEF Elements
  <2> QED
    BY <2>5, <2>6 DEF u
<1> QED
  BY <1>2, <1>3, <1>4

\* The empty sequence has no elements and climbs to anything.
LEMMA Empty ==
  ASSUME NEW s, s = <<>>
  PROVE  s \in Seq(Nat) /\ Elements(s) = {} /\ Len(s) = 0 /\ \A n \in Nat : Climbs(s, n)
<1>1. s \in Seq(Nat) /\ Len(s) = 0
  BY EmptySeq
<1>2. DOMAIN s = 1..0
  BY <1>1, LenProperties
<1>3. Elements(s) = {}
  BY <1>2 DEF Elements
<1>4. \A n \in Nat : Climbs(s, n)
  BY <1>1 DEF Climbs
<1> QED
  BY <1>1, <1>3, <1>4

\* The tail of a climbing sequence climbs, from its head on.
LEMMA ClimbsTail ==
  ASSUME NEW s \in Seq(Nat), NEW n \in Nat, Climbs(s, n), s # <<>>
  PROVE  /\ Climbs(Tail(s), n) /\ Head(s) \in 1..n
         /\ \A b \in Elements(Tail(s)) : Head(s) < b
<1> DEFINE t == Tail(s)
<1>1. /\ t \in Seq(Nat) /\ Len(t) = Len(s) - 1 /\ \A i \in 1..Len(t) : t[i] = s[i + 1]
      /\ Len(s) \in Nat /\ Len(s) # 0 /\ Head(s) = s[1]
  BY HeadTailProperties, LenProperties, EmptySeq
<1>2. DOMAIN t = 1..Len(t)
  BY <1>1, LenProperties
<1> HIDE DEF t
<1>3. 1 \in 1..Len(s) /\ \A i \in 1..Len(t) : i + 1 \in 1..Len(s) /\ 1 < i + 1
  BY <1>1
<1>4. \A i, j \in 1..Len(t) : i < j => t[i] < t[j]
  <2> SUFFICES ASSUME NEW i \in 1..Len(t), NEW j \in 1..Len(t), i < j
               PROVE  t[i] < t[j]
    OBVIOUS
  <2>1. i + 1 \in 1..Len(s) /\ j + 1 \in 1..Len(s) /\ i + 1 < j + 1
    BY <1>1, <1>3
  <2> QED
    BY <1>1, <2>1 DEF Climbs
<1>5. Climbs(t, n) /\ Head(s) \in 1..n
  BY <1>1, <1>3, <1>4 DEF Climbs
<1>6. \A i \in DOMAIN t : Head(s) < t[i]
  BY <1>1, <1>2, <1>3 DEF Climbs
<1> QED
  BY <1>5, <1>6 DEF Elements, t

\* A climbing sequence can be continued by one that is above it.
LEMMA ClimbsConcat ==
  ASSUME NEW s \in Seq(Nat), NEW t \in Seq(Nat), NEW n \in Nat,
         Climbs(s, n), Climbs(t, n), Below(s, t)
  PROVE  Climbs(s \o t, n)
<1> DEFINE u == s \o t  k == Len(s)  m == Len(t)
<1>1. k \in Nat /\ m \in Nat /\ DOMAIN s = 1..k /\ DOMAIN t = 1..m
  BY LenProperties
<1>2. Len(u) = k + m /\ \A i \in 1..(k + m) : u[i] = IF i <= k THEN s[i] ELSE t[i - k]
  BY ConcatProperties
<1>3. /\ \A i \in 1..k : s[i] \in 1..n
      /\ \A i, j \in 1..k : i < j => s[i] < s[j]
      /\ \A i \in 1..m : t[i] \in 1..n
      /\ \A i, j \in 1..m : i < j => t[i] < t[j]
  BY DEF Climbs
<1>4. \A i \in 1..k, j \in 1..m : s[i] < t[j]
  BY <1>1 DEF Below, Elements
<1> HIDE DEF u, k, m
<1>5. \A i \in 1..(k + m) : \/ i \in 1..k /\ u[i] = s[i]
                            \/ i > k /\ i - k \in 1..m /\ u[i] = t[i - k]
  BY <1>1, <1>2
<1>6. \A i \in 1..(k + m) : u[i] \in 1..n
  BY <1>3, <1>5
<1>7. \A i, j \in 1..(k + m) : i < j => u[i] < u[j]
  <2> SUFFICES ASSUME NEW i \in 1..(k + m), NEW j \in 1..(k + m), i < j
               PROVE  u[i] < u[j]
    OBVIOUS
  <2>1. CASE j \in 1..k
    <3>1. i \in 1..k /\ u[i] = s[i] /\ u[j] = s[j]
      BY <1>1, <1>2, <2>1
    <3> QED
      BY <1>3, <2>1, <3>1
  <2>2. CASE i \in 1..k /\ j \notin 1..k
    BY <1>1, <1>4, <1>5, <2>2
  <2>3. CASE i \notin 1..k
    <3>1. /\ i - k \in 1..m /\ u[i] = t[i - k]
          /\ j - k \in 1..m /\ u[j] = t[j - k]
          /\ i - k < j - k
      BY <1>1, <1>5, <2>3
    <3> QED
      BY <1>3, <3>1
  <2> QED
    BY <2>1, <2>2, <2>3
<1>8. Len(u) = k + m
  BY <1>2
<1> QED
  BY <1>6, <1>7, <1>8 DEF Climbs, u

-----------------------------------------------------------------------------
(* The pipeline in the process                                             *)

\* A step of the process is a step of the pipeline, or leaves it alone.
LEMMA PipelineStep == [SysNext]_sysVars => [Next]_vars
<1> SUFFICES ASSUME [SysNext]_sysVars
             PROVE  [Next]_vars
  OBVIOUS
<1>1. CASE Hook
  BY <1>1 DEF Hook, Next
<1>2. CASE Work \/ Record \/ ForwardReturns \/ ForwardRaises
  BY <1>2 DEF Work, Record, ForwardReturns, ForwardRaises, Next, Worker
<1>3. CASE ForwardSteps \/ Write \/ FlushSpecs
  BY <1>3 DEF ForwardSteps, Write, FlushSpecs, FlushCopies, FlushEnds, pipelineVars
<1>4. CASE EndProcess
  BY <1>4 DEF EndProcess, ExitBegins, WriterCloses, StoreCloses, NothingToSave, Exits,
              pipelineVars
<1>5. CASE UNCHANGED sysVars
  BY <1>5 DEF sysVars, pipelineVars
<1> QED
  BY <1>1, <1>2, <1>3, <1>4, <1>5 DEF SysNext

\* So the pipeline keeps, in the process, everything proved of it.
LEMMA PipelineInvariance == SysSpec => []IInv
<1>1. SysInit => Init
  BY DEF SysInit
<1> QED
  BY <1>1, PipelineStep, Invariance, PTL DEF SysSpec, Spec

-----------------------------------------------------------------------------
(* The writer in the process                                               *)

\* The first state satisfies the invariant of the process.
LEMMA SystemInitially ==
  SysInit => /\ WriterTypeOK /\ Calls /\ Ordered /\ InSpecs /\ PassedOn
             /\ Leaving /\ SysTypeOK /\ Closing /\ Flushing /\ Filed
<1> SUFFICES ASSUME SysInit
             PROVE  /\ WriterTypeOK /\ Calls /\ Ordered /\ InSpecs /\ PassedOn
                    /\ Leaving /\ SysTypeOK /\ Closing /\ Flushing /\ Filed
  OBVIOUS
<1> USE DEF SysInit, Init, W!Init
<1>1. /\ wq \in Seq(Nat) /\ wbatch \in Seq(Nat) /\ wdb \in Seq(Nat)
      /\ Elements(wq) = {} /\ Elements(wbatch) = {} /\ Elements(wdb) = {}
      /\ Len(wq) = 0 /\ Len(wbatch) = 0 /\ Len(forwarded) = 0 /\ Len(recorded) = 0
      /\ \A n \in Nat : Climbs(wq, n) /\ Climbs(wbatch, n) /\ Climbs(wdb, n)
  BY Empty
<1>2. WriterTypeOK
  BY <1>1 DEF WriterTypeOK, W!ProducerPCs
<1>3. Calls
  BY DEF Calls
<1>4. Ordered
  <2>1. Sent \in Nat
    BY DEF Sent
  <2> QED
    BY <1>1, <2>1 DEF Ordered, Below
<1>5. InSpecs
  BY <1>1 DEF InSpecs
<1>6. PassedOn
  BY <1>1 DEF PassedOn, InCount
<1>7. Leaving /\ Closing
  BY SystemAssumption DEF Leaving, Closing, None
<1>8. SysTypeOK /\ Flushing
  <2>1. copy \in [Flushers -> {None} \cup Nat] /\ \A f \in Flushers : copy[f] = None
    OBVIOUS
  <2>2. \A f \in Flushers : copy[f] <= Len(recorded)
    BY <1>1, <2>1 DEF None
  <2>3. saved \in Nat /\ handed \in Nat /\ saved <= Len(recorded)
    BY <1>1
  <2>4. SysTypeOK
    BY <2>1, <2>2, <2>3 DEF SysTypeOK
  <2>5. Flushing
    BY <1>1, <2>1 DEF Flushing
  <2> QED
    BY <2>4, <2>5
<1>9. Filed
  BY DEF Filed
<1> QED
  BY <1>2, <1>3, <1>4, <1>5, <1>6, <1>7, <1>8, <1>9

\* Every step keeps the types of the writer's variables.
LEMMA WriterTypeStep == TypeOK /\ WriterTypeOK /\ [SysNext]_sysVars => WriterTypeOK'
<1> SUFFICES ASSUME TypeOK, WriterTypeOK, [SysNext]_sysVars
             PROVE  WriterTypeOK'
  OBVIOUS
<1> USE DEF WriterTypeOK, W!queueVars, W!counters, W!workerVars, W!callers, W!At, W!ProducerPCs
<1>1. CASE Hook \/ Work \/ Record \/ FlushSpecs \/ UNCHANGED sysVars
  BY <1>1 DEF Hook, Work, Record, FlushSpecs, FlushCopies, FlushEnds, sysVars, writerVars
<1>2. CASE ForwardSteps
  <2>1. CASE W!Put(Pipe, cur)
    <3>1. wq' \in Seq(Nat) /\ wputs' \in Nat
      BY <2>1, AppendProperties DEF W!Put, TypeOK
    <3> QED
      BY <2>1, <3>1 DEF W!Put
  <2>2. CASE W!EnqueueCall(Pipe) \/ W!StartCheck(Pipe) \/ W!StartMark(Pipe) \/ W!StartSpawn(Pipe)
    BY <2>2 DEF W!EnqueueCall, W!StartCheck, W!StartMark, W!StartSpawn
  <2> QED
    BY <1>2, <2>1, <2>2 DEF ForwardSteps
<1>3. CASE ForwardReturns
  BY <1>3 DEF ForwardReturns, W!Count, W!Drop
<1>4. CASE ForwardRaises
  BY <1>4 DEF ForwardRaises, W!StartSpawn
<1>5. CASE Write
  <2>1. CASE W!GetItem
    <3>1. wq' \in Seq(Nat) /\ wbatch' \in Seq(Nat)
      BY <2>1, HeadTailProperties, AppendProperties DEF W!GetItem
    <3> QED
      BY <2>1, <3>1 DEF W!GetItem
  <2>2. CASE W!CountUnopened
    <3>1. wdropped' \in Nat
      BY <2>2, LenProperties DEF W!CountUnopened
    <3> QED
      BY <2>2, <3>1 DEF W!CountUnopened
  <2>3. CASE W!Commit
    <3>1. wdb' \in Seq(Nat)
      BY <2>3, ConcatProperties DEF W!Commit
    <3> QED
      BY <2>3, <3>1 DEF W!Commit
  <2>4. CASE W!Account
    <3>1. wbatch' \in Seq(Nat) /\ wwritten' \in Nat /\ wfailed' \in Nat
      BY <2>4, Empty, LenProperties DEF W!Account
    <3> QED
      BY <2>4, <3>1 DEF W!Account
  <2>5. CASE W!Open \/ W!OpenFails \/ W!GetEmpty \/ W!Decide \/ W!InsertRow \/ W!Rollback
             \/ W!ExitCheck
    BY <2>5 DEF W!Open, W!OpenFails, W!GetEmpty, W!Decide, W!InsertRow, W!Rollback, W!ExitCheck
  <2> QED
    BY <1>5, <2>1, <2>2, <2>3, <2>4, <2>5 DEF Write, W!Worker
<1>6. CASE EndProcess
  BY <1>6 DEF EndProcess, ExitBegins, WriterCloses, StoreCloses, NothingToSave, Exits, writerVars,
              W!CloseCall, W!CloseSet, W!CloseJoin, W!CloseClear
<1> QED
  BY <1>1, <1>2, <1>3, <1>4, <1>5, <1>6 DEF SysNext

\* Only the steps of the forwarding worker enter and leave enqueue().
LEMMA CallsStep == TypeOK /\ WriterTypeOK /\ Calls /\ [SysNext]_sysVars => Calls'
<1> SUFFICES ASSUME TypeOK, WriterTypeOK, Calls, [SysNext]_sysVars
             PROVE  Calls'
  OBVIOUS
<1> USE DEF Calls, W!callers
<1>1. CASE Hook
  <2>1. worker' = worker \/ (worker = "new" /\ worker' = "get")
    BY <1>1, AroundWorker DEF Hook
  <2> QED
    BY <1>1, <2>1 DEF Hook, writerVars
<1>2. CASE Work \/ Record
  <2>1. worker # "forward" /\ wproducer' = wproducer
    BY <1>2 DEF Work, Record, GetEvent, GetTimesOut, AfterTimeout, Parse, Update, CountError,
                CountProcessed, ExitCheck, Go, writerVars
  <2> QED
    BY <2>1
<1>3. CASE ForwardSteps
  BY <1>3 DEF ForwardSteps, pipelineVars, vars
<1>4. CASE ForwardReturns
  BY <1>4 DEF ForwardReturns, W!Count, W!Drop, W!At, WriterTypeOK
<1>5. CASE ForwardRaises
  BY <1>5 DEF ForwardRaises, W!StartSpawn, W!At, WriterTypeOK
<1>6. CASE Write
  BY <1>6 DEF Write, W!Worker, W!Open, W!OpenFails, W!CountUnopened, W!GetItem, W!GetEmpty,
              W!Decide, W!InsertRow, W!Commit, W!Rollback, W!Account, W!ExitCheck,
              pipelineVars, vars
<1>7. CASE FlushSpecs \/ UNCHANGED sysVars
  BY <1>7 DEF FlushSpecs, FlushCopies, FlushEnds, sysVars, pipelineVars, vars, writerVars
<1>8. CASE EndProcess
  BY <1>8 DEF EndProcess, ExitBegins, WriterCloses, StoreCloses, NothingToSave, Exits,
              pipelineVars, vars, writerVars, W!CloseCall, W!CloseSet, W!CloseJoin, W!CloseClear
<1> QED
  BY <1>1, <1>2, <1>3, <1>4, <1>5, <1>6, <1>7, <1>8 DEF SysNext

-----------------------------------------------------------------------------
(* The order of the events in the writer                                   *)

\* The writer's worker and close() leave enqueue() and the pipeline alone.
LEMMA BesideForward ==
  ASSUME Write \/ FlushSpecs \/ EndProcess \/ UNCHANGED sysVars
  PROVE  /\ UNCHANGED <<processed, worker, cur, recorded, forwarded, wproducer, wputs>>
         /\ UNCHANGED vars
<1>1. CASE Write
  BY <1>1 DEF Write, W!Worker, W!Open, W!OpenFails, W!CountUnopened, W!GetItem, W!GetEmpty,
              W!Decide, W!InsertRow, W!Commit, W!Rollback, W!Account, W!ExitCheck,
              W!callers, W!queueVars, pipelineVars, vars, counters, sinks
<1>2. CASE FlushSpecs \/ UNCHANGED sysVars
  BY <1>2 DEF FlushSpecs, FlushCopies, FlushEnds, sysVars, pipelineVars, vars, counters, sinks,
              writerVars
<1>3. CASE EndProcess
  BY <1>3 DEF EndProcess, ExitBegins, WriterCloses, StoreCloses, NothingToSave, Exits,
              pipelineVars, vars, counters, sinks, writerVars,
              W!CloseCall, W!CloseSet, W!CloseJoin, W!CloseClear, W!queueVars
<1> QED
  BY <1>1, <1>2, <1>3

\* The events that the writer may have only become more.
LEMMA SentGrows ==
  ASSUME TypeOK, WriterTypeOK, Calls, [SysNext]_sysVars
  PROVE  Sent \in Nat /\ Sent' \in Nat /\ Sent <= Sent'
<1>1. processed \in Nat /\ wproducer[Pipe] \in W!ProducerPCs
  BY DEF TypeOK, WriterTypeOK
<1> USE DEF Sent
<1>2. CASE Hook
  <2>1. processed' = processed /\ (worker' = worker \/ (worker = "new" /\ worker' = "get"))
    BY <1>2, AroundWorker DEF Hook
  <2>2. wproducer' = wproducer
    BY <1>2 DEF Hook, writerVars
  <2> QED
    BY <1>1, <2>1, <2>2
<1>3. CASE Work \/ Record
  <2>1. wproducer' = wproducer
    BY <1>3 DEF Work, Record, writerVars
  <2>2. worker # "forward" /\ wproducer[Pipe] = "idle"
    BY <1>3 DEF Work, Record, GetEvent, GetTimesOut, AfterTimeout, Parse, Update, CountError,
                CountProcessed, ExitCheck, Go, Calls
  <2>3. \/ worker = "done" /\ worker' = "check" /\ processed' = processed + 1
        \/ worker = "failed" /\ worker' = "done" /\ processed' = processed
        \/ worker \notin {"failed", "done"} /\ processed' = processed
    BY <1>3 DEF Work, Record, GetEvent, GetTimesOut, AfterTimeout, Parse, Update, Raises,
                CountError, CountProcessed, ExitCheck, Go, counters
  <2> QED
    BY <1>1, <2>1, <2>2, <2>3
<1>4. CASE ForwardSteps
  <2>1. /\ worker = "forward" /\ worker' = worker /\ processed' = processed
        /\ wproducer[Pipe] # "count"
    BY <1>4 DEF ForwardSteps, pipelineVars, vars, counters, W!EnqueueCall, W!StartCheck,
                W!StartMark, W!StartSpawn, W!Put, W!At
  <2> QED
    BY <1>1, <2>1
<1>5. CASE ForwardReturns \/ ForwardRaises
  <2>1. worker = "forward" /\ worker' \in {"done", "failed"} /\ processed' = processed
    BY <1>5 DEF ForwardReturns, ForwardRaises, Forward, Raises, Go, counters
  <2> QED
    BY <1>1, <2>1
<1>6. CASE Write \/ FlushSpecs \/ EndProcess \/ UNCHANGED sysVars
  BY <1>1, <1>6, BesideForward
<1> QED
  BY <1>2, <1>3, <1>4, <1>5, <1>6 DEF SysNext

\* The items of the writer change in four steps only.
LEMMA ItemsStep ==
  ASSUME WriterTypeOK, [SysNext]_sysVars
  PROVE  \/ ForwardSteps /\ W!Put(Pipe, cur)
         \/ Write /\ (W!GetItem \/ W!Commit \/ W!Account)
         \/ /\ UNCHANGED <<wq, wbatch, wdb, wputs, wwritten, wfailed>>
            /\ wworker = "committed" <=> wworker' = "committed"
            /\ \/ wdropped' = wdropped
               \/ ForwardReturns /\ W!Drop(Pipe) /\ wworker' = wworker
               \/ Write /\ wworker = "failing" /\ wworker' = "unopened"
            /\ wworker \in {"failing", "unopened"} => wworker' \in {"failing", "unopened"}
            /\ wworker' = "dead" => \/ wworker = "dead"
                                    \/ Write /\ wstop /\ wq = <<>> /\ wbatch = <<>>
<1> USE DEF W!queueVars, W!counters, W!workerVars, W!callers
<1>1. CASE Hook \/ Work \/ Record \/ FlushSpecs \/ UNCHANGED sysVars
  BY <1>1 DEF Hook, Work, Record, FlushSpecs, FlushCopies, FlushEnds, sysVars, writerVars
<1>2. CASE ForwardSteps
  BY <1>2 DEF ForwardSteps, W!EnqueueCall, W!StartCheck, W!StartMark, W!StartSpawn
<1>3. CASE ForwardReturns
  BY <1>3 DEF ForwardReturns, W!Count, W!Drop
<1>4. CASE ForwardRaises
  BY <1>4 DEF ForwardRaises, W!StartSpawn
<1>5. CASE Write
  BY <1>5 DEF Write, W!Worker, W!Open, W!OpenFails, W!CountUnopened, W!GetEmpty, W!Decide,
              W!InsertRow, W!Rollback, W!ExitCheck
<1>6. CASE EndProcess
  BY <1>6 DEF EndProcess, ExitBegins, WriterCloses, StoreCloses, NothingToSave, Exits, writerVars,
              W!CloseCall, W!CloseSet, W!CloseJoin, W!CloseClear
<1> QED
  BY <1>1, <1>2, <1>3, <1>4, <1>5, <1>6 DEF SysNext

\* put(): the event in hand is above everything the writer has.
LEMMA PutOrdered ==
  ASSUME IInv, WriterTypeOK, Calls, Ordered, InSpecs, ForwardSteps, W!Put(Pipe, cur)
  PROVE  Ordered' /\ InSpecs'
<1>1. /\ worker = "forward" /\ UNCHANGED <<processed, worker, recorded>>
      /\ wproducer[Pipe] = "put" /\ wproducer'[Pipe] = "count"
      /\ wq' = Append(wq, cur) /\ UNCHANGED <<wbatch, wdb, wworker>>
  BY DEF ForwardSteps, pipelineVars, vars, counters, sinks, W!Put, W!At, W!workerVars,
         WriterTypeOK
<1>2. cur = processed + 1 /\ processed \in Nat
  BY <1>1 DEF IInv, TypeOK, Backlog
<1>3. Sent = processed /\ Sent' = processed + 1
  BY <1>1, <1>2 DEF Sent
<1>4. /\ wq \in Seq(Nat) /\ wbatch \in Seq(Nat) /\ wdb \in Seq(Nat)
      /\ Climbs(wdb, processed) /\ Climbs(wbatch, processed) /\ Climbs(wq, processed)
  BY <1>3 DEF WriterTypeOK, Ordered
<1>5. Climbs(wq', processed + 1) /\ Climbs(wbatch', processed + 1) /\ Climbs(wdb', processed + 1)
  BY <1>1, <1>2, <1>4, ClimbsAppend, ClimbsHigher
<1>6. Elements(wq') = Elements(wq) \cup {cur}
  BY <1>1, <1>2, <1>4, ElementsOf
<1>7. /\ \A a \in Elements(wbatch) : a \in Nat /\ a < cur
      /\ \A a \in Elements(wdb) : a \in Nat /\ a < cur
  <2>1. DOMAIN wbatch = 1..Len(wbatch) /\ DOMAIN wdb = 1..Len(wdb)
    BY <1>4, LenProperties
  <2> QED
    BY <1>2, <1>4, <2>1 DEF Climbs, Elements
<1>8. Below(wbatch', wq') /\ Below(wdb', wq')
  BY <1>1, <1>6, <1>7 DEF Ordered, Below
<1>9. Ordered'
  BY <1>1, <1>3, <1>5, <1>8 DEF Ordered
<1>10. InSpecs'
  <2> SUFFICES ASSUME WriteSpecs PROVE InSpecs'
    BY DEF InSpecs
  <2>1. cur \in Elements(recorded)
    BY <1>1 DEF IInv, Sinks, Elements
  <2> QED
    BY <1>1, <1>6, <2>1 DEF InSpecs
<1> QED
  BY <1>9, <1>10

\* The worker's get(), commit and account() keep the order.
LEMMA WriteOrdered ==
  ASSUME WriterTypeOK, Ordered, InSpecs, Sent \in Nat, Sent' = Sent, recorded' = recorded,
         W!GetItem \/ W!Commit \/ W!Account
  PROVE  Ordered' /\ InSpecs'
<1>1. /\ wq \in Seq(Nat) /\ wbatch \in Seq(Nat) /\ wdb \in Seq(Nat)
      /\ Climbs(wdb, Sent) /\ Climbs(wbatch, Sent) /\ Climbs(wq, Sent)
  BY DEF WriterTypeOK, Ordered
<1> USE DEF W!queueVars
<1>2. CASE W!GetItem
  <2> DEFINE h == <<Head(wq)>>
  <2>1. /\ wq # <<>> /\ wq' = Tail(wq) /\ wbatch' = Append(wbatch, Head(wq)) /\ wdb' = wdb
        /\ wworker = "get" /\ wworker' = "decide"
    BY <1>2 DEF W!GetItem
  <2>2. /\ Climbs(wq', Sent) /\ Head(wq) \in 1..Sent
        /\ \A b \in Elements(wq') : Head(wq) < b
    BY <1>1, <2>1, ClimbsTail
  <2>3. Head(wq) \in Nat /\ h \in Seq(Nat) /\ Elements(h) = {Head(wq)} /\ Climbs(h, Sent)
    <3>1. Head(wq) \in Nat
      BY <2>2
    <3>2. h \in Seq(Nat) /\ Len(h) = 1 /\ DOMAIN h = 1..1 /\ h[1] = Head(wq)
      BY <3>1
    <3> HIDE DEF h
    <3> QED
      BY <2>2, <3>1, <3>2 DEF Elements, Climbs
  <2>4. /\ Elements(wq) = Elements(wq') \cup {Head(wq)}
        /\ Elements(wbatch') = Elements(wbatch) \cup {Head(wq)}
    BY <1>1, <2>1, <2>3, ElementsOf
  <2>5. Below(wbatch, h)
    BY <2>3, <2>4 DEF Below, Ordered
  <2>6. wbatch' = wbatch \o h
    BY <1>1, <2>1, <2>3, AppendIsConcat
  <2> HIDE DEF h
  <2>7. Climbs(wbatch', Sent)
    BY <1>1, <2>3, <2>5, <2>6, ClimbsConcat
  <2>8. Below(wbatch', wq') /\ Below(wdb', wq') /\ Below(wdb', wbatch')
    BY <2>1, <2>2, <2>4 DEF Below, Ordered
  <2> QED
    BY <1>1, <2>1, <2>2, <2>4, <2>7, <2>8 DEF Ordered, InSpecs
<1>3. CASE W!Commit
  <2>1. /\ wdb' = wdb \o wbatch /\ wq' = wq /\ wbatch' = wbatch
        /\ wworker = "insert" /\ wworker' = "committed"
    BY <1>3 DEF W!Commit
  <2>2. Elements(wdb') = Elements(wdb) \cup Elements(wbatch)
    BY <1>1, <2>1, ElementsOf
  <2>3. Climbs(wdb', Sent)
    BY <1>1, <2>1, ClimbsConcat DEF Ordered
  <2>4. Below(wbatch', wq') /\ Below(wdb', wq')
    BY <2>1, <2>2 DEF Below, Ordered
  <2> QED
    BY <1>1, <2>1, <2>2, <2>3, <2>4 DEF Ordered, InSpecs
<1>4. CASE W!Account
  <2>1. wbatch' = <<>> /\ wdb' = wdb /\ wq' = wq
    BY <1>4 DEF W!Account
  <2>2. Elements(wbatch') = {} /\ Climbs(wbatch', Sent)
    BY <2>1, Empty
  <2>3. Below(wbatch', wq') /\ Below(wdb', wq') /\ Below(wdb', wbatch')
    BY <2>1, <2>2 DEF Below, Ordered
  <2> QED
    BY <1>1, <2>1, <2>2, <2>3 DEF Ordered, InSpecs
<1> QED
  BY <1>2, <1>3, <1>4

\* Only Record adds to the spec.
LEMMA RecordedStays ==
  ASSUME TypeOK,
         \/ Hook \/ Work \/ ForwardSteps \/ ForwardReturns \/ ForwardRaises
         \/ Write \/ FlushSpecs \/ EndProcess \/ UNCHANGED sysVars
  PROVE  recorded' = recorded
<1>1. CASE Hook
  BY <1>1, AroundWorker DEF Hook
<1>2. CASE Work
  BY <1>2 DEF Work, GetEvent, GetTimesOut, AfterTimeout, Parse, Raises, CountError,
              CountProcessed, ExitCheck, sinks
<1>3. CASE ForwardSteps \/ ForwardReturns \/ ForwardRaises
  BY <1>3 DEF ForwardSteps, ForwardReturns, ForwardRaises, Forward, Raises, pipelineVars, vars,
              sinks
<1>4. CASE Write \/ FlushSpecs \/ EndProcess \/ UNCHANGED sysVars
  BY <1>4, BesideForward
<1> QED
  BY <1>1, <1>2, <1>3, <1>4

\* What the spec has recorded stays recorded, at its place.
LEMMA RecordedGrows ==
  ASSUME TypeOK, [SysNext]_sysVars
  PROVE  /\ Elements(recorded) \subseteq Elements(recorded')
         /\ Len(recorded) \in Nat /\ Len(recorded') \in Nat /\ Len(recorded) <= Len(recorded')
         /\ \A j \in 1..Len(recorded) : recorded'[j] = recorded[j]
<1>1. recorded \in Seq(Nat) /\ cur \in Nat /\ Len(recorded) \in Nat
  BY LenProperties DEF TypeOK
<1>2. CASE Record
  <2>1. recorded' = Append(recorded, cur)
    BY <1>2 DEF Record, Update
  <2>2. /\ Len(recorded') = Len(recorded) + 1
        /\ \A j \in 1..Len(recorded) : recorded'[j] = recorded[j]
    BY <1>1, <2>1, AppendProperties
  <2>3. Elements(recorded') = Elements(recorded) \cup {cur}
    BY <1>1, <2>1, ElementsOf
  <2> QED
    BY <1>1, <2>2, <2>3
<1>3. CASE ~Record
  <2>1. recorded' = recorded
    BY <1>3, RecordedStays DEF SysNext
  <2> QED
    BY <1>1, <2>1
<1> QED
  BY <1>2, <1>3

\* Every step keeps the order of the writer's items, and them in the spec.
LEMMA OrderStep ==
  IInv /\ WriterTypeOK /\ Calls /\ Ordered /\ InSpecs /\ [SysNext]_sysVars => Ordered' /\ InSpecs'
<1> SUFFICES ASSUME IInv, WriterTypeOK, Calls, Ordered, InSpecs, [SysNext]_sysVars
             PROVE  Ordered' /\ InSpecs'
  OBVIOUS
<1>1. TypeOK /\ Sent \in Nat /\ Sent' \in Nat /\ Sent <= Sent'
  BY SentGrows DEF IInv
<1>2. CASE ForwardSteps /\ W!Put(Pipe, cur)
  BY <1>2, PutOrdered
<1>3. CASE Write /\ (W!GetItem \/ W!Commit \/ W!Account)
  <2>1. Sent' = Sent /\ recorded' = recorded
    BY <1>3, BesideForward DEF Sent
  <2> QED
    BY <1>1, <1>3, <2>1, WriteOrdered
<1>4. CASE UNCHANGED <<wq, wbatch, wdb>> /\ (wworker = "committed" <=> wworker' = "committed")
  <2>1. Climbs(wdb', Sent') /\ Climbs(wbatch', Sent') /\ Climbs(wq', Sent')
    BY <1>1, <1>4, ClimbsHigher DEF Ordered, WriterTypeOK
  <2>2. Ordered'
    BY <1>4, <2>1 DEF Ordered, Below
  <2>3. InSpecs'
    BY <1>1, <1>4, RecordedGrows DEF InSpecs
  <2> QED
    BY <2>2, <2>3
<1> QED
  BY <1>2, <1>3, <1>4, ItemsStep

-----------------------------------------------------------------------------
(* The counters of the writer                                              *)

\* The batch and the queue of the writer account for what was put.
LEMMA PassedOnStep ==
  TypeOK /\ WriterTypeOK /\ Calls /\ PassedOn /\ [SysNext]_sysVars => PassedOn'
<1> SUFFICES ASSUME TypeOK, WriterTypeOK, Calls, PassedOn, [SysNext]_sysVars
             PROVE  PassedOn'
  OBVIOUS
<1> DEFINE counted == wworker \notin {"failing", "unopened"}
<1>1. /\ wq \in Seq(Nat) /\ wbatch \in Seq(Nat) /\ Len(wq) \in Nat /\ Len(wbatch) \in Nat
      /\ wputs \in Nat /\ wdropped \in Nat /\ wwritten \in Nat /\ wfailed \in Nat
      /\ forwarded \in Seq(Nat) /\ Len(forwarded) \in Nat
      /\ wproducer[Pipe] \in W!ProducerPCs /\ cur \in Nat
  BY LenProperties DEF WriterTypeOK, TypeOK
<1>2. CASE ForwardSteps /\ W!Put(Pipe, cur)
  <2>1. /\ wq' = Append(wq, cur) /\ wputs' = wputs + 1 /\ forwarded' = forwarded
        /\ wproducer[Pipe] = "put" /\ wproducer'[Pipe] = "count"
        /\ UNCHANGED <<wworker, wbatch, wwritten, wfailed, wdropped>>
    BY <1>2 DEF ForwardSteps, pipelineVars, vars, sinks, W!Put, W!At, W!workerVars, W!counters,
                WriterTypeOK
  <2>2. Len(wq') = Len(wq) + 1
    BY <1>1, <2>1, AppendProperties
  <2>3. InCount = 0 /\ InCount' = 1
    BY <2>1 DEF InCount
  <2>4. wputs' = wwritten' + wfailed' + Len(wbatch') + Len(wq')
    BY <1>1, <2>1, <2>2 DEF PassedOn
  <2>5. ASSUME counted'
        PROVE  Len(forwarded') + InCount' = wdropped' + wputs'
    <3>1. Len(forwarded') = Len(forwarded) /\ wdropped' = wdropped /\ wputs' = wputs + 1
      BY <2>1
    <3>2. Len(forwarded) + InCount = wdropped + wputs
      BY <2>1, <2>5 DEF PassedOn
    <3>3. Len(forwarded) \in Nat /\ wdropped \in Nat /\ wputs \in Nat
      BY <1>1
    <3> QED
      BY <2>3, <3>1, <3>2, <3>3
  <2> QED
    BY <2>4, <2>5 DEF PassedOn
<1>3. CASE Write /\ (W!GetItem \/ W!Commit \/ W!Account)
  <2>1. UNCHANGED <<forwarded, wproducer, wputs>>
    BY <1>3, BesideForward
  <2>2. /\ UNCHANGED wdropped
        /\ wworker \notin {"failing", "unopened"} /\ wworker' \notin {"failing", "unopened"}
    BY <1>3 DEF W!GetItem, W!Commit, W!Account, W!counters
  <2>3. wwritten' + wfailed' + Len(wbatch') + Len(wq') = wwritten + wfailed + Len(wbatch) + Len(wq)
    <3>1. CASE W!GetItem
      <4>1. /\ wq # <<>> /\ wq' = Tail(wq) /\ wbatch' = Append(wbatch, Head(wq))
            /\ UNCHANGED <<wwritten, wfailed>>
        BY <3>1 DEF W!GetItem, W!counters
      <4>2. Len(wq') = Len(wq) - 1 /\ Len(wbatch') = Len(wbatch) + 1
        BY <1>1, <4>1, HeadTailProperties, AppendProperties
      <4> QED
        BY <1>1, <4>1, <4>2
    <3>2. CASE W!Commit
      BY <3>2 DEF W!Commit, W!queueVars, W!counters
    <3>3. CASE W!Account
      <4>1. /\ wbatch' = <<>> /\ wq' = wq
            /\ \/ wwritten' = wwritten + Len(wbatch) /\ wfailed' = wfailed + 0
               \/ wwritten' = wwritten + 0 /\ wfailed' = wfailed + Len(wbatch)
        BY <1>1, <3>3 DEF W!Account, W!queueVars
      <4>2. Len(wbatch') = 0
        BY <4>1, Empty
      <4> QED
        BY <1>1, <4>1, <4>2
    <3> QED
      BY <1>3, <3>1, <3>2, <3>3
  <2> QED
    BY <1>1, <2>1, <2>2, <2>3 DEF PassedOn, InCount
<1>4. ASSUME UNCHANGED <<wq, wbatch, wputs, wwritten, wfailed>>,
             wworker \in {"failing", "unopened"} => wworker' \in {"failing", "unopened"},
             wworker' \notin {"failing", "unopened"} =>
                (Len(forwarded') + InCount') - wdropped' = (Len(forwarded) + InCount) - wdropped,
             Len(forwarded') \in Nat, InCount' \in Nat, wdropped' \in Nat
      PROVE  PassedOn'
  <2>1. InCount \in Nat
    BY DEF InCount
  <2>2. wputs' = wwritten' + wfailed' + Len(wbatch') + Len(wq')
    BY <1>4 DEF PassedOn
  <2>3. ASSUME counted'
        PROVE  Len(forwarded') + InCount' = wdropped' + wputs'
    <3>1. Len(forwarded) + InCount = wdropped + wputs
      BY <1>4, <2>3 DEF PassedOn
    <3>2. (Len(forwarded') + InCount') - wdropped' = (Len(forwarded) + InCount) - wdropped
      BY <1>4, <2>3
    <3>3. wputs' = wputs /\ Len(forwarded') \in Nat /\ InCount' \in Nat /\ wdropped' \in Nat
      BY <1>4
    <3>4. Len(forwarded) \in Nat /\ wdropped \in Nat /\ wputs \in Nat
      BY <1>1
    <3> DEFINE a == Len(forwarded)  b == InCount  x == Len(forwarded')  y == InCount'
    <3>5. a \in Nat /\ b \in Nat /\ x \in Nat /\ y \in Nat
      BY <2>1, <3>3, <3>4, Zenon
    <3>6. a + b = wdropped + wputs
      BY <3>1, Zenon
    <3>7. (x + y) - wdropped' = (a + b) - wdropped
      BY <3>2, Zenon
    <3> HIDE DEF a, b, x, y
    <3>8. wdropped \in Nat /\ wdropped' \in Nat /\ wputs \in Nat /\ wputs' = wputs
      BY <3>3, <3>4, Zenon
    <3>9. x + y = wdropped' + wputs'
      <4> DEFINE d == wdropped  e == wdropped'  p == wputs
      <4>1. d \in Nat /\ e \in Nat /\ p \in Nat
        BY <3>8
      <4>2. a + b = d + p /\ (x + y) - e = (a + b) - d
        BY <3>6, <3>7
      <4> HIDE DEF d, e, p
      <4>3. x + y = e + p
        BY <3>5, <4>1, <4>2
      <4> QED
        BY <3>8, <4>3 DEF e, p
    <3> QED
      BY <3>9, Zenon DEF x, y
  <2> QED
    BY <2>2, <2>3 DEF PassedOn
<1>5. ASSUME UNCHANGED <<wq, wbatch, wputs, wwritten, wfailed>>,
             wworker \in {"failing", "unopened"} => wworker' \in {"failing", "unopened"},
             wdropped' = wdropped \/ wworker' = "unopened",
             forwarded' = forwarded, InCount' = InCount
      PROVE  PassedOn'
  BY <1>5 DEF PassedOn
<1>6. CASE ForwardReturns /\ UNCHANGED <<wq, wbatch, wputs, wwritten, wfailed>>
  <2>1. Len(forwarded') = Len(forwarded) + 1
    BY <1>1, <1>6, AppendProperties DEF ForwardReturns, Forward
  <2>2. CASE W!Count(Pipe)
    <3>1. InCount = 1 /\ InCount' = 0 /\ UNCHANGED <<wdropped, wworker>>
      BY <2>2 DEF W!Count, W!At, W!workerVars, InCount, WriterTypeOK
    <3> QED
      BY <1>1, <1>4, <1>6, <2>1, <3>1
  <2>3. CASE W!Drop(Pipe)
    <3>1. InCount = 0 /\ InCount' = 0 /\ wdropped' = wdropped + 1 /\ wworker' = wworker
      BY <2>3 DEF W!Drop, W!At, W!workerVars, InCount, WriterTypeOK
    <3> QED
      BY <1>1, <1>4, <1>6, <2>1, <3>1
  <2> QED
    BY <1>6, <2>2, <2>3 DEF ForwardReturns
<1>7. CASE /\ UNCHANGED <<wq, wbatch, wputs, wwritten, wfailed>>
           /\ wworker \in {"failing", "unopened"} => wworker' \in {"failing", "unopened"}
           /\ wdropped' = wdropped \/ wworker' = "unopened"
           /\ ~ForwardReturns /\ ~(ForwardSteps /\ W!Put(Pipe, cur))
  <2>1. CASE Hook
    <3>1. forwarded' = forwarded /\ wproducer' = wproducer
      BY <2>1, AroundWorker DEF Hook, writerVars
    <3> QED
      BY <1>5, <1>7, <3>1 DEF InCount
  <2>2. CASE Work \/ Record
    <3>1. forwarded' = forwarded /\ wproducer' = wproducer
      BY <2>2 DEF Work, Record, GetEvent, GetTimesOut, AfterTimeout, Parse, Update, Raises,
                  CountError, CountProcessed, ExitCheck, sinks, writerVars
    <3> QED
      BY <1>5, <1>7, <3>1 DEF InCount
  <2>3. CASE ForwardSteps \/ ForwardRaises
    <3>1. forwarded' = forwarded
      BY <2>3 DEF ForwardSteps, ForwardRaises, Raises, pipelineVars, vars, sinks
    <3>2. InCount = 0 /\ InCount' = 0
      BY <1>7, <2>3 DEF ForwardSteps, ForwardRaises, W!EnqueueCall, W!StartCheck, W!StartMark,
                        W!StartSpawn, W!At, InCount, WriterTypeOK
    <3> QED
      BY <1>5, <1>7, <3>1, <3>2
  <2>4. CASE Write \/ FlushSpecs \/ EndProcess \/ UNCHANGED sysVars
    BY <1>5, <1>7, <2>4, BesideForward DEF InCount
  <2> QED
    BY <1>7, <2>1, <2>2, <2>3, <2>4 DEF SysNext
<1> QED
  BY <1>2, <1>3, <1>6, <1>7, ItemsStep

\* What is settled is never more than what was put.
LEMMA SettledIs ==
  ASSUME WriterTypeOK, PassedOn
  PROVE  /\ W!Settled \in Nat /\ Len(W!Pending) \in Nat
         /\ wputs = W!Settled + Len(W!Pending)
<1>1. /\ wq \in Seq(Nat) /\ wbatch \in Seq(Nat) /\ Len(wq) \in Nat /\ Len(wbatch) \in Nat
      /\ wwritten \in Nat /\ wfailed \in Nat /\ wputs = wwritten + wfailed + Len(wbatch) + Len(wq)
  BY LenProperties DEF WriterTypeOK, PassedOn
<1>2. Len(wbatch \o wq) = Len(wbatch) + Len(wq)
  BY <1>1, ConcatProperties
<1>3. CASE wworker = "committed"
  BY <1>1, <1>3 DEF W!Settled, W!Pending
<1>4. CASE wworker # "committed"
  BY <1>1, <1>2, <1>4 DEF W!Settled, W!Pending
<1> QED
  BY <1>3, <1>4

-----------------------------------------------------------------------------
(* The exit                                                                *)

\* What the end of the process is made of.
LEMMA ExitSteps ==
  ASSUME SysTypeOK, [SysNext]_sysVars
  PROVE  /\ handed' = handed \/ (phase = "running" /\ handed' = wputs /\ UNCHANGED wputs)
         /\ wstop' = wstop \/ (wstop' = TRUE /\ phase # "running")
         /\ joined' = joined \/ (wworker = "dead" /\ joined' = TRUE)
         /\ phase' = phase \/ phase' # "running"
         /\ wworker = "dead" => /\ wworker' = "dead"
                                /\ UNCHANGED <<wbatch, wwritten, wfailed, wdb>>
<1> USE DEF W!queueVars, W!counters, W!workerVars, W!callers, SysTypeOK
<1>1. CASE Hook \/ Work \/ Record \/ UNCHANGED sysVars
  BY <1>1 DEF Hook, Work, Record, sysVars, writerVars, exitVars
<1>2. CASE ForwardSteps
  BY <1>2 DEF ForwardSteps, exitVars, W!EnqueueCall, W!StartCheck, W!StartMark, W!StartSpawn,
              W!Put
<1>3. CASE ForwardReturns
  BY <1>3 DEF ForwardReturns, exitVars, W!Count, W!Drop
<1>4. CASE ForwardRaises
  BY <1>4 DEF ForwardRaises, exitVars, W!StartSpawn
<1>5. CASE Write
  BY <1>5 DEF Write, exitVars, W!Worker, W!Open, W!OpenFails, W!CountUnopened, W!GetItem,
              W!GetEmpty, W!Decide, W!InsertRow, W!Commit, W!Rollback, W!Account, W!ExitCheck
<1>6. CASE FlushSpecs
  BY <1>6 DEF FlushSpecs, FlushCopies, FlushEnds, writerVars, exitVars
<1>7. CASE WriterCloses
  BY <1>7 DEF WriterCloses, W!CloseCall, W!CloseSet, W!CloseJoin, W!CloseClear
<1>8. CASE ExitBegins \/ StoreCloses \/ NothingToSave \/ Exits
  BY <1>8 DEF ExitBegins, StoreCloses, NothingToSave, Exits, writerVars
<1> QED
  BY <1>1, <1>2, <1>3, <1>4, <1>5, <1>6, <1>7, <1>8 DEF SysNext, EndProcess

\* The writer's worker ends with everything settled that was there when the
\* exit began, and does nothing after.
LEMMA LeavingStep ==
  /\ SysTypeOK /\ WriterTypeOK /\ WriterTypeOK' /\ PassedOn /\ PassedOn' /\ Leaving
  /\ [SysNext]_sysVars
  => Leaving'
<1> SUFFICES ASSUME SysTypeOK, WriterTypeOK, WriterTypeOK', PassedOn, PassedOn', Leaving,
                    [SysNext]_sysVars
             PROVE  Leaving'
  OBVIOUS
<1>1. wputs \in Nat /\ wputs' \in Nat /\ handed \in Nat
  BY DEF SysTypeOK, WriterTypeOK
<1>2. wputs <= wputs'
  <2>1. wputs' = wputs \/ wputs' = wputs + 1
    BY ItemsStep, BesideForward DEF W!Put
  <2> QED
    BY <1>1, <2>1
<1>3. wstop' => phase' # "running"
  BY ExitSteps DEF Leaving
<1>4. handed' <= wputs'
  <2>1. handed <= wputs
    BY DEF Leaving
  <2>2. handed' = handed \/ (handed' = wputs /\ wputs' = wputs)
    BY ExitSteps
  <2> QED
    BY <1>1, <1>2, <2>1, <2>2
<1>5. joined' => wworker' = "dead"
  BY ExitSteps DEF Leaving
<1>6. ASSUME wworker' = "dead"
      PROVE  wstop' /\ W!Settled' >= handed'
  <2>1. CASE wworker = "dead"
    <3>1. wstop /\ phase # "running" /\ W!Settled >= handed
      BY <2>1 DEF Leaving
    <3>2. UNCHANGED <<wbatch, wwritten, wfailed>> /\ wworker' = wworker
      BY <2>1, ExitSteps
    <3>3. W!Settled' = W!Settled
      BY <2>1, <3>2 DEF W!Settled
    <3> QED
      BY <3>1, <3>3, ExitSteps
  <2>2. CASE wworker # "dead"
    <3>1. Write /\ wstop /\ wq = <<>> /\ wbatch = <<>> /\ UNCHANGED <<wq, wbatch, wputs>>
      <4>1. ~(ForwardSteps /\ W!Put(Pipe, cur))
        BY <1>6, <2>2 DEF W!Put, W!workerVars
      <4>2. ~(W!GetItem \/ W!Commit \/ W!Account)
        BY <1>6 DEF W!GetItem, W!Commit, W!Account
      <4> QED
        BY <1>6, <2>2, <4>1, <4>2, ItemsStep
    <3>2. W!Settled' = wputs'
      <4>1. Len(wq') = 0 /\ Len(wbatch') = 0
        BY <3>1, Empty
      <4>2. wputs' = wwritten' + wfailed' /\ wwritten' \in Nat /\ wfailed' \in Nat
        BY <4>1 DEF PassedOn, WriterTypeOK
      <4> QED
        BY <1>6, <4>2 DEF W!Settled
    <3>3. phase # "running"
      BY <3>1 DEF Leaving
    <3> QED
      BY <1>1, <1>4, <3>1, <3>2, <3>3, ExitSteps
  <2> QED
    BY <2>1, <2>2
<1> QED
  BY <1>3, <1>4, <1>5, <1>6 DEF Leaving

\* Every step keeps the types of what the composition adds.
LEMMA SystemTypeStep ==
  TypeOK /\ WriterTypeOK /\ SysTypeOK /\ [SysNext]_sysVars => SysTypeOK'
<1> SUFFICES ASSUME TypeOK, WriterTypeOK, SysTypeOK, [SysNext]_sysVars
             PROVE  SysTypeOK'
  OBVIOUS
<1> USE DEF SysTypeOK
<1>1. /\ Len(recorded) \in Nat /\ Len(recorded') \in Nat /\ Len(recorded) <= Len(recorded')
      /\ wputs \in Nat
  BY RecordedGrows DEF WriterTypeOK
\* Nothing of the store moves but what it has recorded.
<1>2. ASSUME UNCHANGED <<dirty, copy, saved, raced>> \/ Record,
             phase' \in {"running", "closing", "saving", "saved", "gone"},
             exit' \in {"none", "orderly", "unsaved"}, handed' \in Nat, joined' \in BOOLEAN
      PROVE  SysTypeOK'
  <2>1. copy' = copy /\ saved' = saved /\ dirty' \in BOOLEAN /\ raced' \in BOOLEAN
    BY <1>2 DEF Record
  <2>2. saved' <= Len(recorded') /\ \A f \in Flushers : copy'[f] <= Len(recorded')
    <3>1. \A f \in Flushers : copy[f] \in Int
      BY DEF None
    <3> QED
      BY <1>1, <2>1, <3>1
  <2> QED
    BY <1>2, <2>1, <2>2
<1>3. CASE Hook \/ Work \/ Record \/ ForwardSteps \/ ForwardReturns \/ ForwardRaises \/ Write
           \/ UNCHANGED sysVars
  <2>1. UNCHANGED exitVars /\ (UNCHANGED storeVars \/ Record)
    BY <1>3 DEF Hook, Work, Record, ForwardSteps, ForwardReturns, ForwardRaises, Write, sysVars
  <2> QED
    BY <1>2, <2>1 DEF exitVars, storeVars
<1>4. CASE EndProcess
  <2>1. UNCHANGED storeVars
    BY <1>4 DEF EndProcess, ExitBegins, WriterCloses, StoreCloses, NothingToSave, Exits
  <2>2. /\ phase' \in {"running", "closing", "saving", "saved", "gone"}
        /\ exit' \in {"none", "orderly", "unsaved"} /\ handed' \in Nat /\ joined' \in BOOLEAN
    BY <1>1, <1>4 DEF EndProcess, ExitBegins, WriterCloses, StoreCloses, NothingToSave, Exits
  <2> QED
    BY <1>2, <2>1, <2>2 DEF storeVars
<1>5. ASSUME NEW f \in Flushers, FlushCopies(f)
      PROVE  SysTypeOK'
  <2>1. copy' = [copy EXCEPT ![f] = Len(recorded)] /\ recorded' = recorded
        /\ UNCHANGED <<dirty, saved, raced, phase, exit, handed, joined>>
    BY <1>5 DEF FlushCopies, pipelineVars, vars, sinks, exitVars
  <2>2. copy' \in [Flushers -> {None} \cup Nat] /\ \A g \in Flushers : copy'[g] <= Len(recorded')
    BY <1>1, <2>1
  <2> QED
    BY <2>1, <2>2
<1>6. ASSUME NEW f \in Flushers, NEW ok \in BOOLEAN, FlushEnds(f, ok)
      PROVE  SysTypeOK'
  <2>1. /\ copy' = [copy EXCEPT ![f] = None] /\ recorded' = recorded /\ copy[f] # None
        /\ saved' = IF ok THEN copy[f] ELSE saved
        /\ dirty' \in BOOLEAN /\ raced' \in BOOLEAN /\ UNCHANGED <<handed, joined>>
        /\ phase' \in {"saved", phase} /\ exit' \in {"unsaved", exit}
    BY <1>6 DEF FlushEnds, pipelineVars, vars, sinks
  <2>2. copy' \in [Flushers -> {None} \cup Nat] /\ \A g \in Flushers : copy'[g] <= Len(recorded')
    BY <1>1, <2>1 DEF None
  <2>3. saved' \in Nat /\ saved' <= Len(recorded')
    BY <2>1
  <2> QED
    BY <2>1, <2>2, <2>3
<1> QED
  BY <1>3, <1>4, <1>5, <1>6 DEF SysNext, FlushSpecs

\* The atexit handlers run one after the other.
LEMMA ClosingStep == SysTypeOK /\ Closing /\ [SysNext]_sysVars => Closing'
<1> SUFFICES ASSUME SysTypeOK, Closing, [SysNext]_sysVars
             PROVE  Closing'
  OBVIOUS
<1> USE DEF Closing
<1>1. copy \in [Flushers -> {None} \cup Nat] /\ "main" \in Flushers
  BY SystemAssumption DEF SysTypeOK
<1>2. CASE UNCHANGED <<phase, exit, wcloser>> /\ UNCHANGED copy
  BY <1>2
<1>3. CASE Hook \/ Work \/ Record \/ UNCHANGED sysVars
  BY <1>2, <1>3 DEF Hook, Work, Record, sysVars, writerVars, storeVars, exitVars
<1>4. CASE ForwardSteps \/ ForwardReturns \/ ForwardRaises
  BY <1>2, <1>4 DEF ForwardSteps, ForwardReturns, ForwardRaises, storeVars, exitVars,
                    W!EnqueueCall, W!StartCheck, W!StartMark, W!StartSpawn, W!Put, W!Count, W!Drop
<1>5. CASE Write
  BY <1>2, <1>5 DEF Write, storeVars, exitVars, W!callers, W!Worker, W!Open, W!OpenFails,
                    W!CountUnopened, W!GetItem, W!GetEmpty, W!Decide, W!InsertRow, W!Commit,
                    W!Rollback, W!Account, W!ExitCheck
<1>6. CASE WriterCloses
  <2>1. phase = "closing"
    BY <1>6 DEF WriterCloses, W!CloseCall, W!CloseSet, W!CloseJoin, W!CloseClear
  <2> QED
    BY <1>6, <2>1 DEF WriterCloses, storeVars
<1>7. CASE ExitBegins \/ StoreCloses \/ NothingToSave \/ Exits
  BY <1>7 DEF ExitBegins, StoreCloses, NothingToSave, Exits, writerVars, storeVars
<1>8. ASSUME NEW f \in Flushers, FlushCopies(f)
      PROVE  Closing'
  <2>1. UNCHANGED <<phase, exit, wcloser>> /\ copy' = [copy EXCEPT ![f] = Len(recorded)]
    BY <1>8 DEF FlushCopies, writerVars, exitVars
  <2>2. f = "main" => phase = "saving"
    BY <1>8 DEF FlushCopies
  <2> QED
    BY <1>1, <2>1, <2>2
<1>9. ASSUME NEW f \in Flushers, NEW ok \in BOOLEAN, FlushEnds(f, ok)
      PROVE  Closing'
  <2>1. /\ copy[f] # None /\ copy' = [copy EXCEPT ![f] = None] /\ wcloser' = wcloser
        /\ IF f = "main" THEN phase' = "saved" /\ exit' \in {"unsaved", exit}
                         ELSE UNCHANGED <<phase, exit>>
    BY <1>9 DEF FlushEnds, writerVars
  <2> QED
    BY <1>1, <2>1
<1> QED
  BY <1>3, <1>4, <1>5, <1>6, <1>7, <1>8, <1>9 DEF SysNext, FlushSpecs, EndProcess

\* What a flush does to a spec that no update() has raced, or to a whole one.
LEMMA FlushSaves ==
  ASSUME SysTypeOK, Flushing, NEW f \in Flushers, NEW ok \in BOOLEAN, FlushEnds(f, ok), ~raced'
  PROVE  /\ \A g \in Flushers : copy'[g] # None => copy'[g] = Len(recorded)
         /\ ok => saved' = Len(recorded)
<1>1. /\ copy[f] # None /\ copy' = [copy EXCEPT ![f] = None]
      /\ saved' = IF ok THEN copy[f] ELSE saved
      /\ ~raced \/ WholeCopyAlone(f)
  BY DEF FlushEnds
<1>2. copy[f] = Len(recorded) /\ \A g \in Flushers \ {f} : copy[g] # None => copy[g] = Len(recorded)
  BY <1>1 DEF Flushing, WholeCopyAlone
<1> QED
  BY <1>1, <1>2 DEF SysTypeOK

\* A copy taken since the last update() is whole.
LEMMA FlushingStep == TypeOK /\ SysTypeOK /\ Flushing /\ [SysNext]_sysVars => Flushing'
<1> SUFFICES ASSUME TypeOK, SysTypeOK, Flushing, [SysNext]_sysVars
             PROVE  Flushing'
  OBVIOUS
<1>1. CASE Record
  BY <1>1 DEF Record, Flushing
<1>2. ASSUME NEW f \in Flushers, FlushCopies(f)
      PROVE  Flushing'
  <2>1. copy' = [copy EXCEPT ![f] = Len(recorded)] /\ recorded' = recorded
        /\ UNCHANGED <<dirty, saved, raced>>
    BY <1>2 DEF FlushCopies, pipelineVars, vars, sinks
  <2> QED
    BY <2>1 DEF Flushing, SysTypeOK
<1>3. ASSUME NEW f \in Flushers, NEW ok \in BOOLEAN, FlushEnds(f, ok)
      PROVE  Flushing'
  <2>1. recorded' = recorded /\ dirty' = ~ok
    BY <1>3 DEF FlushEnds, pipelineVars, vars, sinks
  <2> QED
    BY <1>3, <2>1, FlushSaves DEF Flushing
<1>4. CASE Hook \/ Work \/ ForwardSteps \/ ForwardReturns \/ ForwardRaises \/ Write \/ EndProcess
           \/ UNCHANGED sysVars
  <2>1. UNCHANGED <<dirty, copy, saved, raced>>
    BY <1>4 DEF Hook, Work, ForwardSteps, ForwardReturns, ForwardRaises, Write, EndProcess,
                ExitBegins, WriterCloses, StoreCloses, NothingToSave, Exits, sysVars, storeVars
  <2>2. recorded' = recorded
    BY <1>4, RecordedStays
  <2> QED
    BY <2>1, <2>2 DEF Flushing
<1> QED
  BY <1>1, <1>2, <1>3, <1>4 DEF SysNext, FlushSpecs

\* A file that holds the whole spec holds what is committed.
LEMMA WholeFile ==
  ASSUME NEW r \in Seq(Nat), NEW d, Elements(d) \subseteq Elements(r)
  PROVE  \A i \in DOMAIN d : \E j \in 1..Len(r) : r[j] = d[i]
<1>1. DOMAIN r = 1..Len(r)
  BY LenProperties
<1> QED
  BY <1>1 DEF Elements

\* The steps that can end the closing of the store find everything in it.
LEMMA FiledStep ==
  /\ TypeOK /\ TypeOK' /\ InSpecs /\ InSpecs' /\ SysTypeOK /\ Leaving /\ Closing
  /\ Flushing /\ Filed /\ [SysNext]_sysVars
  => Filed'
<1> SUFFICES ASSUME TypeOK, TypeOK', InSpecs, InSpecs', SysTypeOK, Leaving, Closing, Flushing,
                    Filed, [SysNext]_sysVars,
                    phase' \in {"saved", "gone"}, exit' # "unsaved", joined', WriteSpecs, ~raced'
             PROVE  \A i \in DOMAIN wdb' : \E j \in 1..saved' : recorded'[j] = wdb'[i]
  BY DEF Filed
<1>1. recorded \in Seq(Nat) /\ recorded' \in Seq(Nat) /\ Len(recorded) \in Nat
  BY LenProperties DEF TypeOK
<1>2. Elements(wdb') \subseteq Elements(recorded')
  BY DEF InSpecs
<1>3. saved' = Len(recorded') => \A i \in DOMAIN wdb' : \E j \in 1..saved' : recorded'[j] = wdb'[i]
  BY <1>1, <1>2, WholeFile
\* Nothing changes any more but what the spec goes on recording.
<1>4. ASSUME phase \in {"saved", "gone"}, exit # "unsaved", joined, ~raced, saved' = saved
      PROVE  \A i \in DOMAIN wdb' : \E j \in 1..saved' : recorded'[j] = wdb'[i]
  <2>1. wdb' = wdb
    BY <1>4, ExitSteps DEF Leaving
  <2>2. saved \in Nat /\ saved <= Len(recorded)
    BY DEF SysTypeOK
  <2>3. \A j \in 1..saved : recorded'[j] = recorded[j]
    BY <1>1, <2>2, RecordedGrows
  <2>4. \A i \in DOMAIN wdb : \E j \in 1..saved : recorded[j] = wdb[i]
    BY <1>4 DEF Filed
  <2> QED
    BY <1>4, <2>1, <2>3, <2>4
<1>5. ASSUME NEW f \in Flushers, NEW ok \in BOOLEAN, FlushEnds(f, ok)
      PROVE  \A i \in DOMAIN wdb' : \E j \in 1..saved' : recorded'[j] = wdb'[i]
  <2>1. recorded' = recorded /\ joined' = joined
    BY <1>5 DEF FlushEnds, pipelineVars, vars, sinks
  <2>2. CASE ok
    BY <1>3, <1>5, <2>1, <2>2, FlushSaves
  <2>3. CASE ~ok
    <3>1. f # "main" /\ saved' = saved /\ (raced' <=> raced) /\ UNCHANGED <<phase, exit>>
      BY <1>5, <2>3 DEF FlushEnds, SysTypeOK
    <3> QED
      BY <1>4, <2>1, <3>1
  <2> QED
    BY <2>2, <2>3
<1>6. CASE NothingToSave
  <2>1. saved' = Len(recorded) /\ recorded' = recorded
    BY <1>6, RecordedStays DEF NothingToSave, EndProcess, Flushing, storeVars
  <2> QED
    BY <1>3, <2>1
<1>7. CASE Record
  BY <1>4, <1>7 DEF Record, exitVars
<1>8. CASE WriterCloses
  <2>1. phase = "closing" /\ phase' = phase
    BY <1>8 DEF WriterCloses, Closing, W!CloseCall, W!CloseSet, W!CloseJoin, W!CloseClear
  <2> QED
    BY <2>1
<1>9. CASE ExitBegins \/ StoreCloses
  BY <1>9 DEF ExitBegins, StoreCloses
<1>10. CASE Exits
  BY <1>4, <1>10 DEF Exits, storeVars
<1>11. CASE \/ Hook \/ Work \/ ForwardSteps \/ ForwardReturns \/ ForwardRaises \/ Write
            \/ (\E f \in Flushers : FlushCopies(f)) \/ UNCHANGED sysVars
  <2>1. UNCHANGED <<phase, exit, joined, raced, saved>>
    BY <1>11 DEF Hook, Work, ForwardSteps, ForwardReturns, ForwardRaises, Write, FlushCopies,
                 sysVars, storeVars, exitVars
  <2> QED
    BY <1>4, <2>1
<1> QED
  BY <1>5, <1>6, <1>7, <1>8, <1>9, <1>10, <1>11 DEF SysNext, FlushSpecs, EndProcess

-----------------------------------------------------------------------------
(* The theorems                                                            *)

SysInv ==
    /\ WriterTypeOK /\ Calls /\ Ordered /\ InSpecs /\ PassedOn
    /\ Leaving /\ SysTypeOK /\ Closing /\ Flushing /\ Filed

\* The inductive invariant of the process holds beside the pipeline's.
THEOREM SystemInvariance == SysSpec => [](IInv /\ SysInv)
<1>1. SysInit => SysInv
  BY SystemInitially DEF SysInv
<1>2. SysInv /\ IInv /\ IInv' /\ [SysNext]_sysVars => SysInv'
  <2> SUFFICES ASSUME SysInv, IInv, IInv', [SysNext]_sysVars
               PROVE  SysInv'
    OBVIOUS
  <2> USE DEF SysInv
  <2>1. TypeOK /\ TypeOK'
    BY DEF IInv
  <2>2. WriterTypeOK' /\ Calls' /\ SysTypeOK' /\ Closing'
    BY <2>1, WriterTypeStep, CallsStep, SystemTypeStep, ClosingStep
  <2>3. Ordered' /\ InSpecs' /\ PassedOn' /\ Flushing'
    BY <2>1, OrderStep, PassedOnStep, FlushingStep
  <2>4. Leaving' /\ Filed'
    BY <2>1, <2>2, <2>3, LeavingStep, FiledStep
  <2> QED
    BY <2>2, <2>3, <2>4
<1> QED
  BY <1>1, <1>2, PipelineInvariance, PTL DEF SysSpec

\* What the composition adds ranges over what it stands for, and a spec file
\* never holds more than was recorded.
THEOREM SystemTypeCorrect == SysSpec => []SysTypeOK
<1>1. SysInv => SysTypeOK
  BY DEF SysInv
<1> QED
  BY <1>1, SystemInvariance, PTL

\* From the hook to the database events stay in order, and none is committed
\* that the spec store has not recorded.
THEOREM HookToDatabase == SysSpec => []EndToEnd
<1>1. ASSUME SysInv PROVE EndToEnd
  <2>1. DOMAIN wdb = 1..Len(wdb)
    BY <1>1, LenProperties DEF SysInv, WriterTypeOK
  <2>2. Ascending(wdb)
    BY <1>1, <2>1 DEF SysInv, Ordered, Climbs, Ascending
  <2> QED
    BY <1>1, <2>2 DEF SysInv, InSpecs, EndToEnd
<1> QED
  BY <1>1, SystemInvariance, PTL

\* With a writer configured, the counters of the pipeline and the writer
\* together account for every event that the hooks have put.
THEOREM CapturesCounted ==
  ASSUME HasWriter PROVE SysSpec => []EveryCaptureCounted
<1>1. ASSUME IInv, SysInv PROVE EveryCaptureCounted
  <2> SUFFICES ASSUME wworker \notin {"failing", "unopened"}
               PROVE  puts = Len(q) + InHand + errors + (IF worker = "failed" THEN 1 ELSE 0)
                             + wdropped + Len(W!Pending) + W!Settled
    BY DEF EveryCaptureCounted
  <2> DEFINE failing == IF worker = "failed" THEN 1 ELSE 0
             passed == IF worker \in {"parse", "update", "forward"} THEN 1 ELSE 0
  <2>1. /\ Len(q) \in Nat /\ Len(forwarded) \in Nat /\ errors \in Nat /\ processed \in Nat
        /\ wdropped \in Nat /\ wputs \in Nat /\ worker \in WorkerPCs
    BY <1>1, LenProperties DEF IInv, TypeOK, SysInv, WriterTypeOK
  <2>2. W!Settled \in Nat /\ Len(W!Pending) \in Nat /\ wputs = W!Settled + Len(W!Pending)
    BY <1>1, SettledIs DEF SysInv
  <2>3. Len(forwarded) + InCount = wdropped + wputs
    BY <1>1 DEF SysInv, PassedOn
  <2>4. Len(forwarded) + errors + failing = Decided
    BY <1>1 DEF IInv, ErrorsExplainGaps, Sink
  <2>5. puts = processed + Held + Len(q)
    BY <1>1 DEF IInv, Backlog
  <2>6. processed + Held = Decided + passed
    BY <1>1, <2>1 DEF IInv, TypeOK, Held, Decided
  <2>7. passed = InHand + InCount
    BY <1>1 DEF SysInv, Calls, InHand, InCount
  <2>8. failing \in Nat /\ InHand \in Nat /\ InCount \in Nat /\ Decided \in Nat /\ passed \in Nat
        /\ Held \in Nat
    BY <2>1 DEF InHand, InCount, Decided, Held
  <2> HIDE DEF failing, passed
  <2>9. puts = Len(q) + InHand + errors + failing + wdropped + Len(W!Pending) + W!Settled
    BY <2>1, <2>2, <2>3, <2>4, <2>5, <2>6, <2>7, <2>8
  <2> QED
    BY <2>9 DEF failing
<1> QED
  BY <1>1, SystemInvariance, PTL

\* An exit that sees the writer's worker end leaves nothing of what the writer
\* had when it began.
THEOREM ExitSettles == SysSpec => []HandedIsSettled
<1>1. SysInv => HandedIsSettled
  BY DEF SysInv, Leaving, HandedIsSettled
<1> QED
  BY <1>1, SystemInvariance, PTL

\* After an orderly exit the spec files have an observation of every committed
\* exchange, unless an update() raced a flush.
THEOREM SpecsOutliveRows == SysSpec => []RowsHaveSpecs
<1>1. SysInv => RowsHaveSpecs
  BY DEF SysInv, Closing, Filed, RowsHaveSpecs
<1> QED
  BY <1>1, SystemInvariance, PTL

=============================================================================
