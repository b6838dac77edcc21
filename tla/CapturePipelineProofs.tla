------------------------ MODULE CapturePipelineProofs ------------------------
(***************************************************************************)
(* The safety properties of CapturePipeline for any number of hook         *)
(* threads, any queue, any configuration of its sinks and any number of    *)
(* calls, and its refinement of ExchangeLog.                               *)
(***************************************************************************)
EXTENDS CapturePipeline, SequenceTheorems, TLAPS

-----------------------------------------------------------------------------
(* The queue holds consecutive ordinals, the logs ordinals that increase:  *)
(* what taking and adding do to such sequences.                            *)

\* s counts up from n + 1.
Run(s, n) == \A i \in 1..Len(s) : s[i] = n + i

\* s increases strictly and stays in 1..n.
Climbs(s, n) ==
    /\ \A i \in 1..Len(s) : s[i] \in 1..n
    /\ \A i, j \in 1..Len(s) : i < j => s[i] < s[j]

\* A run is continued by its next number.
LEMMA RunAppend ==
  ASSUME NEW s \in Seq(Nat), NEW n \in Nat, Run(s, n)
  PROVE  Run(Append(s, n + Len(s) + 1), n)
<1> DEFINE t == Append(s, n + Len(s) + 1)
<1>1. Len(s) \in Nat /\ n + Len(s) + 1 \in Nat
  BY LenProperties
<1>2. /\ Len(t) = Len(s) + 1
      /\ \A i \in 1..Len(s) : t[i] = s[i]
      /\ t[Len(s) + 1] = n + Len(s) + 1
  BY <1>1, AppendProperties
<1> HIDE DEF t
<1>3. \A i \in 1..Len(t) : t[i] = n + i
  <2> TAKE i \in 1..Len(t)
  <2>1. CASE i = Len(s) + 1
    BY <1>1, <1>2, <2>1
  <2>2. CASE i # Len(s) + 1
    BY <1>1, <1>2, <2>2 DEF Run
  <2> QED
    BY <2>1, <2>2
<1> QED
  BY <1>3 DEF Run, t

\* A run without its first number is a run.
LEMMA RunTail ==
  ASSUME NEW s \in Seq(Nat), NEW n \in Nat, Run(s, n), s # <<>>
  PROVE  Head(s) = n + 1 /\ Run(Tail(s), n + 1)
<1>1. Len(s) \in Nat /\ Len(s) # 0
  BY LenProperties, EmptySeq
<1>2. Head(s) = s[1]
  BY <1>1
<1>3. Len(Tail(s)) = Len(s) - 1 /\ \A i \in 1..Len(Tail(s)) : Tail(s)[i] = s[i + 1]
  BY HeadTailProperties
<1>4. \A i \in 1..Len(Tail(s)) : Tail(s)[i] = (n + 1) + i
  BY <1>1, <1>3 DEF Run
<1> QED
  BY <1>1, <1>2, <1>4 DEF Run

\* A sequence that climbs to n climbs to anything above n.
LEMMA ClimbsHigher ==
  ASSUME NEW s \in Seq(Nat), NEW n \in Nat, NEW m \in Nat, n <= m, Climbs(s, n)
  PROVE  Climbs(s, m)
BY DEF Climbs

\* A climbing sequence can be continued by the number above its bound.
LEMMA ClimbsAppend ==
  ASSUME NEW s \in Seq(Nat), NEW n \in Nat, Climbs(s, n)
  PROVE  Climbs(Append(s, n + 1), n + 1)
<1> DEFINE t == Append(s, n + 1)
           k == Len(s)
<1>1. k \in Nat
  BY LenProperties
<1>2. Len(t) = k + 1 /\ t[k + 1] = n + 1 /\ \A i \in 1..k : t[i] = s[i] /\ s[i] \in 1..n
  BY <1>1, AppendProperties DEF Climbs
<1>3. \A i, j \in 1..k : i < j => s[i] < s[j]
  BY DEF Climbs
<1> HIDE DEF t, k
<1>4. \A i \in 1..(k + 1) : i \in 1..k \/ i = k + 1
  BY <1>1
<1>5. \A i \in 1..(k + 1) : t[i] \in 1..(n + 1)
  BY <1>2, <1>4
<1>6. \A i, j \in 1..(k + 1) : i < j => t[i] < t[j]
  <2> SUFFICES ASSUME NEW i \in 1..(k + 1), NEW j \in 1..(k + 1), i < j PROVE t[i] < t[j]
    OBVIOUS
  <2>1. i \in 1..k
    BY <1>1
  <2>2. CASE j \in 1..k
    BY <1>2, <1>3, <2>1, <2>2
  <2>3. CASE j = k + 1
    BY <1>2, <2>1, <2>3
  <2> QED BY <1>4, <2>2, <2>3
<1> QED BY <1>2, <1>5, <1>6 DEF Climbs, t

-----------------------------------------------------------------------------
(* The inductive invariant.                                                *)

\* Events in the worker's hands.
Held == IF cur = 0 THEN 0 ELSE 1

\* Conservation, element by element: what the worker holds follows what is
\* processed, and the queue follows what it holds.
Backlog ==
    /\ puts = processed + Held + Len(q)
    /\ cur # 0 => cur = processed + 1
    /\ Run(q, processed + Held)

\* The worker reaches a sink only if the configuration has it.
Routes ==
    /\ worker = "update" => WriteSpecs
    /\ worker = "forward" => HasWriter

\* Events the worker has tried to record: the one it holds counts from the
\* moment store.update() is behind it.
Tried == processed + (IF worker \in {"forward", "failed", "done"} THEN 1 ELSE 0)

\* The spec store has recorded s[i] for each i.
AllRecorded(s) == \A i \in DOMAIN s : \E j \in DOMAIN recorded : recorded[j] = s[i]

\* What each sink has seen climbs to the event in hand, and an event on its
\* way to the writer is in the specs.
Sinks ==
    /\ Climbs(recorded, Tried)
    /\ Climbs(forwarded, Decided)
    /\ WriteSpecs => AllRecorded(forwarded)
    /\ WriteSpecs /\ worker = "forward" => \E j \in DOMAIN recorded : recorded[j] = cur

IInv == TypeOK /\ Backlog /\ Routes /\ Sinks /\ ErrorsExplainGaps

-----------------------------------------------------------------------------
\* The first state satisfies the invariant.
LEMMA Initially == Init => IInv
<1> SUFFICES ASSUME Init PROVE IInv
  OBVIOUS
<1> USE DEF Init
<1>1. TypeOK
  BY EmptySeq DEF TypeOK, WorkerPCs, ProducerPCs, CloserPCs
<1>2. Len(q) = 0 /\ Len(recorded) = 0 /\ Len(forwarded) = 0
  OBVIOUS
<1>3. Backlog /\ Routes
  BY <1>2 DEF Backlog, Routes, Held, Run
<1>4. Sinks
  BY <1>2 DEF Sinks, Climbs, AllRecorded
<1>5. ErrorsExplainGaps
  BY <1>2 DEF ErrorsExplainGaps, Sink, Decided
<1> QED
  BY <1>1, <1>3, <1>4, <1>5 DEF IInv

\* Every step keeps the types: the worker has an event exactly while it
\* processes one.
LEMMA TypeStep == TypeOK /\ Backlog /\ [Next]_vars => TypeOK'
<1> SUFFICES ASSUME TypeOK, Backlog, [Next]_vars
             PROVE  TypeOK'
  OBVIOUS
<1> USE DEF TypeOK, WorkerPCs, queueVars, counters, sinks
<1>1. ASSUME NEW p \in Producers, Enqueue(p)
      PROVE  TypeOK'
  <2> USE DEF At, ProducerPCs
  <2>1. CASE EnqueueCall(p)
    BY <2>1 DEF EnqueueCall
  <2>2. CASE StartCheck(p)
    BY <2>2 DEF StartCheck
  <2>3. CASE StartMark(p)
    BY <2>3 DEF StartMark
  <2>4. CASE StartSpawn(p)
    BY <2>4 DEF StartSpawn
  <2>5. CASE Redact(p)
    BY <2>5 DEF Redact
  <2>6. CASE Put(p)
    <3>1. q' \in Seq(Nat) /\ puts' \in Nat
      BY <2>6, AppendProperties DEF Put
    <3> QED
      BY <2>6, <3>1 DEF Put
  <2>7. CASE Drop(p)
    BY <2>7 DEF Drop
  <2>8. CASE Count(p)
    BY <2>8 DEF Count
  <2> QED
    BY <1>1, <2>1, <2>2, <2>3, <2>4, <2>5, <2>6, <2>7, <2>8 DEF Enqueue
<1>2. ASSUME Worker
      PROVE  TypeOK'
  <2> USE DEF Go, AfterUpdate
  <2>1. CASE GetEvent
    <3>1. q # <<>> /\ q' = Tail(q) /\ cur' = Head(q) /\ cur = 0
      BY <2>1 DEF GetEvent
    <3>2. q' \in Seq(Nat) /\ cur' \in Nat
      BY <3>1, HeadTailProperties
    <3>3. cur' = processed + 1
      BY <3>1, RunTail DEF Backlog, Held
    <3>4. cur' # 0
      BY <3>3
    <3> QED
      BY <2>1, <3>2, <3>4 DEF GetEvent
  <2>2. CASE GetTimesOut \/ AfterTimeout \/ Parse \/ Raises \/ CountError \/ CountProcessed
             \/ ExitCheck
    <3>1. CASE GetTimesOut \/ AfterTimeout \/ ExitCheck
      BY <3>1 DEF GetTimesOut, AfterTimeout, ExitCheck
    <3>2. CASE Parse \/ Raises
      BY <3>2 DEF Parse, Raises
    <3>3. CASE CountError \/ CountProcessed
      BY <3>3 DEF CountError, CountProcessed
    <3> QED
      BY <2>2, <3>1, <3>2, <3>3
  <2>3. CASE Update
    <3>1. recorded' \in Seq(Nat)
      BY <2>3, AppendProperties DEF Update
    <3> QED
      BY <2>3, <3>1 DEF Update
  <2>4. CASE Forward
    <3>1. forwarded' \in Seq(Nat)
      BY <2>4, AppendProperties DEF Forward
    <3> QED
      BY <2>4, <3>1 DEF Forward
  <2> QED
    BY <1>2, <2>1, <2>2, <2>3, <2>4 DEF Worker
<1>3. ASSUME Close
      PROVE  TypeOK'
  BY <1>3 DEF Close, CloseCall, CloseSet, CloseJoin, CloseClear, CloserPCs
<1>4. CASE UNCHANGED vars
  BY <1>4 DEF vars
<1> QED
  BY <1>1, <1>2, <1>3, <1>4 DEF Next

\* The threads around the worker touch nothing the worker counts or holds.
LEMMA AroundWorker ==
  ASSUME TypeOK, (\E p \in Producers : Enqueue(p)) \/ Close \/ UNCHANGED vars
  PROVE  /\ UNCHANGED <<processed, errors, cur, recorded, forwarded>>
         /\ worker' = worker \/ (worker = "new" /\ worker' = "get")
<1> USE DEF queueVars, counters, sinks
<1>1. ASSUME NEW p \in Producers, Enqueue(p)
      PROVE  /\ UNCHANGED <<processed, errors, cur, recorded, forwarded>>
             /\ worker' = worker \/ (worker = "new" /\ worker' = "get")
  BY <1>1 DEF Enqueue, EnqueueCall, StartCheck, StartMark, StartSpawn, Redact, Put, Drop, Count
<1>2. CASE Close
  BY <1>2 DEF Close, CloseCall, CloseSet, CloseJoin, CloseClear
<1>3. CASE UNCHANGED vars
  BY <1>3 DEF vars
<1> QED
  BY <1>1, <1>2, <1>3

\* The queue and the hand hold the consecutive events after the processed
\* ones: a put continues them, the worker takes the first.
LEMMA BacklogStep == TypeOK /\ Backlog /\ [Next]_vars => Backlog'
<1> SUFFICES ASSUME TypeOK, Backlog, [Next]_vars
             PROVE  Backlog'
  OBVIOUS
<1> USE DEF queueVars, counters, sinks
<1>1. /\ q \in Seq(Nat) /\ puts \in Nat /\ processed \in Nat /\ Len(q) \in Nat
      /\ Held \in Nat /\ puts = processed + Held + Len(q) /\ Run(q, processed + Held)
  BY LenProperties DEF TypeOK, Backlog, Held
<1>2. ASSUME UNCHANGED <<q, puts, processed, cur>>
      PROVE  Backlog'
  BY <1>2 DEF Backlog, Held
<1>3. ASSUME NEW p \in Producers, Put(p)
      PROVE  Backlog'
  <2>1. q' = Append(q, puts + 1) /\ puts' = puts + 1 /\ UNCHANGED <<processed, cur>>
    BY <1>3 DEF Put
  <2>2. Run(q', processed + Held) /\ Len(q') = Len(q) + 1
    BY <1>1, <2>1, RunAppend, AppendProperties
  <2>3. Held' = Held /\ cur' = cur
    BY <2>1 DEF Held
  <2>4. puts' = processed' + Held' + Len(q')
    BY <1>1, <2>1, <2>2, <2>3
  <2>5. cur # 0 => cur = processed + 1
    BY DEF Backlog
  <2> QED
    BY <2>1, <2>2, <2>3, <2>4, <2>5 DEF Backlog
<1>4. CASE GetEvent
  <2>1. q # <<>> /\ q' = Tail(q) /\ cur' = Head(q) /\ cur = 0 /\ UNCHANGED <<puts, processed>>
    BY <1>4 DEF GetEvent, Go, TypeOK
  <2>2. cur' = processed + 1 /\ Run(q', processed + 1)
    BY <1>1, <2>1, RunTail DEF Held
  <2>3. Len(q') = Len(q) - 1
    BY <1>1, <2>1, HeadTailProperties
  <2>4. Held = 0 /\ Held' = 1
    BY <1>1, <2>1, <2>2 DEF Held
  <2> QED
    BY <1>1, <2>1, <2>2, <2>3, <2>4 DEF Backlog
<1>5. CASE CountProcessed
  <2>1. cur # 0 /\ cur' = 0 /\ processed' = processed + 1 /\ UNCHANGED <<q, puts>>
    BY <1>5 DEF CountProcessed, Go, TypeOK
  <2> QED
    BY <1>1, <2>1 DEF Backlog, Held
<1>6. ASSUME NEW p \in Producers, Enqueue(p), ~Put(p)
      PROVE  Backlog'
  <2>1. UNCHANGED <<q, puts, processed, cur>>
    BY <1>6 DEF Enqueue, EnqueueCall, StartCheck, StartMark, StartSpawn, Redact, Drop, Count
  <2> QED
    BY <1>2, <2>1
<1>7. ASSUME Worker, ~GetEvent, ~CountProcessed
      PROVE  Backlog'
  <2>1. UNCHANGED <<q, puts, processed, cur>>
    BY <1>7 DEF Worker, GetTimesOut, AfterTimeout, Parse, Update, Forward, Raises, CountError,
                ExitCheck
  <2> QED
    BY <1>2, <2>1
<1>8. CASE Close \/ UNCHANGED vars
  <2>1. UNCHANGED <<q, puts, processed, cur>>
    BY <1>8 DEF Close, CloseCall, CloseSet, CloseJoin, CloseClear, vars
  <2> QED
    BY <1>2, <2>1
<1> QED
  BY <1>3, <1>4, <1>5, <1>6, <1>7, <1>8 DEF Next

\* Parse and Update look at the configuration before they go on.
LEMMA RoutesStep == TypeOK /\ Routes /\ [Next]_vars => Routes'
<1> SUFFICES ASSUME TypeOK, Routes, [Next]_vars
             PROVE  Routes'
  OBVIOUS
<1>1. ASSUME Worker
      PROVE  Routes'
  BY <1>1 DEF Worker, GetEvent, GetTimesOut, AfterTimeout, Parse, Update, Forward, Raises,
              CountError, CountProcessed, ExitCheck, Go, AfterUpdate, Routes
<1>2. CASE (\E p \in Producers : Enqueue(p)) \/ Close \/ UNCHANGED vars
  BY <1>2, AroundWorker DEF Routes
<1> QED
  BY <1>1, <1>2 DEF Next

\* The errors explain the gap between what was decided and what has arrived.
LEMMA ErrorsStep == TypeOK /\ Routes /\ ErrorsExplainGaps /\ [Next]_vars => ErrorsExplainGaps'
<1> SUFFICES ASSUME TypeOK, Routes, ErrorsExplainGaps, [Next]_vars, HasWriter \/ WriteSpecs
             PROVE  ErrorsExplainGaps'
  BY DEF ErrorsExplainGaps
<1> DEFINE failing == IF worker = "failed" THEN 1 ELSE 0
<1>1. /\ Len(Sink) + errors + failing = Decided
      /\ Len(Sink) \in Nat /\ Decided \in Nat
      /\ errors \in Nat /\ processed \in Nat /\ Len(recorded) \in Nat /\ Len(forwarded) \in Nat
  <2>1. Sink \in Seq(Nat) /\ recorded \in Seq(Nat) /\ forwarded \in Seq(Nat)
    BY DEF TypeOK, Sink
  <2>2. Decided \in Nat /\ errors \in Nat /\ processed \in Nat
    BY DEF TypeOK, Decided
  <2> QED
    BY <2>1, <2>2, LenProperties DEF ErrorsExplainGaps
<1> USE DEF queueVars, counters, sinks
<1>2. ASSUME Worker
      PROVE  ErrorsExplainGaps'
  <2> USE DEF Go, AfterUpdate, Routes
  <2>1. CASE Update
    <3>1. Len(recorded') = Len(recorded) + 1 /\ forwarded' = forwarded
      BY <2>1, AppendProperties DEF Update, TypeOK
    <3>2. CASE HasWriter
      BY <1>1, <2>1, <3>1, <3>2 DEF Update, Sink, Decided, ErrorsExplainGaps
    <3>3. CASE ~HasWriter
      BY <1>1, <2>1, <3>1, <3>3 DEF Update, Sink, Decided, ErrorsExplainGaps
    <3> QED
      BY <3>2, <3>3
  <2>2. CASE Forward
    <3>1. Len(forwarded') = Len(forwarded) + 1 /\ recorded' = recorded /\ HasWriter
      BY <2>2, AppendProperties DEF Forward, TypeOK
    <3> QED
      BY <1>1, <2>2, <3>1 DEF Forward, Sink, Decided, ErrorsExplainGaps
  <2>3. CASE Parse
    BY <1>1, <2>3 DEF Parse, Sink, Decided, ErrorsExplainGaps
  <2>4. CASE Raises
    <3>1. worker \in {"parse", "update", "forward"} /\ worker' = "failed"
      BY <2>4 DEF Raises
    <3>2. UNCHANGED <<processed, errors, recorded, forwarded>>
      BY <2>4 DEF Raises
    <3>3. Decided' = Decided + 1 /\ Sink' = Sink /\ failing = 0
      BY <1>1, <3>1, <3>2 DEF Sink, Decided
    <3> QED
      BY <1>1, <3>1, <3>2, <3>3 DEF ErrorsExplainGaps
  <2>5. CASE CountError
    <3>1. worker = "failed" /\ worker' = "done" /\ errors' = errors + 1
      BY <2>5 DEF CountError
    <3>2. UNCHANGED <<processed, recorded, forwarded>>
      BY <2>5 DEF CountError
    <3>3. Decided' = Decided /\ Sink' = Sink /\ failing = 1
      BY <1>1, <3>1, <3>2 DEF Sink, Decided
    <3> QED
      BY <1>1, <3>1, <3>2, <3>3 DEF ErrorsExplainGaps
  <2>6. CASE CountProcessed
    BY <1>1, <2>6 DEF CountProcessed, Sink, Decided, ErrorsExplainGaps
  <2>7. CASE GetEvent \/ GetTimesOut \/ AfterTimeout \/ ExitCheck
    BY <1>1, <2>7
    DEF GetEvent, GetTimesOut, AfterTimeout, ExitCheck, Sink, Decided, ErrorsExplainGaps
  <2> QED
    BY <1>2, <2>1, <2>2, <2>3, <2>4, <2>5, <2>6, <2>7 DEF Worker
<1>3. CASE (\E p \in Producers : Enqueue(p)) \/ Close \/ UNCHANGED vars
  BY <1>3, AroundWorker DEF ErrorsExplainGaps, Sink, Decided
<1> QED
  BY <1>2, <1>3 DEF Next

\* A sink that takes the event in hand goes on climbing.
LEMMA SinkTakes ==
  ASSUME NEW s \in Seq(Nat), Climbs(s, processed), processed \in Nat, cur = processed + 1
  PROVE  /\ Climbs(Append(s, cur), processed + 1)
         /\ DOMAIN Append(s, cur) = DOMAIN s \cup {Len(s) + 1}
         /\ Append(s, cur)[Len(s) + 1] = cur
         /\ \A i \in DOMAIN s : Append(s, cur)[i] = s[i]
<1>1. cur \in Nat /\ Len(s) \in Nat /\ DOMAIN s = 1..Len(s)
  BY LenProperties
<1>2. Append(s, cur) \in Seq(Nat) /\ Len(Append(s, cur)) = Len(s) + 1
  BY <1>1, AppendProperties
<1>3. DOMAIN Append(s, cur) = 1..(Len(s) + 1)
  BY <1>2, LenProperties
<1>4. Append(s, cur)[Len(s) + 1] = cur /\ \A i \in 1..Len(s) : Append(s, cur)[i] = s[i]
  BY <1>1, AppendProperties
<1>5. Climbs(Append(s, cur), processed + 1)
  BY ClimbsAppend
<1> QED
  BY <1>1, <1>3, <1>4, <1>5

\* Every step keeps the sinks climbing, and the specs ahead of the writer.
LEMMA SinksStep == TypeOK /\ Backlog /\ Routes /\ Sinks /\ [Next]_vars => Sinks'
<1> SUFFICES ASSUME TypeOK, Backlog, Routes, Sinks, [Next]_vars
             PROVE  Sinks'
  OBVIOUS
<1> USE DEF queueVars, counters, sinks
<1>1. /\ processed \in Nat /\ recorded \in Seq(Nat) /\ forwarded \in Seq(Nat)
      /\ Climbs(recorded, Tried) /\ Climbs(forwarded, Decided)
      /\ Tried \in Nat /\ Decided \in Nat
  BY DEF TypeOK, Sinks, Tried, Decided
\* The sinks are left alone, and the event in hand with them.
<1>2. ASSUME UNCHANGED <<recorded, forwarded>>, Tried' = Tried, Decided' = Decided,
             worker' # "forward" \/ (worker = "forward" /\ cur' = cur)
      PROVE  Sinks'
  BY <1>2 DEF Sinks, AllRecorded
<1>3. ASSUME worker \in {"parse", "update", "forward", "failed", "done"}
      PROVE  cur = processed + 1
  BY <1>3 DEF TypeOK, Backlog
<1>4. ASSUME Worker
      PROVE  Sinks'
  <2> USE DEF Go
  <2>1. CASE Update
    <3>1. worker = "update" /\ worker' \in {"forward", "done"}
      BY <2>1 DEF Update, AfterUpdate
    <3>2. recorded' = Append(recorded, cur) /\ UNCHANGED <<processed, cur, forwarded>>
      BY <2>1 DEF Update
    <3>3. cur = processed + 1 /\ Climbs(recorded, processed)
      BY <1>1, <1>3, <3>1 DEF Tried
    <3>4. /\ Climbs(recorded', processed + 1)
          /\ DOMAIN recorded' = DOMAIN recorded \cup {Len(recorded) + 1}
          /\ recorded'[Len(recorded) + 1] = cur
          /\ \A i \in DOMAIN recorded : recorded'[i] = recorded[i]
      BY <1>1, <3>2, <3>3, SinkTakes
    <3>5. Climbs(recorded', Tried')
      BY <3>1, <3>2, <3>4 DEF Tried
    <3>6. Climbs(forwarded', Decided')
      <4>1. Decided' \in Nat /\ Decided <= Decided'
        BY <1>1, <3>1, <3>2 DEF Decided
      <4> QED
        BY <1>1, <3>2, <4>1, ClimbsHigher
    <3>7. WriteSpecs => AllRecorded(forwarded)'
      BY <3>2, <3>4 DEF Sinks, AllRecorded
    <3>8. \E j \in DOMAIN recorded' : recorded'[j] = cur'
      BY <3>2, <3>4
    <3> QED
      BY <3>5, <3>6, <3>7, <3>8 DEF Sinks
  <2>2. CASE Forward
    <3>1. worker = "forward" /\ worker' = "done"
      BY <2>2 DEF Forward
    <3>2. forwarded' = Append(forwarded, cur) /\ UNCHANGED <<processed, cur, recorded>>
      BY <2>2 DEF Forward
    <3>3. cur = processed + 1 /\ Climbs(forwarded, processed)
      BY <1>1, <1>3, <3>1 DEF Decided
    <3>4. /\ Climbs(forwarded', processed + 1)
          /\ DOMAIN forwarded' = DOMAIN forwarded \cup {Len(forwarded) + 1}
          /\ forwarded'[Len(forwarded) + 1] = cur
          /\ \A i \in DOMAIN forwarded : forwarded'[i] = forwarded[i]
      BY <1>1, <3>2, <3>3, SinkTakes
    <3>5. Climbs(forwarded', Decided') /\ Climbs(recorded', Tried')
      BY <1>1, <3>1, <3>2, <3>4 DEF Decided, Tried
    <3>6. WriteSpecs => AllRecorded(forwarded)'
      <4> SUFFICES ASSUME WriteSpecs, NEW i \in DOMAIN forwarded'
                   PROVE  \E j \in DOMAIN recorded : recorded[j] = forwarded'[i]
        BY <3>2 DEF AllRecorded
      <4>1. CASE i \in DOMAIN forwarded
        BY <3>4, <4>1 DEF Sinks, AllRecorded
      <4>2. CASE i = Len(forwarded) + 1
        BY <3>1, <3>4, <4>2 DEF Sinks
      <4> QED
        BY <3>4, <4>1, <4>2
    <3> QED
      BY <3>1, <3>5, <3>6 DEF Sinks
  <2>3. CASE Parse \/ Raises
    <3>1. /\ worker \in {"parse", "update", "forward"} /\ worker' \in {"update", "forward", "done", "failed"}
          /\ worker' = "forward" => worker = "parse" /\ ~WriteSpecs
          /\ UNCHANGED <<processed, cur, recorded, forwarded>>
      BY <2>3 DEF Parse, Raises, AfterUpdate
    <3>2. Tried' \in Nat /\ Decided' \in Nat /\ Tried <= Tried' /\ Decided <= Decided'
      <4>1. CASE worker = "forward"
        BY <1>1, <2>3, <3>1, <4>1 DEF Tried, Decided, Parse, Raises
      <4>2. CASE worker \in {"parse", "update"}
        BY <1>1, <3>1, <4>2 DEF Tried, Decided
      <4> QED
        BY <3>1, <4>1, <4>2
    <3>3. Climbs(recorded', Tried') /\ Climbs(forwarded', Decided')
      BY <1>1, <3>1, <3>2, ClimbsHigher
    <3> QED
      BY <3>1, <3>3 DEF Sinks, AllRecorded
  <2>4. CASE CountError
    BY <1>2, <2>4 DEF CountError, Tried, Decided
  <2>5. CASE CountProcessed
    <3>1. worker = "done" /\ worker' = "check" /\ processed' = processed + 1
          /\ UNCHANGED <<recorded, forwarded>>
      BY <2>5 DEF CountProcessed
    <3>2. Tried' = Tried /\ Decided' = Decided
      BY <1>1, <3>1 DEF Tried, Decided
    <3> QED
      BY <1>2, <3>1, <3>2
  <2>6. CASE GetEvent \/ GetTimesOut \/ AfterTimeout \/ ExitCheck
    BY <1>2, <2>6 DEF GetEvent, GetTimesOut, AfterTimeout, ExitCheck, Tried, Decided
  <2> QED
    BY <1>4, <2>1, <2>2, <2>3, <2>4, <2>5, <2>6 DEF Worker
<1>5. CASE (\E p \in Producers : Enqueue(p)) \/ Close \/ UNCHANGED vars
  BY <1>2, <1>5, AroundWorker DEF Tried, Decided
<1> QED
  BY <1>4, <1>5 DEF Next

-----------------------------------------------------------------------------
\* The inductive invariant holds in every reachable state, whatever the number
\* of hook threads, the size of the queue and the configured sinks.
THEOREM Invariance == Spec => []IInv
<1>1. IInv /\ [Next]_vars => IInv'
  BY TypeStep, BacklogStep, RoutesStep, SinksStep, ErrorsStep DEF IInv
<1> QED
  BY <1>1, Initially, PTL DEF Spec

\* Type correctness, and that the worker holds an event exactly while it
\* processes one.
THEOREM TypeCorrect == Spec => []TypeOK
<1>1. IInv => TypeOK
  BY DEF IInv
<1> QED
  BY <1>1, Invariance, PTL

\* What is not counted as processed is in the worker's hand or behind it in
\* the queue, in order: _run() takes every accepted event exactly once.
THEOREM NothingLost == Spec => []Conservation
<1>1. ASSUME IInv PROVE Conservation
  <2> DEFINE hand == IF cur = 0 THEN <<>> ELSE <<cur>>
             rest == [i \in 1..(puts - processed) |-> processed + i]
  <2>1. /\ q \in Seq(Nat) /\ cur \in Nat /\ processed \in Nat /\ puts \in Nat
        /\ puts = processed + Held + Len(q) /\ (cur # 0 => cur = processed + 1)
        /\ Run(q, processed + Held)
    BY <1>1 DEF IInv, TypeOK, Backlog
  <2>2. hand \in Seq(Nat) /\ Len(hand) = Held /\ (\A i \in 1..Held : hand[i] = processed + i)
        /\ Held \in {0, 1} /\ Len(q) \in Nat
    BY <2>1, LenProperties DEF Held
  <2> HIDE DEF hand
  <2>3. hand \o q \in Seq(Nat) /\ Len(hand \o q) = Held + Len(q)
    BY <2>1, <2>2, ConcatProperties
  <2>4. \A i \in 1..(Held + Len(q)) : (hand \o q)[i] = processed + i
    <3> SUFFICES ASSUME NEW i \in 1..(Held + Len(q))
                 PROVE  (hand \o q)[i] = processed + i
      OBVIOUS
    <3>1. (hand \o q)[i] = IF i <= Held THEN hand[i] ELSE q[i - Held]
      BY <2>1, <2>2, ConcatProperties
    <3>2. CASE i <= Held
      BY <2>2, <3>1, <3>2
    <3>3. CASE i > Held
      <4>1. i - Held \in 1..Len(q)
        BY <2>2, <3>3
      <4>2. q[i - Held] = (processed + Held) + (i - Held)
        BY <2>1, <4>1 DEF Run
      <4> QED
        BY <2>1, <2>2, <3>1, <3>3, <4>2
    <3> QED
      BY <2>2, <3>2, <3>3
  <2>5. puts - processed = Held + Len(q)
    BY <2>1, <2>2
  <2>6. hand \o q = [i \in 1..(Held + Len(q)) |-> (hand \o q)[i]]
    BY <2>3, LenProperties
  <2>7. hand \o q = rest
    BY <2>4, <2>5, <2>6
  <2> QED
    BY <2>7 DEF Conservation, hand
<1> QED
  BY <1>1, Invariance, PTL

\* The specs are ahead of the database: both sinks see the events once and in
\* order, and the writer sees none that the store has not recorded.
THEOREM SpecsFirst == Spec => []SpecFirst
<1>1. ASSUME IInv PROVE SpecFirst
  <2>1. DOMAIN recorded = 1..Len(recorded) /\ DOMAIN forwarded = 1..Len(forwarded)
    BY <1>1, LenProperties DEF IInv, TypeOK
  <2> QED
    BY <1>1, <2>1 DEF IInv, Sinks, Climbs, AllRecorded, SpecFirst, Ascending
<1> QED
  BY <1>1, Invariance, PTL

\* The error counter explains every event that was processed and did not
\* arrive.
THEOREM ErrorsExplained == Spec => []ErrorsExplainGaps
<1>1. IInv => ErrorsExplainGaps
  BY DEF IInv
<1> QED
  BY <1>1, Invariance, PTL

-----------------------------------------------------------------------------
(* The refinement of ExchangeLog                                           *)

\* Append(s, cur) is s with the oldest undecided event behind it.
LEMMA TakesOldest ==
  ASSUME NEW s \in Seq(Nat), Decided \in Nat, cur = Decided + 1
  PROVE  Append(s, cur) = s \o Log!Oldest(1)
<1>1. cur \in Nat /\ <<cur>> = [i \in 1..1 |-> cur]
  OBVIOUS
<1>2. Log!Oldest(1) = [i \in 1..1 |-> Decided + i]
  BY DEF Log!Oldest
<1>3. Log!Oldest(1) = <<cur>>
  BY <1>1, <1>2
<1> QED
  BY <1>1, <1>3, AppendIsConcat

\* The worker writes the oldest undecided event, loses it, or shows nothing.
LEMMA WorkerOnLog ==
  ASSUME IInv, Worker
  PROVE  [Log!Next]_(Log!vars)
<1> USE DEF Go, queueVars, counters, sinks
<1>1. /\ processed \in Nat /\ puts \in Nat /\ Len(q) \in Nat /\ recorded \in Seq(Nat)
      /\ forwarded \in Seq(Nat) /\ q \in Seq(Nat) /\ Routes
  BY LenProperties DEF IInv, TypeOK
\* An event in hand that is not decided is the oldest of the log.
<1>2. ASSUME worker \in {"parse", "update", "forward"}
      PROVE  Decided = processed /\ cur = processed + 1 /\ 1 \in 1..(puts - Decided)
  <2>1. cur # 0 /\ cur = processed + 1 /\ puts = processed + 1 + Len(q)
    BY <1>2 DEF IInv, TypeOK, Backlog, Held
  <2>2. Decided = processed
    BY <1>1, <1>2 DEF Decided
  <2> QED
    BY <1>1, <2>1, <2>2
<1>3. ASSUME worker \in {"parse", "update", "forward"}, worker' \in {"failed", "done"},
             UNCHANGED <<processed, puts>>
      PROVE  /\ Decided' = Decided + 1
             /\ Sink' = Sink => Log!Next
             /\ Sink' = Append(Sink, cur) => Log!Next
  <2>1. Decided' = Decided + 1 /\ puts' = puts
    BY <1>1, <1>2, <1>3 DEF Decided
  <2>2. Sink' = Sink => Log!Lose(1)
    BY <2>1 DEF Log!Lose
  <2>3. Sink \in Seq(Nat) /\ Decided \in Nat /\ cur = Decided + 1
    BY <1>1, <1>2, <1>3 DEF Sink
  <2>4. Sink' = Append(Sink, cur) => Log!Write(1)
    BY <2>1, <2>3, TakesOldest DEF Log!Write
  <2>5. 1 \in 1..(puts - Decided)
    BY <1>2, <1>3
  <2> QED
    BY <2>1, <2>2, <2>4, <2>5 DEF Log!Next
<1>4. ASSUME UNCHANGED <<puts, recorded, forwarded>>, Decided' = Decided
      PROVE  UNCHANGED Log!vars
  BY <1>4 DEF Log!vars, Sink
<1>5. CASE Update
  <2>1. /\ worker = "update" /\ recorded' = Append(recorded, cur)
        /\ UNCHANGED <<processed, puts, cur, forwarded>>
    BY <1>5 DEF Update
  <2>2. CASE HasWriter
    <3>1. worker' = "forward" /\ Sink' = Sink
      BY <1>5, <2>1, <2>2 DEF Update, AfterUpdate, Sink
    <3>2. Decided' = Decided
      BY <2>1, <3>1 DEF Decided
    <3> QED
      BY <2>1, <3>1, <3>2 DEF Log!vars
  <2>3. CASE ~HasWriter
    <3>1. worker' = "done" /\ Sink' = Append(Sink, cur)
      BY <1>5, <2>1, <2>3 DEF Update, AfterUpdate, Sink
    <3> QED
      BY <1>3, <2>1, <3>1
  <2> QED
    BY <2>2, <2>3
<1>6. CASE Forward
  <2>1. /\ worker = "forward" /\ worker' = "done" /\ forwarded' = Append(forwarded, cur)
        /\ UNCHANGED <<processed, puts, cur, recorded>>
    BY <1>6 DEF Forward
  <2>2. Sink' = Append(Sink, cur)
    BY <1>1, <2>1 DEF Routes, Sink
  <2> QED
    BY <1>3, <2>1, <2>2
<1>7. CASE Parse \/ Raises
  <2>1. /\ worker \in {"parse", "update", "forward"}
        /\ worker' \in {"failed", "done"} \/ (worker = "parse" /\ worker' \in {"update", "forward"})
        /\ UNCHANGED <<processed, puts, recorded, forwarded>>
    BY <1>7 DEF Parse, Raises, AfterUpdate
  <2>2. Sink' = Sink
    BY <2>1 DEF Sink
  <2>3. CASE worker' \in {"failed", "done"}
    BY <1>3, <2>1, <2>2, <2>3
  <2>4. CASE worker = "parse" /\ worker' \in {"update", "forward"}
    BY <1>4, <2>1, <2>4 DEF Decided
  <2> QED
    BY <2>1, <2>3, <2>4
<1>8. CASE CountError
  BY <1>4, <1>8 DEF CountError, Decided
<1>9. CASE CountProcessed
  <2>1. worker = "done" /\ worker' = "check" /\ processed' = processed + 1
        /\ UNCHANGED <<puts, recorded, forwarded>>
    BY <1>9 DEF CountProcessed
  <2>2. Decided' = Decided
    BY <1>1, <2>1 DEF Decided
  <2> QED
    BY <1>4, <2>1, <2>2
<1>10. CASE GetEvent \/ GetTimesOut \/ AfterTimeout \/ ExitCheck
  BY <1>4, <1>10 DEF GetEvent, GetTimesOut, AfterTimeout, ExitCheck, Decided
<1> QED
  BY <1>5, <1>6, <1>7, <1>8, <1>9, <1>10 DEF Worker

\* Every step of the pipeline is a step of the log or shows nothing.
LEMMA LogStep == IInv /\ [Next]_vars => [Log!Next]_(Log!vars)
<1> SUFFICES ASSUME IInv, [Next]_vars
             PROVE  [Log!Next]_(Log!vars)
  OBVIOUS
<1> USE DEF queueVars, counters, sinks
<1>1. ASSUME (\E p \in Producers : Enqueue(p)) \/ Close \/ UNCHANGED vars
      PROVE  Decided' = Decided /\ Sink' = Sink
  BY <1>1, AroundWorker DEF IInv, Decided, Sink
<1>2. ASSUME NEW p \in Producers, Put(p)
      PROVE  Log!Accept
  <2>1. puts' = puts + 1 /\ Enqueue(p)
    BY <1>2 DEF Put, Enqueue
  <2> QED
    BY <1>1, <2>1 DEF Log!Accept
<1>3. ASSUME NEW p \in Producers, Enqueue(p), ~Put(p)
      PROVE  UNCHANGED Log!vars
  <2>1. puts' = puts
    BY <1>3 DEF Enqueue, EnqueueCall, StartCheck, StartMark, StartSpawn, Redact, Drop, Count
  <2> QED
    BY <1>1, <1>3, <2>1 DEF Log!vars
<1>4. CASE Close \/ UNCHANGED vars
  <2>1. puts' = puts
    BY <1>4 DEF Close, CloseCall, CloseSet, CloseJoin, CloseClear, vars
  <2> QED
    BY <1>1, <1>4, <2>1 DEF Log!vars
<1> QED
  BY <1>2, <1>3, <1>4, WorkerOnLog DEF Next, Log!Next

\* The pipeline implements ExchangeLog with groups of one: events reach their
\* last sink, or are lost, one at a time and in the order of their capture.
THEOREM Refinement == Spec => ImplementsLog
<1>1. Init => Log!Init
  BY DEF Init, Log!Init, Decided, Sink
<1> QED
  BY <1>1, LogStep, Invariance, PTL DEF Spec, ImplementsLog, Log!Spec
=============================================================================
