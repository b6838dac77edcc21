------------------------ MODULE ExchangeWriterProofs ------------------------
(***************************************************************************)
(* The safety properties of ExchangeWriter for any set of producers, any   *)
(* queue and batch size and any number of calls, proved from an inductive  *)
(* invariant, and the refinement of ExchangeLog.                           *)
(***************************************************************************)
EXTENDS ExchangeWriter, SequenceTheorems, TLAPS

-----------------------------------------------------------------------------
(* The queue and the batch hold consecutive ordinals, the log ordinals     *)
(* that increase: what taking, adding and joining do to such sequences.    *)

\* s counts up from n + 1.
Run(s, n) == \A i \in 1..Len(s) : s[i] = n + i

\* s increases strictly and stays in 1..n.
Climbs(s, n) ==
    /\ \A i \in 1..Len(s) : s[i] \in 1..n
    /\ \A i, j \in 1..Len(s) : i < j => s[i] < s[j]

\* A run is continued by its next number.
LEMMA RunAppend ==
  ASSUME NEW s \in Seq(Nat), NEW n \in Nat, Run(s, n)
  PROVE  Run(Append(s, n + Len(s) + 1), n)
<1> DEFINE t == Append(s, n + Len(s) + 1)
<1>1. Len(s) \in Nat /\ n + Len(s) + 1 \in Nat
  BY LenProperties
<1>2. /\ Len(t) = Len(s) + 1
      /\ \A i \in 1..Len(s) : t[i] = s[i]
      /\ t[Len(s) + 1] = n + Len(s) + 1
  BY <1>1, AppendProperties
<1> HIDE DEF t
<1>3. \A i \in 1..Len(t) : t[i] = n + i
  <2> TAKE i \in 1..Len(t)
  <2>1. CASE i = Len(s) + 1
    BY <1>1, <1>2, <2>1
  <2>2. CASE i # Len(s) + 1
    BY <1>1, <1>2, <2>2 DEF Run
  <2> QED
    BY <2>1, <2>2
<1> QED
  BY <1>3 DEF Run, t

\* A run without its first number is a run.
LEMMA RunTail ==
  ASSUME NEW s \in Seq(Nat), NEW n \in Nat, Run(s, n), s # <<>>
  PROVE  Head(s) = n + 1 /\ Run(Tail(s), n + 1)
<1>1. Len(s) \in Nat /\ Len(s) # 0
  BY LenProperties, EmptySeq
<1>2. Head(s) = s[1]
  BY <1>1
<1>3. Len(Tail(s)) = Len(s) - 1 /\ \A i \in 1..Len(Tail(s)) : Tail(s)[i] = s[i + 1]
  BY HeadTailProperties
<1>4. \A i \in 1..Len(Tail(s)) : Tail(s)[i] = (n + 1) + i
  BY <1>1, <1>3 DEF Run
<1> QED
  BY <1>1, <1>2, <1>4 DEF Run

\* An ascending sequence can be continued by a run that starts above it.
LEMMA ClimbsRun ==
  ASSUME NEW s \in Seq(Nat), NEW t \in Seq(Nat), NEW n \in Nat, Climbs(s, n), Run(t, n)
  PROVE  Climbs(s \o t, n + Len(t))
<1> DEFINE u == s \o t
<1>1. Len(s) \in Nat /\ Len(t) \in Nat
  BY LenProperties
<1>2. /\ Len(u) = Len(s) + Len(t)
      /\ \A i \in 1..Len(s) + Len(t) : u[i] = IF i <= Len(s) THEN s[i] ELSE t[i - Len(s)]
  BY ConcatProperties
<1> HIDE DEF u
<1>3. \A i \in 1..Len(u) : i <= Len(s) => u[i] = s[i] /\ s[i] \in 1..n
  BY <1>1, <1>2 DEF Climbs
<1>4. \A i \in 1..Len(u) : i > Len(s) => u[i] = n + (i - Len(s))
  <2> SUFFICES ASSUME NEW i \in 1..Len(u), i > Len(s)
               PROVE  u[i] = n + (i - Len(s))
    OBVIOUS
  <2>1. i - Len(s) \in 1..Len(t)
    BY <1>1, <1>2
  <2>2. u[i] = t[i - Len(s)]
    BY <1>1, <1>2
  <2> QED
    BY <2>1, <2>2 DEF Run
<1> DEFINE k == Len(s)  m == Len(t)
<1>7. k \in Nat /\ m \in Nat /\ Len(u) = k + m
  BY <1>1, <1>2
<1>8. /\ \A i \in 1..(k + m) : i <= k => u[i] = s[i] /\ s[i] \in 1..n
      /\ \A i \in 1..(k + m) : i > k => u[i] = n + (i - k)
  BY <1>3, <1>4, <1>7
<1>9. \A i, j \in 1..k : i < j => s[i] < s[j]
  BY DEF Climbs
<1> HIDE DEF k, m
<1>5. \A i \in 1..(k + m) : u[i] \in 1..(n + m)
  <2> TAKE i \in 1..(k + m)
  <2>1. CASE i <= k
    <3>1. u[i] \in 1..n
      BY <1>8, <2>1
    <3> QED
      BY <1>7, <3>1
  <2>2. CASE i > k
    <3>1. u[i] = n + (i - k)
      BY <1>8, <2>2
    <3> QED
      BY <1>7, <2>2, <3>1
  <2> QED
    BY <1>7, <2>1, <2>2
<1>6. \A i, j \in 1..(k + m) : i < j => u[i] < u[j]
  <2> SUFFICES ASSUME NEW i \in 1..(k + m), NEW j \in 1..(k + m), i < j
               PROVE  u[i] < u[j]
    OBVIOUS
  <2>1. CASE j <= k
    <3>1. i \in 1..k /\ j \in 1..k
      BY <1>7, <2>1
    <3>2. u[i] = s[i] /\ u[j] = s[j]
      BY <1>7, <1>8, <2>1
    <3> QED
      BY <1>9, <3>1, <3>2
  <2>2. CASE i <= k /\ j > k
    <3>1. u[i] \in 1..n /\ u[j] = n + (j - k)
      BY <1>8, <2>2
    <3> QED
      BY <1>7, <2>2, <3>1
  <2>3. CASE i > k
    <3>1. u[i] = n + (i - k) /\ u[j] = n + (j - k)
      BY <1>7, <1>8, <2>3
    <3> QED
      BY <1>7, <3>1
  <2> QED
    BY <1>7, <2>1, <2>2, <2>3
<1> QED
  BY <1>5, <1>6, <1>7 DEF Climbs, u, m

-----------------------------------------------------------------------------
(* The inductive invariant.                                                *)

Accounted == written + failed

\* A transaction is open only while the worker inserts into it.
Transaction == worker # "insert" => tx = 0

\* Conservation, element by element: the batch follows the accounted items
\* and the queue follows the batch.
Backlog ==
    /\ puts = Accounted + Len(batch) + Len(q)
    /\ Run(batch, Accounted)
    /\ Run(q, Accounted + Len(batch))

\* Calls are counted before flush() looks, and settled before it returns.
Targets == target <= enqueued /\ FlushSound

IInv == TypeOK /\ Transaction /\ Backlog /\ WrittenIsDurable /\ OnceInOrder /\ Targets

-----------------------------------------------------------------------------
\* The first state satisfies the invariant.
LEMMA Initially == Init => IInv
<1> SUFFICES ASSUME Init PROVE IInv
  OBVIOUS
<1> USE DEF Init
<1>1. q = <<>> /\ batch = <<>> /\ db = <<>> /\ Len(q) = 0 /\ Len(batch) = 0 /\ Len(db) = 0
  OBVIOUS
<1>2. TypeOK
  <2>1. q \in Seq(Nat) /\ batch \in Seq(Nat) /\ db \in Seq(Nat)
    BY EmptySeq
  <2>2. tx \in 0..Len(batch)
    BY <1>1
  <2>3. worker \in WorkerPCs /\ closer \in CloserPCs /\ flusher \in FlusherPCs
    BY DEF WorkerPCs, CloserPCs, FlusherPCs
  <2>4. producer \in [Producers -> ProducerPCs]
    BY DEF ProducerPCs
  <2> QED
    BY <2>1, <2>2, <2>3, <2>4 DEF TypeOK
<1>3. Transaction /\ Backlog
  <2>1. puts = Accounted + Len(batch) + Len(q)
    BY <1>1 DEF Accounted
  <2>2. Run(batch, Accounted) /\ Run(q, Accounted + Len(batch))
    BY <1>1 DEF Run
  <2> QED
    BY <2>1, <2>2 DEF Transaction, Backlog
<1>4. WrittenIsDurable /\ OnceInOrder
  BY <1>1 DEF WrittenIsDurable, OnceInOrder
<1>5. Targets
  BY DEF Targets, FlushSound
<1> QED
  BY <1>2, <1>3, <1>4, <1>5 DEF IInv

\* Every step keeps the types and leaves no transaction behind.
LEMMA TypeStep == TypeOK /\ Transaction /\ [Next]_vars => TypeOK' /\ Transaction'
<1> SUFFICES ASSUME TypeOK, Transaction, [Next]_vars
             PROVE  TypeOK' /\ Transaction'
  OBVIOUS
<1> USE DEF TypeOK, Transaction, WorkerPCs, queueVars, counters, workerVars, callers
<1>1. ASSUME NEW p \in Producers, Enqueue(p)
      PROVE  TypeOK' /\ Transaction'
  <2> USE DEF At, ProducerPCs
  <2>1. CASE EnqueueCall(p)
    BY <2>1 DEF EnqueueCall
  <2>2. CASE StartCheck(p)
    BY <2>2 DEF StartCheck
  <2>3. CASE StartMark(p)
    BY <2>3 DEF StartMark
  <2>4. CASE StartSpawn(p)
    BY <2>4 DEF StartSpawn
  <2>5. CASE Put(p, puts + 1)
    BY <2>5 DEF Put
  <2>6. CASE Drop(p)
    BY <2>6 DEF Drop
  <2>7. CASE Count(p)
    BY <2>7 DEF Count
  <2> QED
    BY <1>1, <2>1, <2>2, <2>3, <2>4, <2>5, <2>6, <2>7 DEF Enqueue
<1>2. ASSUME Worker
      PROVE  TypeOK' /\ Transaction'
  <2>1. CASE Open
    BY <2>1 DEF Open
  <2>2. CASE OpenFails
    BY <2>2 DEF OpenFails
  <2>3. CASE CountUnopened
    BY <2>3 DEF CountUnopened
  <2>4. CASE GetItem
    <3>1. tx = 0 /\ tx' = 0
      BY <2>4 DEF GetItem
    <3>2. Head(q) \in Nat /\ Tail(q) \in Seq(Nat)
      BY <2>4, HeadTailProperties DEF GetItem
    <3>3. batch' \in Seq(Nat) /\ Len(batch') = Len(batch) + 1
      BY <2>4, <3>2, AppendProperties DEF GetItem
    <3>4. due' \in BOOLEAN
      BY <2>4 DEF GetItem
    <3> QED
      BY <2>4, <3>1, <3>2, <3>3, <3>4, LenProperties DEF GetItem
  <2>5. CASE GetEmpty
    BY <2>5 DEF GetEmpty
  <2>6. CASE Decide
    BY <2>6 DEF Decide
  <2>7. CASE InsertRow
    BY <2>7 DEF InsertRow
  <2>8. CASE Commit
    BY <2>8 DEF Commit
  <2>9. CASE Rollback
    BY <2>9 DEF Rollback
  <2>10. CASE Account
    <3>1. tx = 0 /\ tx' = 0 /\ batch' = <<>>
      BY <2>10 DEF Account
    <3>2. batch' \in Seq(Nat) /\ Len(batch') = 0
      BY <3>1, EmptySeq
    <3>3. Len(batch) \in Nat
      BY LenProperties
    <3>4. written' \in Nat /\ failed' \in Nat
      BY <2>10, <3>3 DEF Account
    <3>5. tx' \in 0..Len(batch')
      BY <3>1, <3>2
    <3>6. UNCHANGED <<q, db, started, stop, enqueued, dropped, puts, target, seen,
                      producer, closer, flusher>> /\ due' = FALSE /\ worker' = "check"
      BY <2>10 DEF Account
    <3> QED
      BY <3>1, <3>2, <3>4, <3>5, <3>6
  <2>11. CASE ExitCheck
    BY <2>11 DEF ExitCheck
  <2> QED
    BY <1>2, <2>1, <2>2, <2>3, <2>4, <2>5, <2>6, <2>7, <2>8, <2>9, <2>10, <2>11 DEF Worker
<1>3. ASSUME Close
      PROVE  TypeOK' /\ Transaction'
  BY <1>3 DEF Close, CloseCall, CloseSet, CloseJoin, CloseClear, CloserPCs
<1>4. ASSUME Flush
      PROVE  TypeOK' /\ Transaction'
  BY <1>4 DEF Flush, FlushCall, FlushLooks, FlushCompares, FlushDeadline, FlusherPCs
<1>5. CASE UNCHANGED vars
  BY <1>5 DEF vars
<1> QED
  BY <1>1, <1>2, <1>3, <1>4, <1>5 DEF Next

\* flush() compares with a count that only grows.
LEMMA TargetStep == TypeOK /\ Targets /\ [Next]_vars => Targets'
<1> SUFFICES ASSUME TypeOK, Targets, [Next]_vars
             PROVE  Targets'
  OBVIOUS
<1> USE DEF TypeOK, Targets, FlushSound, queueVars, counters, workerVars, callers
<1>1. ASSUME NEW p \in Producers, Enqueue(p)
      PROVE  Targets'
  BY <1>1 DEF Enqueue, EnqueueCall, StartCheck, StartMark, StartSpawn, Put, Drop, Count
<1>2. CASE Account
  <2>1. Len(batch) \in Nat
    BY LenProperties
  <2>2. flusher' = flusher /\ target' = target /\ enqueued' = enqueued
    BY <1>2 DEF Account
  <2>3. ASSUME flusher = "done"
        PROVE  written' + failed' >= target
    <3>1. written + failed >= target
      BY <2>3
    <3>2. CASE worker = "committed"
      <4>1. written' = written + Len(batch) /\ failed' = failed
        BY <1>2, <2>1, <3>2 DEF Account
      <4> QED
        BY <2>1, <3>1, <4>1
    <3>3. CASE worker = "rolledback"
      <4>1. written' = written /\ failed' = failed + Len(batch)
        BY <1>2, <2>1, <3>3 DEF Account
      <4> QED
        BY <2>1, <3>1, <4>1
    <3> QED
      BY <1>2, <3>2, <3>3 DEF Account
  <2> QED
    BY <2>2, <2>3
<1>3. ASSUME Worker, ~Account
      PROVE  Targets'
  BY <1>3 DEF Worker, Open, OpenFails, CountUnopened, GetItem, GetEmpty, Decide,
              InsertRow, Commit, Rollback, ExitCheck
<1>4. ASSUME Close
      PROVE  Targets'
  BY <1>4 DEF Close, CloseCall, CloseSet, CloseJoin, CloseClear
<1>5. ASSUME Flush
      PROVE  Targets'
  BY <1>5 DEF Flush, FlushCall, FlushLooks, FlushCompares, FlushDeadline
<1>6. CASE UNCHANGED vars
  BY <1>6 DEF vars
<1> QED
  BY <1>1, <1>2, <1>3, <1>4, <1>5, <1>6 DEF Next

\* The steps that touch neither the items nor what is counted of them.
LEMMA QuietSteps ==
  ASSUME IInv,
         UNCHANGED <<q, puts, batch, db, written, failed>>,
         TypeOK', Transaction', (worker' = "committed" <=> worker = "committed"), Targets'
  PROVE  IInv'
  BY DEF IInv, Backlog, Accounted, WrittenIsDurable, OnceInOrder, Settled

\* OnceInOrder in terms of Climbs.
LEMMA OnceInOrderIsClimbs ==
  ASSUME TypeOK PROVE OnceInOrder <=> Climbs(db, Settled)
<1>1. DOMAIN db = 1..Len(db)
  BY LenProperties DEF TypeOK
<1> QED
  BY <1>1 DEF OnceInOrder, Climbs

\* put(): the new item follows the backlog.
LEMMA PutStep ==
  ASSUME IInv, NEW p \in Producers, Put(p, puts + 1)
  PROVE  Backlog' /\ WrittenIsDurable' /\ OnceInOrder'
<1>1. /\ q' = Append(q, puts + 1)
      /\ puts' = puts + 1
      /\ UNCHANGED <<written, failed, worker, batch, db>>
  BY DEF Put, counters, workerVars
<1>2. q \in Seq(Nat) /\ puts \in Nat /\ Accounted \in Nat /\ Len(batch) \in Nat /\ Len(q) \in Nat
  BY LenProperties DEF IInv, TypeOK, Accounted
<1>3. puts + 1 = (Accounted + Len(batch)) + Len(q) + 1 /\ Run(q, Accounted + Len(batch))
  BY DEF IInv, Backlog
<1>4. Run(q', Accounted + Len(batch))
  BY <1>1, <1>2, <1>3, RunAppend
<1>5. Len(q') = Len(q) + 1
  BY <1>1, <1>2, AppendProperties
<1>6. Backlog'
  BY <1>1, <1>2, <1>3, <1>4, <1>5 DEF IInv, Backlog, Accounted
<1>7. WrittenIsDurable' /\ OnceInOrder'
  BY <1>1 DEF IInv, WrittenIsDurable, OnceInOrder, Settled
<1> QED
  BY <1>6, <1>7

\* get(): the head of the queue joins the batch.
LEMMA GetStep ==
  ASSUME IInv, GetItem
  PROVE  Backlog' /\ WrittenIsDurable' /\ OnceInOrder'
<1>1. /\ q # <<>> /\ q' = Tail(q) /\ batch' = Append(batch, Head(q))
      /\ worker = "get" /\ worker' = "decide"
      /\ UNCHANGED <<written, failed, puts, db>>
  BY DEF GetItem, counters
<1>2. q \in Seq(Nat) /\ batch \in Seq(Nat) /\ Accounted \in Nat
  BY DEF IInv, TypeOK, Accounted
<1>3. Len(q) \in Nat /\ Len(batch) \in Nat /\ Accounted + Len(batch) \in Nat
  BY <1>2, LenProperties
<1>4. Run(batch, Accounted) /\ Run(q, Accounted + Len(batch))
  BY DEF IInv, Backlog
<1>5. Head(q) = Accounted + Len(batch) + 1 /\ Run(q', Accounted + Len(batch) + 1)
  BY <1>1, <1>2, <1>3, <1>4, RunTail
<1>6. Run(batch', Accounted)
  BY <1>1, <1>2, <1>4, <1>5, RunAppend
<1>7. Len(q') = Len(q) - 1 /\ Len(batch') = Len(batch) + 1
  BY <1>1, <1>2, HeadTailProperties, AppendProperties
<1>8. Backlog'
  <2>1. puts = Accounted + Len(batch) + Len(q)
    BY DEF IInv, Backlog
  <2>2. Accounted' = Accounted
    BY <1>1 DEF Accounted
  <2>3. puts' = Accounted' + Len(batch') + Len(q')
    BY <1>1, <1>2, <1>3, <1>7, <2>1, <2>2
  <2>4. Accounted' + Len(batch') = Accounted + Len(batch) + 1
    BY <1>2, <1>3, <1>7, <2>2
  <2> QED
    BY <1>5, <1>6, <2>2, <2>3, <2>4 DEF Backlog
<1>9. WrittenIsDurable' /\ OnceInOrder'
  BY <1>1 DEF IInv, WrittenIsDurable, OnceInOrder, Settled
<1> QED
  BY <1>8, <1>9

\* commit(): the batch is appended to what is durable.
LEMMA CommitStep ==
  ASSUME IInv, TypeOK', Commit
  PROVE  Backlog' /\ WrittenIsDurable' /\ OnceInOrder'
<1>1. /\ db' = db \o batch
      /\ worker = "insert" /\ worker' = "committed"
      /\ UNCHANGED <<written, failed, puts, q, batch>>
  BY DEF Commit, counters, queueVars
<1>2. db \in Seq(Nat) /\ batch \in Seq(Nat) /\ Accounted \in Nat /\ written \in Nat
  BY DEF IInv, TypeOK, Accounted
<1>3. Len(db) \in Nat /\ Len(batch) \in Nat /\ Len(db') = Len(db) + Len(batch)
  BY <1>1, <1>2, LenProperties, ConcatProperties
<1>4. Backlog'
  BY <1>1 DEF IInv, Backlog, Accounted
<1>5. WrittenIsDurable'
  BY <1>1, <1>2, <1>3 DEF IInv, WrittenIsDurable
<1>6. Settled = Accounted /\ Settled' = Accounted + Len(batch)
  BY <1>1, <1>2 DEF Settled, Accounted
<1>7. Climbs(db, Accounted) /\ Run(batch, Accounted)
  BY <1>6, OnceInOrderIsClimbs DEF IInv, Backlog
<1>8. Climbs(db', Settled')
  BY <1>1, <1>2, <1>6, <1>7, ClimbsRun
<1>9. DOMAIN db' = 1..Len(db')
  BY LenProperties DEF TypeOK
<1>10. OnceInOrder'
  BY <1>8, <1>9 DEF Climbs, OnceInOrder
<1> QED
  BY <1>4, <1>5, <1>10

\* The batch leaves the backlog when it is counted.
LEMMA AccountStep ==
  ASSUME IInv, Account
  PROVE  Backlog' /\ WrittenIsDurable' /\ OnceInOrder'
<1>1. batch' = <<>> /\ worker' = "check" /\ UNCHANGED <<puts, q, db>>
  BY DEF Account, queueVars
<1>2. /\ Len(batch') = 0 /\ Len(batch) \in Nat /\ Len(q) \in Nat
      /\ written \in Nat /\ failed \in Nat
  BY <1>1, EmptySeq, LenProperties DEF IInv, TypeOK
<1>3. /\ puts = Accounted + Len(batch) + Len(q) /\ Run(q, Accounted + Len(batch))
      /\ WrittenIsDurable /\ OnceInOrder
  BY DEF IInv, Backlog
<1>4. Accounted' = Accounted + Len(batch) => Backlog'
  <2>1. Run(batch', Accounted')
    BY <1>2 DEF Run
  <2> QED
    BY <1>1, <1>2, <1>3, <2>1 DEF Backlog, Accounted
<1>5. CASE worker = "committed"
  <2>1. written' = written + Len(batch) /\ failed' = failed
    BY <1>2, <1>5 DEF Account
  <2>2. Accounted' = Accounted + Len(batch) /\ Settled' = Settled
    BY <1>1, <1>2, <1>5, <2>1 DEF Accounted, Settled
  <2>3. WrittenIsDurable'
    BY <1>1, <1>2, <1>3, <1>5, <2>1 DEF WrittenIsDurable
  <2> QED
    BY <1>1, <1>3, <1>4, <2>2, <2>3 DEF OnceInOrder
<1>6. CASE worker = "rolledback"
  <2>1. written' = written /\ failed' = failed + Len(batch)
    BY <1>2, <1>6 DEF Account
  <2>2. Accounted' = Accounted + Len(batch)
    BY <1>2, <2>1 DEF Accounted
  <2>3. WrittenIsDurable'
    BY <1>1, <1>2, <1>3, <1>6, <2>1 DEF WrittenIsDurable
  <2>4. Settled \in Nat /\ Settled' \in Nat /\ Settled <= Settled'
    BY <1>1, <1>2, <1>6, <2>1 DEF Settled
  <2>5. OnceInOrder'
    BY <1>1, <1>3, <2>4 DEF OnceInOrder
  <2> QED
    BY <1>4, <2>2, <2>3, <2>5
<1> QED
  BY <1>5, <1>6 DEF Account

\* Every step keeps the invariant.
LEMMA Step == IInv /\ [Next]_vars => IInv'
<1> SUFFICES ASSUME IInv, [Next]_vars
             PROVE  IInv'
  OBVIOUS
<1>1. TypeOK' /\ Transaction' /\ Targets'
  BY TypeStep, TargetStep DEF IInv
<1> USE DEF queueVars, counters, workerVars, callers
<1>2. ASSUME NEW p \in Producers, Enqueue(p)
      PROVE  IInv'
  <2>1. CASE Put(p, puts + 1)
    BY <1>1, <2>1, PutStep DEF IInv
  <2>2. ASSUME ~Put(p, puts + 1)
        PROVE  IInv'
    <3>1. UNCHANGED <<q, puts, batch, db, written, failed>>
      BY <1>2, <2>2 DEF Enqueue, EnqueueCall, StartCheck, StartMark, StartSpawn, Drop, Count
    <3>2. worker' = "committed" <=> worker = "committed"
      BY <1>2, <2>2 DEF Enqueue, EnqueueCall, StartCheck, StartMark, StartSpawn, Drop, Count
    <3> QED
      BY <1>1, <3>1, <3>2, QuietSteps
  <2> QED
    BY <2>1, <2>2
<1>3. ASSUME Worker
      PROVE  IInv'
  <2>1. CASE GetItem
    BY <1>1, <2>1, GetStep DEF IInv
  <2>2. CASE Commit
    BY <1>1, <2>2, CommitStep DEF IInv
  <2>3. CASE Account
    BY <1>1, <2>3, AccountStep DEF IInv
  <2>4. ASSUME ~GetItem, ~Commit, ~Account
        PROVE  IInv'
    <3>1. UNCHANGED <<q, puts, batch, db, written, failed>>
      BY <1>3, <2>4 DEF Worker, Open, OpenFails, CountUnopened, GetEmpty, Decide, InsertRow,
                        Rollback, ExitCheck
    <3>2. worker' = "committed" <=> worker = "committed"
      BY <1>3, <2>4 DEF Worker, Open, OpenFails, CountUnopened, GetEmpty, Decide, InsertRow,
                        Rollback, ExitCheck
    <3> QED
      BY <1>1, <3>1, <3>2, QuietSteps
  <2> QED
    BY <2>1, <2>2, <2>3, <2>4
<1>4. ASSUME Close \/ Flush \/ UNCHANGED vars
      PROVE  IInv'
  <2>1. UNCHANGED <<q, puts, batch, db, written, failed, worker>>
    BY <1>4 DEF Close, CloseCall, CloseSet, CloseJoin, CloseClear, Flush, FlushCall, FlushLooks,
                FlushCompares, FlushDeadline, vars
  <2> QED
    BY <1>1, <2>1, QuietSteps
<1> QED
  BY <1>2, <1>3, <1>4 DEF Next

\* The inductive invariant holds in every reachable state.
THEOREM Invariance == Spec => []IInv
  BY Initially, Step, PTL DEF Spec

-----------------------------------------------------------------------------
(* The properties                                                          *)

\* The variables of the writer range over what the code stores in them.
THEOREM TypeCorrect == Spec => []TypeOK
<1>1. IInv => TypeOK
  BY DEF IInv
<1> QED
  BY <1>1, Invariance, PTL

\* _flush_batch() never writes an exchange twice, out of order, or one that is
\* still pending; _run() counts as written exactly what became durable.
THEOREM Durability == Spec => [](OnceInOrder /\ WrittenIsDurable)
<1>1. IInv => OnceInOrder /\ WrittenIsDurable
  BY DEF IInv
<1> QED
  BY <1>1, Invariance, PTL

\* flush() that returns before its deadline has waited for every exchange
\* that had been counted when it was called.
THEOREM FlushWaits == Spec => []FlushSound
<1>1. IInv => FlushSound
  BY DEF IInv, Targets
<1> QED
  BY <1>1, Invariance, PTL

\* What is pending is what was accepted after the settled ones, in order.
LEMMA BacklogIsConserved == TypeOK /\ Backlog => Conservation
<1> SUFFICES ASSUME TypeOK, Backlog
             PROVE  Conservation
  OBVIOUS
<1>1. /\ q \in Seq(Nat) /\ batch \in Seq(Nat)
      /\ Accounted \in Nat /\ puts \in Nat
  BY DEF TypeOK, Accounted
<1>2. Len(q) \in Nat /\ Len(batch) \in Nat
  BY <1>1, LenProperties
<1>3. /\ puts = Accounted + Len(batch) + Len(q)
      /\ \A i \in 1..Len(batch) : batch[i] = Accounted + i
      /\ \A i \in 1..Len(q) : q[i] = Accounted + Len(batch) + i
  BY DEF Backlog, Run
<1>4. CASE worker = "committed"
  <2>1. Settled = Accounted + Len(batch) /\ Pending = q
    BY <1>1, <1>2, <1>4 DEF Settled, Pending, Accounted
  <2>2. puts - Settled = Len(q)
    BY <1>1, <1>2, <1>3, <2>1
  <2>3. q = [i \in 1..Len(q) |-> q[i]]
    BY <1>1, LenProperties
  <2>4. [i \in 1..Len(q) |-> q[i]] = [i \in 1..Len(q) |-> Settled + i]
    BY <1>3, <2>1
  <2> QED
    BY <2>1, <2>2, <2>3, <2>4 DEF Conservation
<1>5. CASE worker # "committed"
  <2> DEFINE u == batch \o q
  <2>1. Settled = Accounted /\ Pending = u
    BY <1>1, <1>2, <1>5 DEF Settled, Pending, Accounted
  <2>2. /\ u \in Seq(Nat) /\ Len(u) = Len(batch) + Len(q)
        /\ \A i \in 1..Len(batch) + Len(q) :
             u[i] = IF i <= Len(batch) THEN batch[i] ELSE q[i - Len(batch)]
    BY <1>1, ConcatProperties
  <2> HIDE DEF u
  <2>3. puts - Settled = Len(u)
    BY <1>1, <1>2, <1>3, <2>1, <2>2
  <2>4. \A i \in 1..Len(u) : u[i] = Accounted + i
    <3> TAKE i \in 1..Len(u)
    <3>1. CASE i <= Len(batch)
      BY <1>2, <1>3, <2>2, <3>1
    <3>2. CASE i > Len(batch)
      <4>1. i - Len(batch) \in 1..Len(q)
        BY <1>2, <2>2, <3>2
      <4>2. u[i] = q[i - Len(batch)]
        BY <1>2, <2>2, <3>2
      <4>3. q[i - Len(batch)] = Accounted + Len(batch) + (i - Len(batch))
        BY <1>3, <4>1
      <4> QED
        BY <1>1, <1>2, <4>2, <4>3
    <3> QED
      BY <1>2, <2>2, <3>1, <3>2
  <2>5. u = [i \in 1..Len(u) |-> u[i]]
    BY <2>2, LenProperties
  <2>6. [i \in 1..Len(u) |-> u[i]] = [i \in 1..Len(u) |-> Settled + i]
    BY <2>1, <2>4
  <2> QED
    BY <2>1, <2>3, <2>5, <2>6 DEF Conservation
<1> QED
  BY <1>4, <1>5

\* No accepted exchange is lost between the queue, the worker's batch and the
\* counters, and none overtakes another.
THEOREM NothingLost == Spec => []Conservation
<1>1. IInv => Conservation
  BY BacklogIsConserved DEF IInv
<1> QED
  BY <1>1, Invariance, PTL

\* _run() ends only on close()'s request and with everything accepted settled.
THEOREM ExitDrained == Spec => ExitsDrained
<1>1. ASSUME IInv, [Next]_vars, worker = "check", worker' = "dead"
      PROVE  stop /\ Settled = puts
  <2>1. ExitCheck
    <3>1. worker' # worker
      BY <1>1
    <3>2. ~(\E p \in Producers : Enqueue(p))
      BY <1>1, <3>1 DEF Enqueue, EnqueueCall, StartCheck, StartMark, StartSpawn, Put, Drop, Count,
                        workerVars
    <3>3. ~Close /\ ~Flush /\ ~UNCHANGED vars
      BY <3>1 DEF Close, CloseCall, CloseSet, CloseJoin, CloseClear, Flush, FlushCall, FlushLooks,
                  FlushCompares, FlushDeadline, vars, workerVars
    <3>4. Worker
      BY <1>1, <3>2, <3>3 DEF Next
    <3> QED
      BY <1>1, <3>4 DEF Worker, Open, OpenFails, CountUnopened, GetItem, GetEmpty, Decide,
                        InsertRow, Commit, Rollback, Account
  <2>2. stop /\ Len(q) = 0 /\ Len(batch) = 0
    BY <1>1, <2>1 DEF ExitCheck
  <2>3. puts = written + failed + Len(batch) + Len(q) /\ written \in Nat /\ failed \in Nat
    BY <1>1 DEF IInv, TypeOK, Backlog, Accounted
  <2> QED
    BY <1>1, <2>2, <2>3 DEF Settled
<1> QED
  BY <1>1, Invariance, PTL DEF Spec, ExitsDrained

-----------------------------------------------------------------------------
(* The refinement                                                          *)

\* put() accepts one exchange.
LEMMA PutIsAccept ==
  ASSUME IInv, NEW p \in Producers, Put(p, puts + 1)
  PROVE  Log!Accept
<1>1. puts' = puts + 1 /\ UNCHANGED <<written, failed, worker, batch, db>>
  BY DEF Put, counters, workerVars
<1> QED
  BY <1>1 DEF Log!Accept, Settled

\* commit() writes the oldest pending exchanges: all of the batch.
LEMMA CommitIsWrite ==
  ASSUME IInv, Commit
  PROVE  [Log!Next]_(Log!vars)
<1>1. /\ db' = db \o batch
      /\ worker = "insert" /\ worker' = "committed"
      /\ UNCHANGED <<written, failed, puts, batch>>
  BY DEF Commit, counters, queueVars
<1>2. /\ db \in Seq(Nat) /\ batch \in Seq(Nat) /\ written \in Nat /\ failed \in Nat
      /\ Len(batch) \in Nat /\ Len(q) \in Nat
  BY LenProperties DEF IInv, TypeOK
<1>3. Settled = written + failed /\ Settled' = Settled + Len(batch)
  BY <1>1, <1>2 DEF Settled
<1>4. puts = Settled + Len(batch) + Len(q) /\ \A i \in 1..Len(batch) : batch[i] = Settled + i
  BY <1>3 DEF IInv, Backlog, Run, Accounted
<1>5. batch = Log!Oldest(Len(batch))
  <2>1. batch = [i \in 1..Len(batch) |-> batch[i]]
    BY <1>2, LenProperties
  <2>2. [i \in 1..Len(batch) |-> batch[i]] = [i \in 1..Len(batch) |-> Settled + i]
    BY <1>4
  <2> QED
    BY <2>1, <2>2 DEF Log!Oldest
<1>6. CASE Len(batch) = 0
  <2>1. db' = db
    BY <1>1, <1>2, <1>6, EmptySeq, ConcatEmptySeq
  <2> QED
    BY <1>1, <1>2, <1>3, <1>6, <2>1 DEF Log!vars
<1>7. CASE Len(batch) # 0
  <2>1. Len(batch) \in 1..(puts - Settled)
    BY <1>2, <1>3, <1>4, <1>7
  <2>2. Log!Write(Len(batch))
    BY <1>1, <1>3, <1>5 DEF Log!Write
  <2> QED
    BY <2>1, <2>2 DEF Log!Next
<1> QED
  BY <1>6, <1>7

\* Counting a batch loses it if it was rolled back and shows nothing otherwise.
LEMMA AccountIsLose ==
  ASSUME IInv, Account
  PROVE  [Log!Next]_(Log!vars)
<1>1. worker' = "check" /\ UNCHANGED <<puts, db>>
  BY DEF Account, queueVars
<1>2. /\ written \in Nat /\ failed \in Nat /\ Len(batch) \in Nat /\ Len(q) \in Nat
  BY LenProperties DEF IInv, TypeOK
<1>3. puts = written + failed + Len(batch) + Len(q)
  BY DEF IInv, Backlog, Accounted
<1>4. CASE worker = "committed"
  <2>1. written' = written + Len(batch) /\ failed' = failed
    BY <1>2, <1>4 DEF Account
  <2>2. Settled' = Settled
    BY <1>1, <1>2, <1>4, <2>1 DEF Settled
  <2> QED
    BY <1>1, <2>2 DEF Log!vars
<1>5. CASE worker = "rolledback"
  <2>1. written' = written /\ failed' = failed + Len(batch)
    BY <1>2, <1>5 DEF Account
  <2>2. Settled = written + failed /\ Settled' = Settled + Len(batch)
    BY <1>1, <1>2, <1>5, <2>1 DEF Settled
  <2>3. CASE Len(batch) = 0
    BY <1>1, <1>2, <2>2, <2>3 DEF Log!vars
  <2>4. CASE Len(batch) # 0
    <3>1. Len(batch) \in 1..(puts - Settled)
      BY <1>2, <1>3, <2>2, <2>4
    <3>2. Log!Lose(Len(batch))
      BY <1>1, <2>2 DEF Log!Lose
    <3> QED
      BY <3>1, <3>2 DEF Log!Next
  <2> QED
    BY <2>3, <2>4
<1> QED
  BY <1>4, <1>5 DEF Account

\* Every other step shows nothing of the log.
LEMMA OtherStepsStutter ==
  ASSUME UNCHANGED <<puts, batch, db, written, failed>>,
         worker' = "committed" <=> worker = "committed"
  PROVE  UNCHANGED Log!vars
  BY DEF Log!vars, Settled

\* Every step of the writer is a step of the log or shows nothing.
LEMMA LogStep == IInv /\ [Next]_vars => [Log!Next]_(Log!vars)
<1> SUFFICES ASSUME IInv, [Next]_vars
             PROVE  [Log!Next]_(Log!vars)
  OBVIOUS
<1> USE DEF queueVars, counters, workerVars, callers
<1>1. ASSUME NEW p \in Producers, Enqueue(p)
      PROVE  [Log!Next]_(Log!vars)
  <2>1. CASE Put(p, puts + 1)
    BY <2>1, PutIsAccept DEF Log!Next
  <2>2. ASSUME ~Put(p, puts + 1)
        PROVE  [Log!Next]_(Log!vars)
    <3>1. /\ UNCHANGED <<puts, batch, db, written, failed>>
          /\ worker' = "committed" <=> worker = "committed"
      BY <1>1, <2>2 DEF Enqueue, EnqueueCall, StartCheck, StartMark, StartSpawn, Drop, Count
    <3> QED
      BY <3>1, OtherStepsStutter
  <2> QED
    BY <2>1, <2>2
<1>2. ASSUME Worker
      PROVE  [Log!Next]_(Log!vars)
  <2>1. CASE GetItem
    <3>1. /\ UNCHANGED <<puts, db, written, failed>>
          /\ worker # "committed" /\ worker' # "committed"
      BY <2>1 DEF GetItem
    <3> QED
      BY <3>1 DEF Log!vars, Settled
  <2>2. CASE Commit
    BY <2>2, CommitIsWrite
  <2>3. CASE Account
    BY <2>3, AccountIsLose
  <2>4. ASSUME ~GetItem, ~Commit, ~Account
        PROVE  [Log!Next]_(Log!vars)
    <3>1. /\ UNCHANGED <<puts, batch, db, written, failed>>
          /\ worker' = "committed" <=> worker = "committed"
      BY <1>2, <2>4 DEF Worker, Open, OpenFails, CountUnopened, GetEmpty, Decide, InsertRow,
                        Rollback, ExitCheck
    <3> QED
      BY <3>1, OtherStepsStutter
  <2> QED
    BY <2>1, <2>2, <2>3, <2>4
<1>3. ASSUME Close \/ Flush \/ UNCHANGED vars
      PROVE  [Log!Next]_(Log!vars)
  <2>1. UNCHANGED <<puts, batch, db, written, failed, worker>>
    BY <1>3 DEF Close, CloseCall, CloseSet, CloseJoin, CloseClear, Flush, FlushCall, FlushLooks,
                FlushCompares, FlushDeadline, vars
  <2> QED
    BY <2>1, OtherStepsStutter
<1> QED
  BY <1>1, <1>2, <1>3 DEF Next

\* The buffered writer implements ExchangeLog: whatever the threads, the queue,
\* the batches, the rollbacks and close() do, what reaches the database is
\* what appending the accepted exchanges in order, in whole groups, allows.
THEOREM Refinement == Spec => ImplementsLog
<1>1. Init => Log!Init
  BY DEF Init, Log!Init, Settled
<1> QED
  BY <1>1, LogStep, Invariance, PTL DEF Spec, ImplementsLog, Log!Spec
=============================================================================
