--------------------------- MODULE ExchangeWriter ---------------------------
(***************************************************************************)
(* motim/exchange_writer.py: BufferedExchangeWriter.  Producer threads put *)
(* exchanges on a bounded queue, one daemon worker batches them into       *)
(* SQLite transactions, and any thread may call flush() or close().  Every *)
(* step below is one access to state that another thread can see.          *)
(*                                                                         *)
(* An item is the ordinal of its put.  Left out: the two timing counters   *)
(* (flushes, flush_ms_total) and the payload.                              *)
(***************************************************************************)
EXTENDS Integers, Sequences, FiniteSets

CONSTANTS
    Producers,     \* threads that call enqueue(); the proxy has exactly one
    QueueMax,      \* queue_max; 0 is Python's "unbounded"
    BatchSize,     \* batch_size
    DropWhenFull,  \* drop_when_full
    MaxCalls       \* bound on accepted plus dropped calls, for model checking

ASSUME WriterAssumption ==
    /\ QueueMax \in Nat
    /\ BatchSize \in Nat
    /\ DropWhenFull \in BOOLEAN
    /\ MaxCalls \in Nat

VARIABLES
    q,             \* _q
    started,       \* _started
    stop,          \* _stop
    enqueued, dropped, written, failed,   \* the accounting counters
    worker,        \* where the worker thread is in _run
    batch,         \* the worker's local batch
    tx,            \* rows of batch inserted in the open transaction
    due,           \* flush_interval has elapsed since last_flush
    seen,          \* the value of dropped the failing worker adds to
    db,            \* committed exchanges, in rowid order
    producer,      \* where each producer is in enqueue()/start()
    closer,        \* where the caller of close() is
    flusher,       \* where the caller of flush() is
    target,        \* history: calls that had returned when flush() was called
    puts           \* history: number of items ever put on the queue

queueVars == <<q, puts>>
counters == <<enqueued, dropped, written, failed>>
workerVars == <<worker, batch, tx, due, seen, db>>
callers == <<producer, closer, flusher, target>>
vars == <<queueVars, started, stop, counters, workerVars, callers>>

WorkerPCs == {"new", "open", "failing", "unopened", "get", "decide", "insert",
              "committed", "rolledback", "check", "dead"}
ProducerPCs == {"idle", "start", "mark", "spawn", "put", "count"}
CloserPCs == {"idle", "set", "join", "clear", "done"}
FlusherPCs == {"idle", "wait", "empty", "late", "done", "timeout"}

Full == QueueMax > 0 /\ Len(q) >= QueueMax
InCall == {p \in Producers : producer[p] # "idle"}
At(p, from, to) == producer[p] = from /\ producer' = [producer EXCEPT ![p] = to]

Init ==
    /\ q = <<>> /\ puts = 0
    /\ started = FALSE /\ stop = FALSE
    /\ enqueued = 0 /\ dropped = 0 /\ written = 0 /\ failed = 0
    /\ worker = "new" /\ batch = <<>> /\ tx = 0 /\ due = FALSE /\ seen = 0 /\ db = <<>>
    /\ producer = [p \in Producers |-> "idle"]
    /\ closer = "idle" /\ flusher = "idle" /\ target = 0

-----------------------------------------------------------------------------
(* enqueue(), which starts the worker on first use                         *)

EnqueueCall(p) ==
    /\ puts + dropped + Cardinality(InCall) < MaxCalls
    /\ At(p, "idle", IF started THEN "put" ELSE "start")
    /\ UNCHANGED <<queueVars, started, stop, counters, workerVars, closer, flusher, target>>

StartCheck(p) ==
    /\ At(p, "start", IF started THEN "put" ELSE "mark")
    /\ UNCHANGED <<queueVars, started, stop, counters, workerVars, closer, flusher, target>>

StartMark(p) ==
    /\ At(p, "mark", "spawn")
    /\ started' = TRUE
    /\ UNCHANGED <<queueVars, stop, counters, workerVars, closer, flusher, target>>

\* Thread.start() raises RuntimeError on a thread that was started before:
\* the call ends without a put and leaves _started set.
StartSpawn(p) ==
    /\ At(p, "spawn", IF worker = "new" THEN "put" ELSE "idle")
    /\ worker' = IF worker = "new" THEN "open" ELSE worker
    /\ UNCHANGED <<queueVars, started, stop, counters, batch, tx, due, seen, db,
                   closer, flusher, target>>

\* put_nowait() or put(): the blocking put waits for room.
Put(p, item) ==
    /\ ~Full
    /\ At(p, "put", "count")
    /\ q' = Append(q, item)
    /\ puts' = puts + 1
    /\ UNCHANGED <<started, stop, counters, workerVars, closer, flusher, target>>

Drop(p) ==
    /\ DropWhenFull /\ Full
    /\ At(p, "put", "idle")
    /\ dropped' = dropped + 1
    /\ UNCHANGED <<queueVars, started, stop, enqueued, written, failed, workerVars,
                   closer, flusher, target>>

Count(p) ==
    /\ At(p, "count", "idle")
    /\ enqueued' = enqueued + 1
    /\ UNCHANGED <<queueVars, started, stop, dropped, written, failed, workerVars,
                   closer, flusher, target>>

Enqueue(p) ==
    \/ EnqueueCall(p) \/ StartCheck(p) \/ StartMark(p) \/ StartSpawn(p)
    \/ Put(p, puts + 1) \/ Drop(p) \/ Count(p)

-----------------------------------------------------------------------------
(* _run() and _flush_batch(), the worker                                   *)

Open ==
    /\ worker = "open"
    /\ worker' = "get"
    /\ UNCHANGED <<queueVars, started, stop, counters, batch, tx, due, seen, db, callers>>

\* ExchangeDB() raised: "dropped += qsize()" reads dropped, then the queue.
OpenFails ==
    /\ worker = "open"
    /\ worker' = "failing"
    /\ seen' = dropped
    /\ UNCHANGED <<queueVars, started, stop, counters, batch, tx, due, db, callers>>

CountUnopened ==
    /\ worker = "failing"
    /\ worker' = "unopened"
    /\ dropped' = seen + Len(q)
    /\ UNCHANGED <<queueVars, started, stop, enqueued, written, failed,
                   batch, tx, due, seen, db, callers>>

\* The get() waits until the flush interval ends, so an Empty means it has.
\* An item may come before or after that; last_flush moves only on a flush.
GetItem ==
    /\ worker = "get" /\ q # <<>>
    /\ worker' = "decide"
    /\ batch' = Append(batch, Head(q))
    /\ q' = Tail(q)
    /\ due' \in {due, TRUE}
    /\ UNCHANGED <<puts, started, stop, counters, tx, seen, db, callers>>

GetEmpty ==
    /\ worker = "get" /\ q = <<>>
    /\ worker' = "decide"
    /\ due' = TRUE
    /\ UNCHANGED <<queueVars, started, stop, counters, batch, tx, seen, db, callers>>

\* Fault: a batch is written only when it is full or at shutdown.
DecideWithoutInterval ==
    /\ worker = "decide"
    /\ worker' = IF batch # <<>> /\ (Len(batch) >= BatchSize \/ stop)
                 THEN "insert" ELSE "check"
    /\ UNCHANGED <<queueVars, started, stop, counters, batch, tx, due, seen, db, callers>>

Decide ==
    /\ worker = "decide"
    /\ worker' = IF batch # <<>> /\ (Len(batch) >= BatchSize \/ due \/ stop)
                 THEN "insert" ELSE "check"
    /\ UNCHANGED <<queueVars, started, stop, counters, batch, tx, due, seen, db, callers>>

InsertRow ==
    /\ worker = "insert" /\ tx < Len(batch)
    /\ tx' = tx + 1
    /\ UNCHANGED <<queueVars, started, stop, counters, worker, batch, due, seen, db, callers>>

Commit ==
    /\ worker = "insert" /\ tx = Len(batch)
    /\ worker' = "committed"
    /\ db' = db \o batch
    /\ tx' = 0
    /\ UNCHANGED <<queueVars, started, stop, counters, batch, due, seen, callers>>

\* Fault: without BEGIN the rows inserted so far stay.
RollbackKeepsRows ==
    /\ worker = "insert"
    /\ worker' = "rolledback"
    /\ tx' = 0
    /\ db' = db \o SubSeq(batch, 1, tx)
    /\ UNCHANGED <<queueVars, started, stop, counters, batch, due, seen, callers>>

\* Fault: the transaction is not ended.
RollbackLeavesOpen ==
    /\ worker = "insert"
    /\ worker' = "rolledback"
    /\ UNCHANGED <<queueVars, started, stop, counters, batch, tx, due, seen, db, callers>>

\* BEGIN, an insert or the COMMIT raised.
Rollback ==
    /\ worker = "insert"
    /\ worker' = "rolledback"
    /\ tx' = 0
    /\ UNCHANGED <<queueVars, started, stop, counters, batch, due, seen, db, callers>>

\* Fault: an unwritten batch is not counted.
AccountForgetsFailures ==
    /\ worker \in {"committed", "rolledback"}
    /\ written' = written + IF worker = "committed" THEN Len(batch) ELSE 0
    /\ batch' = <<>> /\ due' = FALSE /\ worker' = "check"
    /\ UNCHANGED <<queueVars, started, stop, enqueued, dropped, failed, tx, seen, db, callers>>

\* Fault: the batch is not emptied.
AccountKeepsBatch ==
    /\ worker \in {"committed", "rolledback"}
    /\ written' = written + IF worker = "committed" THEN Len(batch) ELSE 0
    /\ failed' = failed + IF worker = "rolledback" THEN Len(batch) ELSE 0
    /\ due' = FALSE /\ worker' = "check"
    /\ UNCHANGED <<queueVars, started, stop, enqueued, dropped, batch, tx, seen, db, callers>>

Account ==
    /\ worker \in {"committed", "rolledback"}
    /\ written' = written + IF worker = "committed" THEN Len(batch) ELSE 0
    /\ failed' = failed + IF worker = "rolledback" THEN Len(batch) ELSE 0
    /\ batch' = <<>>
    /\ due' = FALSE
    /\ worker' = "check"
    /\ UNCHANGED <<queueVars, started, stop, enqueued, dropped, tx, seen, db, callers>>

\* Fault: the batch in hand is forgotten.
ExitForgetsBatch ==
    /\ worker = "check"
    /\ worker' = IF stop /\ q = <<>> THEN "dead" ELSE "get"
    /\ UNCHANGED <<queueVars, started, stop, counters, batch, tx, due, seen, db, callers>>

\* Fault: the queue is forgotten.
ExitForgetsQueue ==
    /\ worker = "check"
    /\ worker' = IF stop /\ batch = <<>> THEN "dead" ELSE "get"
    /\ UNCHANGED <<queueVars, started, stop, counters, batch, tx, due, seen, db, callers>>

ExitCheck ==
    /\ worker = "check"
    /\ worker' = IF stop /\ q = <<>> /\ batch = <<>> THEN "dead" ELSE "get"
    /\ UNCHANGED <<queueVars, started, stop, counters, batch, tx, due, seen, db, callers>>

Worker ==
    \/ Open \/ OpenFails \/ CountUnopened \/ GetItem \/ GetEmpty \/ Decide
    \/ InsertRow \/ Commit \/ Rollback \/ Account \/ ExitCheck

-----------------------------------------------------------------------------
(* close()                                                                 *)

CloseCall ==
    /\ closer \in {"idle", "done"}
    /\ closer' = IF started THEN "set" ELSE "done"
    /\ UNCHANGED <<queueVars, started, stop, counters, workerVars, producer, flusher, target>>

CloseSet ==
    /\ closer = "set" /\ closer' = "join"
    /\ stop' = TRUE
    /\ UNCHANGED <<queueVars, started, counters, workerVars, producer, flusher, target>>

\* join() returns when the worker has ended, after its five seconds whatever
\* the worker does, or with a swallowed RuntimeError if it never started.
CloseJoin ==
    /\ closer = "join" /\ closer' = "clear"
    /\ UNCHANGED <<queueVars, started, stop, counters, workerVars, producer, flusher, target>>

CloseClear ==
    /\ closer = "clear" /\ closer' = "done"
    /\ started' = FALSE
    /\ UNCHANGED <<queueVars, stop, counters, workerVars, producer, flusher, target>>

Close == CloseCall \/ CloseSet \/ CloseJoin \/ CloseClear

-----------------------------------------------------------------------------
(* flush()                                                                 *)

FlushCall ==
    /\ flusher \in {"idle", "done", "timeout"} /\ flusher' = "wait"
    /\ target' = enqueued
    /\ UNCHANGED <<queueVars, started, stop, counters, workerVars, producer, closer>>

\* The loop condition: the queue first and, only if it is empty, the counters.
FlushLooks ==
    /\ flusher = "wait"
    /\ flusher' = IF q = <<>> THEN "empty" ELSE "late"
    /\ UNCHANGED <<queueVars, started, stop, counters, workerVars, producer, closer, target>>

\* Fault: an empty queue is taken for an idle worker.
FlushTrustsQueue ==
    /\ flusher = "empty" /\ flusher' = "done"
    /\ UNCHANGED <<queueVars, started, stop, counters, workerVars, producer, closer, target>>

FlushCompares ==
    /\ flusher = "empty"
    /\ flusher' = IF written + failed < enqueued THEN "late" ELSE "done"
    /\ UNCHANGED <<queueVars, started, stop, counters, workerVars, producer, closer, target>>

FlushDeadline ==
    /\ flusher = "late" /\ flusher' \in {"wait", "timeout"}
    /\ UNCHANGED <<queueVars, started, stop, counters, workerVars, producer, closer, target>>

Flush == FlushCall \/ FlushLooks \/ FlushCompares \/ FlushDeadline

-----------------------------------------------------------------------------
Next == (\E p \in Producers : Enqueue(p)) \/ Worker \/ Close \/ Flush

Spec == Init /\ [][Next]_vars

\* The worker and a call in progress are running threads: a step they can
\* take, they take.  Nothing obliges a program to enqueue, flush or close.
FairSpec ==
    /\ Spec
    /\ WF_vars(Worker)
    /\ \A p \in Producers : WF_vars(Enqueue(p) /\ ~EnqueueCall(p))
    /\ WF_vars(Close /\ ~CloseCall)

-----------------------------------------------------------------------------
(* Properties                                                              *)

\* The variables range over what the code stores in them.
TypeOK ==
    /\ q \in Seq(Nat) /\ batch \in Seq(Nat) /\ db \in Seq(Nat)
    /\ started \in BOOLEAN /\ stop \in BOOLEAN /\ due \in BOOLEAN
    /\ enqueued \in Nat /\ dropped \in Nat /\ written \in Nat /\ failed \in Nat
    /\ puts \in Nat /\ target \in Nat /\ seen \in Nat /\ tx \in 0..Len(batch)
    /\ worker \in WorkerPCs /\ producer \in [Producers -> ProducerPCs]
    /\ closer \in CloserPCs /\ flusher \in FlusherPCs

\* What is decided about: counted, or committed and about to be counted.
Settled == written + failed + (IF worker = "committed" THEN Len(batch) ELSE 0)
Pending == IF worker = "committed" THEN q ELSE batch \o q

\* _run() loses no accepted exchange between the queue, its local batch and
\* the counters, and hands them on in the order of their put: what is pending
\* is exactly what was accepted after the settled ones.
Conservation == Pending = [i \in 1..(puts - Settled) |-> Settled + i]

\* _flush_batch() writes an exchange at most once, in the order of acceptance,
\* and never one that is still pending, whatever fails in between.
OnceInOrder ==
    /\ \A i \in DOMAIN db : db[i] \in 1..Settled
    /\ \A i, j \in DOMAIN db : i < j => db[i] < db[j]

\* _run() counts as written exactly what a transaction made durable.
WrittenIsDurable ==
    Len(db) = written + (IF worker = "committed" THEN Len(batch) ELSE 0)

\* flush() that returns before its deadline has waited for the exchanges whose
\* enqueue() had been counted when it was called, also for those the worker
\* had already taken off the queue.
FlushSound == flusher = "done" => written + failed >= target

\* _run() leaves its loop only when close() asked for it and everything
\* accepted up to that moment is settled.
ExitsDrained ==
    [][worker = "check" /\ worker' = "dead" => stop /\ Settled = puts]_vars

\* The buffered writer implements the log it stands for: batching, threads,
\* rollbacks and shutdown never reorder, duplicate or split what is written.
Log == INSTANCE ExchangeLog WITH accepted <- puts, settled <- Settled, log <- db
ImplementsLog == Log!Spec

Looping == worker \in {"get", "decide", "insert", "committed", "rolledback", "check"}

\* While _run() is looping every accepted exchange is eventually settled: also
\* the last one, when no further enqueue() fills its batch, and also when
\* close() intervenes.
EventuallySettled ==
    \A n \in 1..MaxCalls : (Looping /\ puts >= n) ~> Settled >= n
=============================================================================
