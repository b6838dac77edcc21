--------------------------- MODULE CapturePipeline ---------------------------
(***************************************************************************)
(* motim/proxy/pipeline.py: CapturePipeline.  The proxy's hooks put what   *)
(* they capture on a bounded queue; one daemon worker takes the events one *)
(* at a time, records each in the spec store and then hands it to the      *)
(* exchange writer.  Either of the two may raise, which ends the event but *)
(* not the worker.                                                         *)
(*                                                                         *)
(* An event is the ordinal of its put.  Of redaction and parsing only that *)
(* they may raise is kept.  Left out: the kinds of events, profiling.      *)
(***************************************************************************)
EXTENDS Integers, Sequences, FiniteSets

CONSTANTS
    Producers,     \* threads that run hooks; mitmproxy has exactly one
    QueueMax,      \* queue_max; 0 is Python's "unbounded"
    DropWhenFull,  \* drop_when_full
    WriteSpecs,    \* write_specs
    HasWriter,     \* exchange_writer is not None
    MaxCalls       \* bound on accepted plus dropped calls, for model checking

ASSUME PipelineAssumption ==
    /\ QueueMax \in Nat
    /\ DropWhenFull \in BOOLEAN
    /\ WriteSpecs \in BOOLEAN
    /\ HasWriter \in BOOLEAN
    /\ MaxCalls \in Nat

VARIABLES
    q,             \* _q
    started,       \* _started
    stop,          \* _stop
    enqueued, dropped, processed, errors,   \* the accounting counters
    worker,        \* where the worker thread is in _run
    cur,           \* the event in its hands, 0 for none
    recorded,      \* history: events recorded by store.update(), in order
    forwarded,     \* history: events exchange_writer.enqueue() returned for
    producer,      \* where each producer is in enqueue()/start()
    closer,        \* where the caller of close() is
    puts           \* history: number of events ever put on the queue

queueVars == <<q, puts>>
counters == <<enqueued, dropped, processed, errors>>
sinks == <<recorded, forwarded>>
vars == <<queueVars, started, stop, counters, worker, cur, sinks, producer, closer>>

WorkerPCs == {"new", "get", "empty", "parse", "update", "forward", "failed", "done",
              "check", "dead"}
ProducerPCs == {"idle", "start", "mark", "spawn", "redact", "put", "count"}
CloserPCs == {"idle", "set", "join", "clear", "done"}

Full == QueueMax > 0 /\ Len(q) >= QueueMax
InCall == {p \in Producers : producer[p] # "idle"}
At(p, from, to) == producer[p] = from /\ producer' = [producer EXCEPT ![p] = to]
Go(from, to) == worker = from /\ worker' = to

Init ==
    /\ q = <<>> /\ puts = 0
    /\ started = FALSE /\ stop = FALSE
    /\ enqueued = 0 /\ dropped = 0 /\ processed = 0 /\ errors = 0
    /\ worker = "new" /\ cur = 0 /\ recorded = <<>> /\ forwarded = <<>>
    /\ producer = [p \in Producers |-> "idle"]
    /\ closer = "idle"

-----------------------------------------------------------------------------
(* enqueue(), which starts the worker on first use                         *)

EnqueueCall(p) ==
    /\ puts + dropped + Cardinality(InCall) < MaxCalls
    /\ At(p, "idle", IF started THEN "redact" ELSE "start")
    /\ UNCHANGED <<queueVars, started, stop, counters, worker, cur, sinks, closer>>

StartCheck(p) ==
    /\ At(p, "start", IF started THEN "redact" ELSE "mark")
    /\ UNCHANGED <<queueVars, started, stop, counters, worker, cur, sinks, closer>>

StartMark(p) ==
    /\ At(p, "mark", "spawn")
    /\ started' = TRUE
    /\ UNCHANGED <<queueVars, stop, counters, worker, cur, sinks, closer>>

\* A thread that was started before raises RuntimeError out of the hook.
StartSpawn(p) ==
    /\ At(p, "spawn", IF worker = "new" THEN "redact" ELSE "idle")
    /\ worker' = IF worker = "new" THEN "get" ELSE worker
    /\ UNCHANGED <<queueVars, started, stop, counters, cur, sinks, closer>>

\* redact_flow_payload(), which may raise out of the hook.
Redact(p) ==
    /\ At(p, "redact", "put") \/ At(p, "redact", "idle")
    /\ UNCHANGED <<queueVars, started, stop, counters, worker, cur, sinks, closer>>

\* Fault: the newest event comes first.
PutInFront(p) ==
    /\ ~Full
    /\ At(p, "put", "count")
    /\ q' = <<puts + 1>> \o q
    /\ puts' = puts + 1
    /\ UNCHANGED <<started, stop, counters, worker, cur, sinks, closer>>

\* put_nowait() or put(), which waits for room.
Put(p) ==
    /\ ~Full
    /\ At(p, "put", "count")
    /\ q' = Append(q, puts + 1)
    /\ puts' = puts + 1
    /\ UNCHANGED <<started, stop, counters, worker, cur, sinks, closer>>

Drop(p) ==
    /\ DropWhenFull /\ Full
    /\ At(p, "put", "idle")
    /\ dropped' = dropped + 1
    /\ UNCHANGED <<queueVars, started, stop, enqueued, processed, errors, worker, cur,
                   sinks, closer>>

Count(p) ==
    /\ At(p, "count", "idle")
    /\ enqueued' = enqueued + 1
    /\ UNCHANGED <<queueVars, started, stop, dropped, processed, errors, worker, cur,
                   sinks, closer>>

Enqueue(p) ==
    \/ EnqueueCall(p) \/ StartCheck(p) \/ StartMark(p) \/ StartSpawn(p)
    \/ Redact(p) \/ Put(p) \/ Drop(p) \/ Count(p)

-----------------------------------------------------------------------------
(* _run(), _process_http() and _process_ws(), the worker                   *)

GetEvent ==
    /\ Go("get", "parse") /\ q # <<>>
    /\ cur' = Head(q)
    /\ q' = Tail(q)
    /\ UNCHANGED <<puts, started, stop, counters, sinks, producer, closer>>

GetTimesOut ==
    /\ Go("get", "empty") /\ q = <<>>
    /\ UNCHANGED <<queueVars, started, stop, counters, cur, sinks, producer, closer>>

\* queue.Empty: the stop flag decides; the queue is not looked at again.
AfterTimeout ==
    /\ Go("empty", IF stop THEN "dead" ELSE "get")
    /\ UNCHANGED <<queueVars, started, stop, counters, cur, sinks, producer, closer>>

AfterUpdate == IF HasWriter THEN "forward" ELSE "done"

Parse ==
    /\ Go("parse", IF WriteSpecs THEN "update" ELSE AfterUpdate)
    /\ UNCHANGED <<queueVars, started, stop, counters, cur, sinks, producer, closer>>

Update ==
    /\ Go("update", AfterUpdate)
    /\ recorded' = Append(recorded, cur)
    /\ UNCHANGED <<queueVars, started, stop, counters, cur, forwarded, producer, closer>>

\* The writer takes the event or drops it; the result is not looked at.
Forward ==
    /\ Go("forward", "done")
    /\ forwarded' = Append(forwarded, cur)
    /\ UNCHANGED <<queueVars, started, stop, counters, cur, recorded, producer, closer>>

\* Fault: an exception from the store does not end the event.
RaisesSwallowed ==
    /\ \/ Go("parse", "failed") \/ Go("update", AfterUpdate) \/ Go("forward", "failed")
    /\ UNCHANGED <<queueVars, started, stop, counters, cur, sinks, producer, closer>>

\* Fault: an exception ends the thread.
RaisesFatally ==
    /\ worker \in {"parse", "update", "forward"} /\ worker' = "dead"
    /\ UNCHANGED <<queueVars, started, stop, counters, cur, sinks, producer, closer>>

\* Parsing, store.update() or exchange_writer.enqueue() raises.
Raises ==
    /\ \/ Go("parse", "failed") \/ Go("update", "failed") \/ Go("forward", "failed")
    /\ UNCHANGED <<queueVars, started, stop, counters, cur, sinks, producer, closer>>

CountError ==
    /\ Go("failed", "done")
    /\ errors' = errors + 1
    /\ UNCHANGED <<queueVars, started, stop, enqueued, dropped, processed, cur, sinks,
                   producer, closer>>

\* Fault: only an event without an exception counts as processed.
CountProcessedOnSuccess ==
    /\ Go("done", "check")
    /\ processed' = processed + IF cur \in {forwarded[i] : i \in DOMAIN forwarded} THEN 1 ELSE 0
    /\ cur' = 0
    /\ UNCHANGED <<queueVars, started, stop, enqueued, dropped, errors, sinks,
                   producer, closer>>

CountProcessed ==
    /\ Go("done", "check")
    /\ processed' = processed + 1
    /\ cur' = 0
    /\ UNCHANGED <<queueVars, started, stop, enqueued, dropped, errors, sinks,
                   producer, closer>>

ExitCheck ==
    /\ Go("check", IF stop /\ q = <<>> THEN "dead" ELSE "get")
    /\ UNCHANGED <<queueVars, started, stop, counters, cur, sinks, producer, closer>>

Worker ==
    \/ GetEvent \/ GetTimesOut \/ AfterTimeout
    \/ Parse \/ Update \/ Forward \/ Raises
    \/ CountError \/ CountProcessed \/ ExitCheck

-----------------------------------------------------------------------------
(* close(), also called stop()                                             *)

CloseCall ==
    /\ closer \in {"idle", "done"}
    /\ closer' = IF started THEN "set" ELSE "done"
    /\ UNCHANGED <<queueVars, started, stop, counters, worker, cur, sinks, producer>>

CloseSet ==
    /\ closer = "set" /\ closer' = "join"
    /\ stop' = TRUE
    /\ UNCHANGED <<queueVars, started, counters, worker, cur, sinks, producer>>

\* join() returns when the worker has ended or after its timeout.
CloseJoin ==
    /\ closer = "join" /\ closer' = "clear"
    /\ UNCHANGED <<queueVars, started, stop, counters, worker, cur, sinks, producer>>

CloseClear ==
    /\ closer = "clear" /\ closer' = "done"
    /\ started' = FALSE
    /\ UNCHANGED <<queueVars, stop, counters, worker, cur, sinks, producer>>

Close == CloseCall \/ CloseSet \/ CloseJoin \/ CloseClear

-----------------------------------------------------------------------------
Next == (\E p \in Producers : Enqueue(p)) \/ Worker \/ Close

Spec == Init /\ [][Next]_vars

\* The worker and a call in progress are running threads.  Nothing obliges a
\* browser to go on or the pipeline to be closed.
FairSpec ==
    /\ Spec
    /\ WF_vars(Worker)
    /\ \A p \in Producers : WF_vars(Enqueue(p) /\ ~EnqueueCall(p))
    /\ WF_vars(Close /\ ~CloseCall)

-----------------------------------------------------------------------------
(* Properties                                                              *)

\* The variables range over what the code stores in them, and the worker has
\* an event in its hands exactly while it processes one.
TypeOK ==
    /\ q \in Seq(Nat) /\ recorded \in Seq(Nat) /\ forwarded \in Seq(Nat)
    /\ started \in BOOLEAN /\ stop \in BOOLEAN
    /\ enqueued \in Nat /\ dropped \in Nat /\ processed \in Nat /\ errors \in Nat
    /\ puts \in Nat /\ cur \in Nat
    /\ worker \in WorkerPCs /\ producer \in [Producers -> ProducerPCs]
    /\ closer \in CloserPCs
    /\ cur # 0 <=> worker \in {"parse", "update", "forward", "failed", "done"}

\* Events whose fate is decided, counted or not.
Decided == processed + (IF worker \in {"failed", "done"} THEN 1 ELSE 0)

\* _run() takes every accepted event exactly once and in order: what is not
\* counted as processed is in the worker's hands or behind it in the queue.
Conservation ==
    (IF cur = 0 THEN <<>> ELSE <<cur>>) \o q
        = [i \in 1..(puts - processed) |-> processed + i]

\* _process_http() and _process_ws() hand an event to the database writer only
\* when the spec store has recorded it, so that no stored exchange lacks its
\* spec; both see the events once and in the order of their capture.
Ascending(s) == \A i, j \in DOMAIN s : i < j => s[i] < s[j]
SpecFirst ==
    /\ Ascending(recorded) /\ Ascending(forwarded)
    /\ WriteSpecs => \A i \in DOMAIN forwarded : \E j \in DOMAIN recorded :
                        recorded[j] = forwarded[i]

\* Where an event ends that nothing stopped.
Sink == IF HasWriter THEN forwarded ELSE recorded

\* stats(): the errors are exactly the processed events that did not get all
\* the way, whatever raised and wherever.
ErrorsExplainGaps ==
    HasWriter \/ WriteSpecs =>
        Len(Sink) + errors + (IF worker = "failed" THEN 1 ELSE 0) = Decided

\* The pipeline implements the same log as the writer behind it, with groups
\* of one: events are passed on or lost one at a time, in order.
Log == INSTANCE ExchangeLog WITH accepted <- puts, settled <- Decided, log <- Sink
ImplementsLog == Log!Spec

Looping == worker \notin {"new", "dead"}

\* While the pipeline is open every captured event is eventually processed,
\* whatever the events before it raised.
EventuallyProcessed ==
    \A n \in 1..MaxCalls : (Looping /\ puts >= n) ~> (processed >= n \/ stop)
=============================================================================
