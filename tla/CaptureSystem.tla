---------------------------- MODULE CaptureSystem ----------------------------
(***************************************************************************)
(* The proxy process: motim/proxy/addon.py puts together a CapturePipeline,*)
(* the Store its worker records in and the BufferedExchangeWriter it hands *)
(* exchanges to.  The pipeline is the module this one extends; the writer  *)
(* is an instance of ExchangeWriter whose one producer is the pipeline's   *)
(* worker and whose items are the pipeline's events; of the store only the *)
(* dirty mark of one spec and the flushes of it are kept (SpecStore has the*)
(* rest).                                                                  *)
(*                                                                         *)
(* The process ends when mitmproxy's event loop returns: the interpreter   *)
(* then runs the atexit handlers in reverse order of their registration,   *)
(* the writer's close() before the store's, while the daemon threads go    *)
(* on.  Nobody closes the pipeline.  A SIGKILL (`motim proxy stop` sends   *)
(* one half a second after SIGTERM) needs no step of its own: it leaves    *)
(* the files as they are in the state it strikes in, and what is to hold   *)
(* of them is an invariant.                                                *)
(***************************************************************************)
EXTENDS CapturePipeline

CONSTANTS
    WriterQueueMax,   \* capture.exchange_db_queue_max
    WriterBatchSize,  \* capture.exchange_db_batch_size
    Flushers          \* threads that flush the store: "main", at exit, and its loop

ASSUME SystemAssumption ==
    WriterQueueMax \in Nat /\ WriterBatchSize \in Nat /\ "main" \in Flushers

VARIABLES
    wq, wputs, wstarted, wstop, wenqueued, wdropped, wwritten, wfailed,
    wworker, wbatch, wtx, wdue, wseen, wdb, wproducer, wcloser, wflusher, wtarget,
    dirty,         \* the spec's name is in Store._dirty
    copy,          \* observations in the copy each flush() holds, None without
    saved,         \* observations in the spec file
    raced,         \* history: an update() came while a flush() held a copy, and
                   \* no flush() has written the whole spec alone since
    phase,         \* of the main thread: "running", then the atexit handlers
    exit,          \* history: how the process ended
    handed,        \* history: exchanges the writer had when the exit began
    joined         \* history: the writer's close() saw its worker end

Pipe == "pipeline"
None == -1

W == INSTANCE ExchangeWriter WITH
        Producers <- {Pipe}, QueueMax <- WriterQueueMax, BatchSize <- WriterBatchSize,
        DropWhenFull <- TRUE, q <- wq, puts <- wputs, started <- wstarted, stop <- wstop,
        enqueued <- wenqueued, dropped <- wdropped, written <- wwritten, failed <- wfailed,
        worker <- wworker, batch <- wbatch, tx <- wtx, due <- wdue, seen <- wseen, db <- wdb,
        producer <- wproducer, closer <- wcloser, flusher <- wflusher, target <- wtarget

pipelineVars == vars
writerVars ==
    <<wq, wputs, wstarted, wstop, wenqueued, wdropped, wwritten, wfailed, wworker, wbatch,
      wtx, wdue, wseen, wdb, wproducer, wcloser, wflusher, wtarget>>
storeVars == <<dirty, copy, saved, raced>>
exitVars == <<phase, exit, handed, joined>>
sysVars == <<pipelineVars, writerVars, storeVars, exitVars>>

SysInit ==
    /\ Init /\ W!Init
    /\ dirty = FALSE /\ copy = [f \in Flushers |-> None] /\ saved = 0 /\ raced = FALSE
    /\ phase = "running" /\ exit = "none" /\ handed = 0 /\ joined = FALSE

-----------------------------------------------------------------------------
(* The hooks run in the main thread, the event loop's.                     *)
Hook ==
    /\ phase = "running"
    /\ \E p \in Producers : Enqueue(p)
    /\ UNCHANGED <<writerVars, storeVars, exitVars>>

(* The pipeline's worker.                                                  *)
Work ==
    /\ \/ GetEvent \/ GetTimesOut \/ AfterTimeout \/ Parse
       \/ (Raises /\ worker # "forward")
       \/ CountError \/ CountProcessed \/ ExitCheck
    /\ UNCHANGED <<writerVars, storeVars, exitVars>>

Record ==
    /\ Update
    /\ dirty' = TRUE
    /\ raced' = (raced \/ \E f \in Flushers : copy[f] # None)
    /\ UNCHANGED <<writerVars, copy, saved, exitVars>>

\* exchange_writer.enqueue(), a call of several steps in the same thread.
ForwardSteps ==
    /\ worker = "forward"
    /\ \/ W!EnqueueCall(Pipe) \/ W!StartCheck(Pipe) \/ W!StartMark(Pipe)
       \/ (wworker = "new" /\ W!StartSpawn(Pipe))
       \/ W!Put(Pipe, cur)
    /\ UNCHANGED <<pipelineVars, storeVars, exitVars>>

ForwardReturns ==
    /\ Forward
    /\ W!Count(Pipe) \/ W!Drop(Pipe)
    /\ UNCHANGED <<storeVars, exitVars>>

\* Thread.start() raises for a worker that was started before and closed, and
\* (from Python 3.12 on) for any thread once the interpreter is exiting.
ForwardRaises ==
    /\ Raises /\ worker = "forward"
    /\ \/ wworker # "new" /\ W!StartSpawn(Pipe)
       \/ /\ phase # "running" /\ wproducer[Pipe] = "spawn"
          /\ wproducer' = [wproducer EXCEPT ![Pipe] = "idle"]
          /\ UNCHANGED <<wq, wputs, wstarted, wstop, wenqueued, wdropped, wwritten, wfailed,
                         wworker, wbatch, wtx, wdue, wseen, wdb, wcloser, wflusher, wtarget>>
    /\ UNCHANGED <<storeVars, exitVars>>

Write ==
    /\ W!Worker
    /\ UNCHANGED <<pipelineVars, storeVars, exitVars>>

-----------------------------------------------------------------------------
(* Store.flush(), from the flush loop and, at exit, from close()           *)

FlushCopies(f) ==
    /\ f # "main" \/ phase = "saving"
    /\ dirty /\ copy[f] = None
    /\ copy' = [copy EXCEPT ![f] = Len(recorded)]
    /\ UNCHANGED <<pipelineVars, writerVars, dirty, saved, raced, exitVars>>

\* Fault: a spec that is not in the cache is written all the same.
FlushEndsWithoutCopy(f, ok) ==
    /\ f # "main"
    /\ copy' = [copy EXCEPT ![f] = None]
    /\ saved' = IF ok THEN copy[f] ELSE saved
    /\ dirty' = ~ok
    /\ UNCHANGED <<pipelineVars, writerVars, raced, exitVars>>

WholeCopyAlone(f) ==
    copy[f] = Len(recorded) /\ \A g \in Flushers \ {f} : copy[g] = None

FlushEnds(f, ok) ==
    /\ copy[f] # None
    /\ copy' = [copy EXCEPT ![f] = None]
    /\ saved' = IF ok THEN copy[f] ELSE saved
    /\ dirty' = ~ok
    /\ phase' = IF f = "main" THEN "saved" ELSE phase
    /\ exit' = IF f = "main" /\ ~ok THEN "unsaved" ELSE exit
    /\ raced' = (raced /\ ~(ok /\ WholeCopyAlone(f)))
    /\ UNCHANGED <<pipelineVars, writerVars, handed, joined>>

FlushSpecs == \E f \in Flushers : FlushCopies(f) \/ \E ok \in BOOLEAN : FlushEnds(f, ok)

-----------------------------------------------------------------------------
(* The end of the process                                                  *)

\* mitmproxy has stopped its event loop between two hooks.
ExitBegins ==
    /\ phase = "running" /\ phase' = "closing"
    /\ \A p \in Producers : producer[p] = "idle"
    /\ handed' = wputs
    /\ UNCHANGED <<pipelineVars, writerVars, storeVars, exit, joined>>

\* atexit: BufferedExchangeWriter.close().
WriterCloses ==
    /\ phase \in {"closing", "saved"}
    /\ (W!CloseCall /\ wcloser = "idle") \/ W!CloseSet \/ W!CloseJoin \/ W!CloseClear
    /\ joined' = (joined \/ (wcloser = "join" /\ wworker = "dead"))
    /\ UNCHANGED <<pipelineVars, storeVars, phase, exit, handed>>

\* Fault: the store is closed first, as if it had been registered last.
StoreClosesFirst ==
    /\ phase = "closing" /\ wcloser = "idle"
    /\ phase' = "saving"
    /\ UNCHANGED <<pipelineVars, writerVars, storeVars, exit, handed, joined>>

\* atexit: Store.close(), whose flush() writes the spec if it is dirty.
StoreCloses ==
    /\ phase = "closing" /\ wcloser = "done"
    /\ phase' = "saving"
    /\ UNCHANGED <<pipelineVars, writerVars, storeVars, exit, handed, joined>>

NothingToSave ==
    /\ phase = "saving" /\ ~dirty /\ copy["main"] = None
    /\ phase' = "saved"
    /\ UNCHANGED <<pipelineVars, writerVars, storeVars, exit, handed, joined>>

\* The handlers have run; the daemon threads go with the interpreter.
Exits ==
    /\ phase = "saved" /\ wcloser = "done"
    /\ phase' = "gone" /\ exit' = IF exit = "none" THEN "orderly" ELSE exit
    /\ UNCHANGED <<pipelineVars, writerVars, storeVars, handed, joined>>

EndProcess == ExitBegins \/ WriterCloses \/ StoreCloses \/ NothingToSave \/ Exits

SysNext ==
    /\ phase # "gone"
    /\ \/ Hook \/ Work \/ Record \/ ForwardSteps \/ ForwardReturns \/ ForwardRaises
       \/ Write \/ FlushSpecs \/ EndProcess

SysSpec == SysInit /\ [][SysNext]_sysVars

\* The pipeline's worker and the writer's run.  Nothing obliges a browser to
\* go on, the flush loop to wake up or the proxy to be stopped.
Running(A) == phase # "gone" /\ A
FairSysSpec ==
    /\ SysSpec
    /\ WF_sysVars(Running(Work \/ Record \/ ForwardSteps \/ ForwardReturns \/ ForwardRaises))
    /\ WF_sysVars(Running(Write))

-----------------------------------------------------------------------------
(* Properties                                                              *)

Elements(s) == {s[i] : i \in DOMAIN s}

\* The added variables range over what they stand for; a file never holds
\* more than was recorded.
SysTypeOK ==
    /\ copy \in [Flushers -> {None} \cup Nat] /\ saved \in Nat
    /\ dirty \in BOOLEAN /\ raced \in BOOLEAN /\ joined \in BOOLEAN
    /\ phase \in {"running", "closing", "saving", "saved", "gone"}
    /\ exit \in {"none", "orderly", "unsaved"} /\ handed \in Nat
    /\ saved <= Len(recorded) /\ \A f \in Flushers : copy[f] <= Len(recorded)

\* From the hook to the database: what is committed are captured events, each
\* once and in the order of their capture, and each was recorded in the spec
\* store before, whatever raises, drops, rolls back or exits on the way.
EndToEnd == Ascending(wdb) /\ (WriteSpecs => Elements(wdb) \subseteq Elements(recorded))

\* The event in the pipeline worker's hands that the writer does not have yet.
InHand ==
    IF \/ worker \in {"parse", "update"}
       \/ worker = "forward" /\ wproducer[Pipe] # "count"
    THEN 1 ELSE 0

\* The counters of the pipeline and of the writer together account for every
\* accepted event: it is waiting in one of them, or it is committed, or one of
\* errors, dropped and failed_items has counted it.
EveryCaptureCounted ==
    wworker \notin {"failing", "unopened"} =>
        puts = Len(q) + InHand + errors + (IF worker = "failed" THEN 1 ELSE 0)
               + wdropped + Len(W!Pending) + W!Settled

\* After an orderly exit whose close() saw the writer's worker end, every
\* committed exchange has its observation in the spec file, because the store
\* is closed after the writer, unless an update() raced a flush since the spec
\* was last written whole.
RowsHaveSpecs ==
    (exit = "orderly" /\ joined /\ WriteSpecs /\ ~raced) =>
        \A i \in DOMAIN wdb : \E j \in 1..saved : recorded[j] = wdb[i]

\* After an exit whose close() saw the writer's worker end, what the writer
\* had when the exit began is committed or counted as failed.
HandedIsSettled ==
    (exit \in {"orderly", "unsaved"} /\ joined) => W!Settled >= handed

\* While the proxy runs and its database opens, every captured event is
\* eventually committed or counted as an error, dropped or failed.
EventuallyStored ==
    \A n \in 1..MaxCalls :
        puts >= n ~> \/ W!Settled + errors + wdropped >= n
                     \/ phase # "running" \/ wworker \in {"failing", "unopened"}
=============================================================================
