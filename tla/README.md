# TLA+ models of MOTIM

MOTIM (`src/motim`) is a passive API recorder. A mitmproxy addon captures HTTP
and WebSocket traffic, a background pipeline redacts and parses it, a YAML file
per service collects a spec with samples, and a SQLite database holds the raw
exchanges with tables derived from them. A command line reads both, deletes and
rebuilds. A separate offline part reconciles exported account reads.

This directory models the way of a captured event from the hook to the two
stores, which runs concurrently and has to survive failure; the processes of the
command line that start and stop the proxy; and the reconciliation, a sequential
translation with a contract of its own.

## Inventory

| Component | State | Operations | What is hard | What makes it correct | Modules |
|---|---|---|---|---|---|
| Proxy addon, `proxy/addon.py` | lazily built config, redactor, store, writer, pipeline; counters | hooks `http_connect`, `request`, `response`, `websocket_message` | flows interleave, hosts are looked up anew each time, a hook replaces a response; construction order decides the order of the atexit handlers; daemon threads outlive the event loop; nobody closes the pipeline | what is recorded is a response the hooks let pass, of a host and a path the filter passes; captured events reach both stores or are counted | `ProxyHooks` (decisions), `ProxyHooksProofs`, `CaptureSystem` (composition and exit), `CaptureSystemProofs` |
| Capture pipeline, `proxy/pipeline.py` | bounded queue, stop flag, four counters, worker | `enqueue`, `start`, `close`/`stop`, `_run`, `_process_http`, `_process_ws` | exceptions in any stage, drop or block when full, ending while producers go on | each accepted event processed once and in order, spec before database, errors counted | `CapturePipeline`, `CapturePipelineProofs` |
| Exchange writer, `exchange_writer.py` | bounded queue, local batch, open transaction, counters | `enqueue`, `start`, `flush`, `close`, `_run`, `_flush_batch` | counters and queue read one after the other, rollback in mid-batch, exit conditions, unopened database | accepted exchanges committed once, in order, or counted as failed | `ExchangeWriter`, `ExchangeLog`, `ExchangeWriterProofs` |
| Spec store, `store.py` | cache, dirty set, files, flush thread; per spec samples, endpoints, messages | `load`, `save`, `update`, `delete`, `clear`, `flush`, `close` | dirty marks and copies in different critical sections, two flushers, kills, unreadable files, failing and short writes, fuzzy names; three cuts of one list | nothing recorded is lost but with a file that cannot be read or is cut off, files are snapshots of specs; samples are distinct, bounded and the newest | `SpecStore`, `SpecStoreProofs`, `SpecSamples` (proofs in `ProxyHooksProofs`) |
| Exchange database, `exchange_db.py` | `exchanges`, `headers`, `services_index`, `endpoints_index`, `auth_snapshots` | insertion with indexing, `delete_service`, `clear_all`, `rebuild_derived`, queries | a rebuild is several transactions beside the proxy's inserts; indexing is order dependent | derived tables equal a recount of the raw table | `ExchangeIndex` (queries are not modelled), `ExchangeIndexProofs` |
| Proxy process management, `cli/proxy.py` | PID file | `start`, `stop`, `status`, `trust-cert` | check then act, unlinking another's file, PIDs handed out again, SIGKILL after half a second | one proxy, and the file names it; a stop ends it | `ProxyLifecycle`, `ProxyLifecycleProofs` |
| Reconciliation, `reconcile/` | none beyond a call | parse, validate, adapt, deduplicate, staleness, outcome | conflicts and duplicates in any order, malformed records, unknown schemas, time limits | an answer that depends on the set of exchanges alone, and no record disappears | `ExchangeAdapters`, `AccountRead`, `Reconcile`, `ReconcileProofs` |
| Filters, `proxy/filters.py` | none | `should_capture_with_config` | - | nothing skipped is stored | `ProxyHooks` (as a predicate) |
| Redaction, `redact.py` | compiled patterns | pure rewriting | - | covered by its tests | only that it may raise |
| Configuration, `config.py` | YAML file | load, save | - | - | its values are CONSTANTS |
| Auth views, discovery, diff, normalise, linkfinder, services, other commands | none | pure functions and printing | - | - | not modelled |

How they interact. The hooks run in mitmproxy's one event-loop thread and call
`CapturePipeline.enqueue`. The pipeline's daemon thread calls `Store.update` and
then `BufferedExchangeWriter.enqueue`, both in the same process. The store's
daemon thread writes dirty specs every two seconds; the writer's daemon thread
commits batches. The store and the writer register `close()` with `atexit`; the
handlers run in reverse order of construction, the writer's first. The command
line is another process that shares the database (through SQLite's WAL mode) and
the directory of the specs.

## Modules

### ExchangeLog - what the queues promise

A counter of accepted items, a counter of settled ones and a log. The oldest
items are settled together; a settled group is appended to the log as a whole or
lost as a whole. Both `ExchangeWriter` and `CapturePipeline` implement it (the
latter with groups of one), shown by TLC and, for the writer, proved.

### ExchangeWriter - `motim/exchange_writer.py`

| Code | Model |
|---|---|
| `_q`, `_stop`, `_started`, counters | `q`, `stop`, `started`, `enqueued`, `dropped`, `written`, `failed` |
| the local `batch`, the open transaction, `last_flush` | `batch`, `tx`, `due` |
| committed rows in rowid order | `db` |
| program counters | `worker`, `producer[p]`, `closer`, `flusher` |

Every access to state another thread can see is a step: `enqueue()` tests
`_started`, starts the thread (two producers may race; the second `start()`
raises), puts or drops, counts. `_run()` opens the database or fails, takes an
item or times out, decides, inserts row by row, commits or rolls back, accounts,
and decides whether to end. `flush()` reads the queue and then the counters.
`close()` sets the flag, joins with a timeout and clears `_started`; `stop` is
never lowered, so a closed writer cannot be started again. An item is the ordinal
of its put. The time of the flush interval is `due`, which may become true
at any get and is true after an empty one. `self.dropped += self._q.qsize()` is
two steps, as two threads change `dropped`. `enqueued += 1` and
`dropped += 1` of two producers are one step each: the code calls them "best-effort;
not atomic", and the proxy has one producer.

### SpecStore - `motim/store.py`

A spec is the set of observations in it, an observation a service and the ordinal
of the `update()` that made it. The lock covers single accesses, so `update()` is
`UpdateCall`, `LoadCached`, `LoadSimilar`/`LoadMisses`, `Resolve`, `ReadFile`/`ReadFails`,
`FillCache`, `Save`, and `flush()` is `CopySpec`/`SkipDeleted`, `Replace`/`WriteFails`,
`Clean`/`Restore` for each dirty service. `Contains` gives the substring relation
of names that `load()` and `_resolve_path()` fall back on. `Restart` kills the
process and makes a new store over the same files. `_resolve_path()` with the
`exists()` test after it is one step. The temporary file is not a variable: no
reader looks at it, so only the `os.replace()` shows.

Two failures pass unnoticed in the code. `load()` takes a file that it cannot read or parse for
an empty spec, puts that in the cache, and the next flush writes it over the file: `ReadFails`
may happen at any read. `os.write()` may write less than it is given, and its result is not
looked at: `Replace` leaves any part of the copy on disk. The history variable `lost` collects,
per file and since the process began, what was given up in these two ways, and the properties
hold of everything else. A file that parses to no mapping is left out (`update()` then raises).

### ExchangeIndex - `motim/exchange_db.py`

A step is one transaction. `Put` inserts an exchange and indexes it (`Indexed` is
`_update_indexes_no_commit`), `Delete` and `ClearAll` are the command line's,
`RebuildWipes`, `RebuildReads`, `RebuildBatch`, `RebuildEnds` and `RebuildFails` are
`rebuild_derived()`, whose first batch runs on the snapshot its rows were read
from and whose later ones do not. `Reference` defines what the tables mean by
counting the raw table; it shares nothing with the incremental code. `AfterRows` indexes the
rows of a batch one after the other and is a recursive function on their number;
`ById` is the set of ascending enumerations of the ids, which has one member, and
serves as `ORDER BY`. The headers of a row are looked up when it is indexed, not when it was read
(`Row`), so that an exchange deleted meanwhile is indexed without its auth.

### SpecSamples - what `Store.update()` makes of a spec

Where `SpecStore` has one observation more, `WithSample` has the list: a sample
whose endpoint and body are already there (`_compute_hash()`) is refreshed in its
place; a new one goes to the end with its endpoint's other samples before it, cut
to `MaxPerEndpoint` by a slice and to `MaxTotal` from the front. `LastOf` is Python's
`list[-n:]`, which is the whole list for `n = 0`, so a limit of one sample per
endpoint is no limit. `WithMessage` keeps the last WebSocket messages; their limit,
1000 in the code, is any number from two on. `Select` picks the elements of a list in
their order and is written as a recursive function on its prefixes, which the proofs
can reason about.

### ProxyHooks - `motim/proxy/addon.py`

Flows are mitmproxy's; each goes from a tunnel (`Connect`) over `Request` and
`Answer` to the hook's `Response` and, when it upgrades, to an open WebSocket with
`Frame`s. Every lookup of a host (`Allowed`) may have another outcome than the one
before. `Response` is `RedirectBlocked`, `Filtered`, `Captured` (into the
pipeline's queue), `CapturedAtOnce` (without a pipeline) or `CaptureRaises`. The
worker is `ProcessHttp`, `ProcessWs` and `ProcessRaises` here. Two things
the code does that one might not expect are modelled as they are: the 403 with which
`request()` refuses a request is captured like any answer, since mitmproxy calls
`response()` for it; and `websocket_message()` asks neither the filter nor the
allowlist again and counts nothing. `delivered` is what `SamplesAreAnswers` measures the
samples by: the responses that `response()` found and let pass to the browser, with their request's host
and endpoint. A redirect that is replaced is not among them, nor is its replacement.
A request has one host here: the Host header's name (`pretty_host`), which the
egress check asks about, is taken to be the host that is connected to.

### CapturePipeline - `motim/proxy/pipeline.py`

`enqueue()` as in the writer, with the redaction that may raise out of the hook
before the put; the worker's `GetEvent`, `GetTimesOut`, `AfterTimeout`, `Parse`,
`Update`, `Forward`, `Raises`, `CountError`, `CountProcessed`, `ExitCheck`; and
`close()`. `_process_http` and `_process_ws` have the same two sinks in the same
order and are one path. `WriteSpecs` and `HasWriter` are the configuration's.

### CaptureSystem - the process

Extends `CapturePipeline` and instantiates `ExchangeWriter` with the pipeline's
worker as its one producer, so that the writer's `enqueue()` happens, step by
step, inside the pipeline's `Forward`. Of the store it keeps the dirty mark, the
copy each flush holds and the number of observations in the file, for one
service (`SpecStore` has the rest). `ExitBegins` is the end of mitmproxy's event
loop between two hooks, `WriterCloses` and `StoreCloses` are the atexit handlers in the
order they run, `Exits` is the end of the interpreter and of the daemon
threads. A SIGKILL is no action: it leaves the files as they are in some state, and
what is to hold of them is an invariant. `ForwardRaises` covers `Thread.start()` on a
closed writer and, from Python 3.12 on, during finalization.

### ProxyLifecycle - `motim/cli/proxy.py`

The three commands are processes over `file`, the PID file, and `table`, the
operating system's processes by PID. A look at the file, its reading, a signal, an
unlink, the spawn and the atomic write are a step each. `start` is `Look`, `Read`,
`Probe`, `UnlinkStale`, `Spawn`, `Write`, `Waited` and `StartEnds` (its finally);
`stop` is `Look`, `Read`, `Probe`, `Terminate`, `LooksAgain`, `Kill` and `StopEnds`. The environment
ends proxies (`ProxyEnds`), starts and ends strangers under free PIDs, interrupts
and kills starts. A child of a live `start` is a zombie until it is waited for, and
`os.kill(pid, 0)` answers for a zombie and for a stranger too.

### ExchangeAdapters, Reconcile, AccountRead - `motim/reconcile`

`ExchangeAdapters` has both adapters as operators: the routes they know, where in a
body the records are, and what facts a record stands for or that it is malformed. A
record keeps a name, a second identifier and its figures, each with the way it is
spelt, since spelling must not make two facts of one. `Reconcile` is one call of
`reconcile()` step by step: `CheckArguments`, `Parse`, `Validate` and `Adapt` in the
order of the input, `Deduplicate` group by group, `Conclude`. `AccountRead` is the contract: one
step from no answer to the answer that the *set* of exchanges determines, written
without lists, order or accumulators. The checks of the validator that look
for authentication material, non-finite numbers and unknown fields are a set of
flaws an exchange has. `CallsAssumption` names what a call may be given: a list of
lines, each blank, broken or an exchange whose records are a list.

## What the runs show

| Run | Checks | Bounds |
|---|---|---|
| `writer` | `Conservation`, `OnceInOrder`, `FlushSound`, `ExitsDrained`, `ImplementsLog`, `EventuallySettled` | one producer, queue of 2 that drops, batches of 2, 3 calls |
| `store_safety` | `NothingForgotten`, `PrefixDurable`, `SavedUnlessRaced` | two services, every operation, loop and closer, 2 updates each, failed reads, failed and short writes, kills |
| `store_loop` | `DiskNeverRegresses`, `EventuallyDurable` | two services, one's name part of the other's, loop only, 2 updates each, failed reads, failed and short writes, kills |
| `store_nested_names` | violates `UpdateAddsSamples` | one name part of the other |
| `index` | `CountsExact`, `OrderExact`, `ExampleExists` | two services, 4 exchanges, rebuild batches of 2 |
| `index_rebuild_races` | violates `RebuildIsExact` | 3 exchanges |
| `pipeline` | `Conservation`, `SpecFirst`, `ErrorsExplainGaps`, `ImplementsLog`, `EventuallyProcessed` | two threads in hooks, queue of 2 that drops, 3 calls |
| `system` | `EndToEnd`, `EveryCaptureCounted`, `RowsHaveSpecs`, `HandedIsSettled`, `EventuallyStored` | one hook thread, queues of 1 that both drop, batches of 2, 2 events |
| `hooks` | `SamplesSound`, `SamplesAreAnswers` | two flows, two hosts of which one is allowed and the other filtered, three endpoints, up to 4 requests and 3 messages, 5 together, queue of 2, limits of 2 samples per endpoint, 3 in total and 2 messages |
| `proxy` | `OneNamedProxy`, `FileGoesWithStart`, `StopStops` | two starts, a stop, a status, two PIDs |
| `reconcile` | `EveryRecordAccounted`, `FactIdNamesOne`, `ImplementsContract` | inputs of up to 3 exchanges of a pool of 10 (Bybit), of 2 (Lighter, and with flaws), every refused argument |
| `reconcile_ok` | violates `OkMeansRecognised` | as `reconcile` |

Each module's type invariant is checked in its safety run. Why the bounds are enough: three
calls let a queue be full while items are in the worker's hands and a producer is between its
steps (the pipeline's run has two producers, the writer's one, as in the proxy); batches of two
make a transaction that fails between its rows; two updates of a service make a file older than
the cache, and two services make one flush with two writes. Two starts are what it takes to
race for the PID file, two PIDs what it takes to reuse one while another is in use. Three
answers of one endpoint exceed the limit per endpoint and not the total, four of two endpoints
exceed the total, and three messages exceed their limit, so that a spec outgrows a limit if any
one of the three cuts is left out; a redirect, a refusal and an asset meet in one behaviour.
The filtered host is not an allowed one there: its requests are refused with a 403 that nothing
records. Three exchanges make a duplicate, a conflict and an unrelated or a bad one in every
order. Queue sizes, batch sizes and the number of threads, commands and PIDs do not enter the
arguments of the proofs, which hold for all of them. `MaxCalls`, `MaxObs`, `MaxId`,
`MaxRequests` and `MaxFrames` bound counters that the code does not bound.

In `system` two events are too few for one way of losing a spec, a dirty mark lost
and then an update that no flush meets. `RowsHaveSpecs` also held with
three (3.2 million states, without the liveness property, whose graph would take
longer than a routine run), and it is proved for any number.

`raced`, `lost`, `slipped`, `overtaken` and `excuses` are history variables that name the
windows in which a weaker statement is all the code gives: a `save()` while a flush of the same
spec is under way, what a spec file held that could not be read or a write cut off, a raw table
that changed behind a rebuild, an exchange indexed before an older one, a command that runs
while a start is under way. In `CaptureSystem` a race lasts until a flush has written the whole
spec with no other flush at work: the mark it lost is lost until then.

Fairness. The worker of a queue, a call in progress and, in the store, the flush
loop are running threads: weak fairness. Nothing obliges a browser to go on, a
program to call `flush()` or `close()`, or the operating system to kill. The store's
`EventuallyDurable` also assumes strong fairness of a write: the disk does not
fail for ever. `ProxyHooks`, `ProxyLifecycle`, `Reconcile` and `ExchangeIndex`
state no fairness and no liveness: nothing there waits for anything but the user,
a lookup or the end of a loop.

`CHECK_DEADLOCK` is off where the model really stops: in `system` when
the process has ended, in `reconcile` and `reconcile_ok` when the call has
returned, in `hooks` when the requests and messages allowed are over.

Disagreements between the code and what it says of itself are the violation runs;
PROJECT.json's findings quote the lines: a service whose name is part of a cached
one's takes its spec over; a rebuild counts an exchange twice that was captured
between its transactions; an input is `ok` although an entry that is no object, or
a whole body, was passed over without an issue. Further ones are visible in the
models without a run of their own:

- items accepted while the writer's `close()` waits are not flushed (`CloseJoin`), and
  exchanges accepted after the database could not be opened are counted nowhere
  (`CountUnopened`);
- an idle pipeline worker ends without looking at the queue again (`AfterTimeout`), and
  an orderly exit leaves the pipeline's queue behind, as nobody closes it (`Exits`);
- an `update()` during a flush can lose its dirty mark (`Clean`, hence
  `SavedUnlessRaced`);
- a spec file that cannot be read or parsed is taken for an empty spec and overwritten
  (`ReadFails`), and a short write replaces a good file (`Replace`), hence `lost`;
- the 403 with which `request()` refuses a host is recorded as that host's answer (`Captured`);
- two starts can both pass the check of the PID file, and any command's finally
  unlinks a file that by then is another's (hence `~raced` in `OneNamedProxy`);
- a limit of one sample per endpoint is no limit (`LastOf`).

## What is proved

The proofs need no bound: sets of threads, commands, names and PIDs, sizes of
queues and batches and numbers of calls are any that the named ASSUMEs of the
modules admit.

`ExchangeWriterProofs`: `TypeCorrect`, `NothingLost`, `Durability`, `FlushWaits`
(`TypeOK`, `Conservation`, `OnceInOrder`, `FlushSound`, and that `written` is the number of
rows except between a commit and its accounting), the action property `ExitDrained`,
and `Refinement`: `Spec => Log!Spec`. `Conservation`, stated as an equality of sequences, is
preserved by a step only if one knows what the database and the transaction are at
each program counter. `IInv` is therefore `TypeOK`, `Transaction` (rows are in
the transaction only while inserting, and a batch that is being written is not empty),
`Backlog` (the pending items are the consecutive ordinals after the settled ones),
`WrittenIsDurable`, `OnceInOrder` and `Targets` (a flush's target is a count that
calls have reached, and a flush that has seen an empty queue knows where the rest is).
The refinement maps `Commit` to `Write` of a whole batch, `Rollback`'s accounting to `Lose`,
`Put` to `Accept` and everything else to a stutter.

`CapturePipelineProofs`: `TypeCorrect`, `NothingLost`, `SpecsFirst`,
`ErrorsExplained` and `Refinement` (the pipeline implements `ExchangeLog` with groups of
one). `IInv` adds to `TypeOK` and `ErrorsExplainGaps` where the pending
events are (`Backlog`), that the worker enters only the sinks that are configured
(`Routes`) and that what each sink has seen climbs to the event in the worker's
hands, which the spec store saw first (`Sinks`).

`SpecStoreProofs`: `TypeCorrect` without further assumption; `NothingIsForgotten`,
`FilesAreSnapshots` and `CleanIsSaved` under `UsedByOne`: one thread calls the store, and
if it deletes single specs, no name is part of another. Both are needed: two callers of
`update()` would each load a copy of their own, and `delete()` may unlink the file of another
name. The proxy deletes nothing, and its specs' names may nest; the first two properties are
about the services whose names are part of no other (`Distinctive`), the third is about all.
Reads and writes fail as in the code: what they cost is `lost`, and the invariant compares
specs up to it (`Same`). It relates cache, file and every flush's copy to each other
(`Agree`), what a call has read to the file (`ReadIsCurrent`) and a cached spec
that is neither dirty nor being written to its file (`Settled`), all of it to what was recorded
(`Kept`, `Ordered`), with what a call in progress knows (`CallInv`, `Paths`); a
service that a call is removing is kept apart (`Removing`), because file and cache then go in two
steps. `NeverRegresses` is the action property `DiskNeverRegresses` under `RecordingOnly`
(one caller, which only updates, and the flush loop alone, as in the proxy until it exits).
Its invariant is a chain (`Grows`): what the file holds that was never lost from it
(`OnFile`) is in the loop's copy, what the copy holds is in the cache, and both are
in the spec a call is about to save. A second flusher breaks it, with an older
copy that it writes last.

`ProxyLifecycleProofs`: `TypeCorrect`, `OneProxy`, `FileCleaned`, `StopWorks`. `IInv` is
`TypeOK`, `OrderlyInv` (in the absence of a race each command knows, at each
place, which proxies can still serve), `StopInv` (a stop follows the process it
read until it is dead or replaced) and `FileGoesWithStart`.

`CaptureSystemProofs`: `SystemTypeCorrect`, `HookToDatabase`, `CapturesCounted`,
`ExitSettles`, `SpecsOutliveRows`. The pipeline's `IInv` carries over, because every
step of the process is a step of the pipeline or leaves its variables alone; the
writer is followed anew, because its items are now the pipeline's events, of which it
may get only some. `SysInv` says that what is committed, held and queued climbs through the events
(`Ordered`) and is in the spec (`InSpecs`), that what was passed on is in the writer or
counted (`PassedOn`), in which order the exit handlers can be where (`Leaving`, `Closing`), and what each
flush's copy is worth (`Flushing`, `Filed`). `CapturesCounted` assumes `HasWriter`:
without a writer there is no second counter to account for.

`ReconcileProofs`: `TypeCorrect`, `FactIdNamesOneAlways`, `EveryRecordAccountedAlways` and
`ContractImplemented` (`Spec => Contract!Spec`), for calls of any size. The accumulators of the
loop say nothing by themselves; the invariant says, at each program counter, what has been done
with the exchanges and records the loop has passed: which issues, which facts with
which sayings, and that the facts of the groups passed by `Deduplicate` are the ones the
contract gives them. At the end of the loop nothing is left to pass, and the accumulators are the
contract's sets.

`ProxyHooksProofs`: `TypeCorrect`, `SamplesSoundAlways` and `SamplesAreAnswersAlways`
(`HooksTypeOK`, `SamplesSound`, `SamplesAreAnswers`), for any number of flows, hosts, endpoints and
requests and any limits. Its first part are lemmas on what `SpecSamples` computes: what
`Select`, `LastOf` and `Inserted` keep of a list, in which order, and that a list of
distinct samples stays distinct. `Inserted` cuts by position, so they compare a list with
the list of what was ever inserted, both without their times (`Untimed`), as a
refreshed sample has a new time and an old place. `IInv` is `FlowsInv` (which
request and answer a flow has at each stage), `CountsInv`, `QueueInv` (a queued HTTP event is
a response that passed to the browser, of a host and a path the filter passes) and `StoreInv`
(the samples are distinct, within both limits, from such responses, and of each endpoint
the newest).

`ExchangeIndexProofs`: `TypeCorrect`, `CountsExactAlways`, `OrderExactAlways` and
`ExampleExistsAlways` (`TypeOK`, `CountsExact`, `OrderExact`, `ExampleExists`), and
`UncrossedRebuildIsExact`: what `rebuild_derived()` promises holds of a rebuild that nobody crossed,
the condition `index_rebuild_races` shows to be needed. The lemmas say that the incremental code and
the definition by counting commute: to index one exchange more, or to delete a service, and then to
recount gives what `Indexed` and `Deleted` make of the recount before, for the counts in any order
(`CountsIndexed`, `CountsDeleted`) and for the other columns when the exchange is later than all that
are indexed (`OrderIndexed`, `OrderDeleted`). The snapshots are the delicate part: the code
compares an exchange's auth with the latest snapshot, the definition with the exchange with auth before
it, and the two agree because the latest snapshot has the auth of the last such exchange (`LastLeft`).
A batch is an induction over its rows, each adding its exchange to those the tables stand for
(`Staged`). `IInv` adds to the properties that the rows left are the exchanges they were read
from, in ascending order (`RowsInv`), that wiped tables are still empty if the raw table has not
changed (`WipedInv`), that what is indexed is earlier than what waits unless the proxy overtook
(`AheadInv`), and that an exchange is counted twice at most (`CountInv`).

Induction over data needs care. The library's induction theorems take an operator as
a parameter, which the provers cannot instantiate. `NumberInduction` and `ListInduction` state
induction with a *set* instead (a set of numbers that holds zero and successors, of lists
that is closed under `Append`), proved from a least counterexample; with it
recursive functions over lists are in reach. `ExchangeIndexProofs` uses it for the rows of a batch.

Out of the prover's reach, and so only model-checked: liveness under fairness and
everything with ENABLED (`EventuallySettled`, `EventuallyDurable`, `EventuallyProcessed`,
`EventuallyStored`). Every other property of a passing run is a theorem.

## What is not modelled

- Redaction, parsing, path templates, patterns of filters and allowlists,
  configuration, printing: pure functions over text. Redaction and parsing may raise, a
  filter is a set of hosts and endpoints.
- The rest of a spec (authentication metadata, response headers, base URLs) and the
  read-only queries of the database, session slices and authentication views among
  them: they read one snapshot and change nothing.
- `motim proxy trust-cert`, which runs the operating system's own tools.
- The scanners of the validator, and the JSON the reconciliation reads and prints.
- `put_exchange()` called directly (tests and library users do; the application
  writes through the buffered writer), file permissions, symbolic links.
- Several processes on one directory of specs. Only the proxy updates it.

## Plan

1. `SessionSlice`: the session window query and its neighbours, as operators against a
   definition over the raw table.
2. Redaction's one stateful promise, that what is stored was redacted before it was
   queued, as a label on events in `ProxyHooks`.
