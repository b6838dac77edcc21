------------------------------ MODULE SpecStore ------------------------------
(***************************************************************************)
(* motim/store.py: Store.  A spec per service lives in a cache and, one    *)
(* file each, on disk.  Clients change the cache and mark it dirty; the    *)
(* background flush loop and close() write dirty specs to disk.  The lock  *)
(* covers single accesses to the cache and the dirty set, so every such    *)
(* access, and every effect on a file, is a step of its own.               *)
(*                                                                         *)
(* A spec is the set of observations recorded in it; an observation is a   *)
(* service and the ordinal of the update() that made it.  Left out: sample *)
(* limits, redaction, the layout of a spec, permissions, symbolic links and*)
(* files that parse to no mapping, on which update() raises.               *)
(* Temporary files are invisible to every reader (_resolve_path, services  *)
(* and clear skip them), so writing one shows only in what is replaced.    *)
(***************************************************************************)
EXTENDS Integers, FiniteSets

CONSTANTS
    Services,      \* normalized service names
    Contains,      \* Contains[s]: the names s is a substring of, s included
    NoSpec,        \* no cache entry, or no file
    Clients,       \* threads that use the store; the proxy has exactly one
    ClientOps,     \* which of "update", "delete", "clear" they call
    Flushers,      \* "loop", and "closer" where close() is called
    MaxObs         \* bound on update() calls per service, for model checking

Obs == Services \X (1..MaxObs)
Home(o) == o[1]

ASSUME StoreAssumption ==
    /\ Contains \in [Services -> SUBSET Services]
    /\ \A s \in Services : s \in Contains[s]
    /\ NoSpec \notin Services /\ \A spec \in SUBSET Obs : NoSpec # spec
    /\ ClientOps \subseteq {"update", "delete", "clear"}
    /\ Flushers \subseteq {"loop", "closer"}
    /\ MaxObs \in Nat

Specs == {NoSpec} \cup SUBSET Obs

VARIABLES
    cache,         \* _cache
    dirty,         \* _dirty
    stop,          \* _stop_flush
    disk,          \* the spec file of each service
    client,        \* where each client is in its call
    obs,           \* the observation it records; ordinal 0 for delete()
    held,          \* the copy of the spec load() gave to update()
    from,          \* the service whose file load() resolved to
    listed,        \* files clear() still has to unlink
    flusher,       \* where each flusher is in _flush_loop(), close(), flush()
    todo,          \* the dirty services it still has to write
    cur, copy,     \* the service it is writing and the copy it took
    calls,         \* history: number of update() calls per service
    done,          \* history: observations recorded, not lost by crash or delete
    raced,         \* history: services last saved while a flusher wrote them
    lost           \* history: of each file, since the process began, what it held
                   \* when load() could not read it and what a write cut off

store == <<cache, dirty, disk>>
clientVars == <<client, obs, held, from, listed, calls>>
flusherVars == <<flusher, todo, cur, copy>>
histories == <<done, raced, lost>>
vars == <<store, stop, clientVars, flusherVars, histories>>

ClientPCs == {"idle", "cache", "fuzzy", "resolve", "read", "fill", "save",
              "unlink", "list", "clear"}
FlusherPCs == {"idle", "check", "asleep", "join", "next", "write", "clean", "restore",
               "ended", "done"}

On(mem, s) == mem[s] # NoSpec
Content(spec) == IF spec = NoSpec THEN {} ELSE spec
Service(c) == Home(obs[c])
Step(c, from1, to) == client[c] = from1 /\ client' = [client EXCEPT ![c] = to]
Writing(s) == \E f \in Flushers : flusher[f] \in {"write", "clean", "restore"} /\ cur[f] = s

Fresh == [f \in Flushers |-> IF f = "loop" THEN "check" ELSE "idle"]
All(set, value) == [x \in set |-> value]

Init ==
    /\ cache = All(Services, NoSpec) /\ dirty = {} /\ stop = FALSE
    /\ disk = All(Services, NoSpec)
    /\ client = All(Clients, "idle") /\ obs = All(Clients, NoSpec)
    /\ held = All(Clients, {}) /\ from = All(Clients, NoSpec)
    /\ listed = All(Clients, {})
    /\ flusher = Fresh /\ todo = All(Flushers, {})
    /\ cur = All(Flushers, NoSpec) /\ copy = All(Flushers, {})
    /\ calls = [s \in Services |-> 0] /\ done = {} /\ raced = {}
    /\ lost = All(Services, {})

-----------------------------------------------------------------------------
(* update(): load(), then save()                                           *)

UpdateCall(c, s) ==
    /\ "update" \in ClientOps /\ calls[s] < MaxObs
    /\ Step(c, "idle", "cache")
    /\ calls' = [calls EXCEPT ![s] = @ + 1]
    /\ obs' = [obs EXCEPT ![c] = <<s, calls[s] + 1>>]
    /\ UNCHANGED <<store, stop, held, from, listed, flusherVars, histories>>

LoadCached(c) ==
    /\ client[c] = "cache"
    /\ LET hit == On(cache, Service(c)) IN
        /\ Step(c, "cache", IF hit THEN "save" ELSE "fuzzy")
        /\ held' = [held EXCEPT ![c] = IF hit THEN cache[Service(c)] ELSE @]
    /\ UNCHANGED <<store, stop, obs, from, listed, calls, flusherVars, histories>>

\* The first name in the dict that contains this one; the order is left open.
LoadSimilar(c) ==
    /\ Step(c, "fuzzy", "save")
    /\ \E m \in Contains[Service(c)] :
        /\ On(cache, m)
        /\ held' = [held EXCEPT ![c] = cache[m]]
    /\ UNCHANGED <<store, stop, obs, from, listed, calls, flusherVars, histories>>

LoadMisses(c) ==
    /\ Step(c, "fuzzy", "resolve")
    /\ \A m \in Contains[Service(c)] : ~On(cache, m)
    /\ UNCHANGED <<store, stop, obs, held, from, listed, calls, flusherVars, histories>>

\* _resolve_path(): the service's own file or else that of a name find()
\* returns, which may be one that is only cached.
Resolved(s) ==
    IF On(disk, s) THEN {s}
    ELSE LET found == {m \in Contains[s] : On(disk, m) \/ On(cache, m)}
         IN IF found = {} THEN {s} ELSE found

\* Fault: a spec that is not cached is taken for a new one.
ResolveIgnoresDisk(c) ==
    /\ Step(c, "resolve", "save")
    /\ held' = [held EXCEPT ![c] = {}]
    /\ UNCHANGED <<store, stop, obs, from, listed, calls, flusherVars, histories>>

\* Without a file, load() raises and update() starts from an empty spec.
Resolve(c) ==
    /\ client[c] = "resolve"
    /\ \E m \in Resolved(Service(c)) :
        /\ Step(c, "resolve", IF On(disk, m) THEN "read" ELSE "save")
        /\ held' = [held EXCEPT ![c] = {}]
        /\ from' = [from EXCEPT ![c] = m]
    /\ UNCHANGED <<store, stop, obs, listed, calls, flusherVars, histories>>

ReadFile(c) ==
    /\ Step(c, "read", "fill") /\ On(disk, from[c])
    /\ held' = [held EXCEPT ![c] = Content(disk[from[c]])]
    /\ UNCHANGED <<store, stop, obs, from, listed, calls, flusherVars, histories>>

\* A file that cannot be read or parsed, or that vanished since, is taken for
\* an empty spec, which takes its place in the cache and later on disk.
ReadFails(c) ==
    /\ Step(c, "read", "fill")
    /\ held' = [held EXCEPT ![c] = {}]
    /\ lost' = [lost EXCEPT ![from[c]] = @ \cup Content(disk[from[c]])]
    /\ UNCHANGED <<store, stop, obs, from, listed, calls, flusherVars, done, raced>>

FillCache(c) ==
    /\ Step(c, "fill", "save")
    /\ cache' = [cache EXCEPT ![from[c]] = held[c]]
    /\ UNCHANGED <<dirty, disk, stop, obs, held, from, listed, calls, flusherVars,
                   histories>>

Save(c) ==
    LET s == Service(c) IN
    /\ Step(c, "save", "idle")
    /\ cache' = [cache EXCEPT ![s] = held[c] \cup {obs[c]}]
    /\ dirty' = dirty \cup {s}
    /\ done' = done \cup {obs[c]}
    /\ raced' = IF Writing(s) THEN raced \cup {s} ELSE raced \ {s}
    /\ obs' = [obs EXCEPT ![c] = NoSpec]
    /\ held' = [held EXCEPT ![c] = {}]
    /\ from' = [from EXCEPT ![c] = NoSpec]
    /\ UNCHANGED <<disk, stop, listed, calls, flusherVars, lost>>

Update(c) ==
    \/ \E s \in Services : UpdateCall(c, s)
    \/ LoadCached(c) \/ LoadSimilar(c) \/ LoadMisses(c)
    \/ Resolve(c) \/ ReadFile(c) \/ ReadFails(c) \/ FillCache(c) \/ Save(c)

-----------------------------------------------------------------------------
(* delete() and clear()                                                    *)

DeleteCached(c, s) ==
    /\ "delete" \in ClientOps
    /\ Step(c, "idle", "unlink")
    /\ cache' = [cache EXCEPT ![s] = NoSpec]
    /\ dirty' = dirty \ {s}
    /\ done' = {o \in done : Home(o) # s}
    /\ obs' = [obs EXCEPT ![c] = <<s, 0>>]
    /\ UNCHANGED <<disk, stop, held, from, listed, calls, flusherVars, raced, lost>>

Unlink(c) ==
    /\ Step(c, "unlink", "idle")
    /\ \E m \in Resolved(Service(c)) : disk' = [disk EXCEPT ![m] = NoSpec]
    /\ obs' = [obs EXCEPT ![c] = NoSpec]
    /\ UNCHANGED <<cache, dirty, stop, held, from, listed, calls, flusherVars,
                   histories>>

ClearCached(c) ==
    /\ "clear" \in ClientOps
    /\ Step(c, "idle", "list")
    /\ cache' = All(Services, NoSpec)
    /\ dirty' = {} /\ done' = {}
    /\ UNCHANGED <<disk, stop, obs, held, from, listed, calls, flusherVars, raced, lost>>

ClearLists(c) ==
    /\ Step(c, "list", "clear")
    /\ listed' = [listed EXCEPT ![c] = {s \in Services : On(disk, s)}]
    /\ UNCHANGED <<store, stop, obs, held, from, calls, flusherVars, histories>>

ClearUnlinks(c) ==
    /\ client[c] = "clear"
    /\ \E s \in listed[c] :
        /\ disk' = [disk EXCEPT ![s] = NoSpec]
        /\ listed' = [listed EXCEPT ![c] = @ \ {s}]
    /\ UNCHANGED <<cache, dirty, stop, client, obs, held, from, calls, flusherVars,
                   histories>>

ClearEnds(c) ==
    /\ listed[c] = {}
    /\ Step(c, "clear", "idle")
    /\ UNCHANGED <<store, stop, obs, held, from, listed, calls, flusherVars, histories>>

Remove(c) ==
    \/ \E s \in Services : DeleteCached(c, s)
    \/ Unlink(c) \/ ClearCached(c) \/ ClearLists(c) \/ ClearUnlinks(c) \/ ClearEnds(c)

-----------------------------------------------------------------------------
(* _flush_loop() and close(), which call flush()                           *)

Goto(f, from1, to) == flusher[f] = from1 /\ flusher' = [flusher EXCEPT ![f] = to]

LoopChecks ==
    /\ "loop" \in Flushers
    /\ Goto("loop", "check", IF stop THEN "ended" ELSE "asleep")
    /\ UNCHANGED <<store, stop, clientVars, todo, cur, copy, histories>>

\* An empty dirty set makes flush() return at once, as the loop's test does.
LoopWakes ==
    /\ "loop" \in Flushers
    /\ Goto("loop", "asleep", "next")
    /\ todo' = [todo EXCEPT !["loop"] = dirty]
    /\ UNCHANGED <<store, stop, clientVars, cur, copy, histories>>

CloseStops ==
    /\ "closer" \in Flushers /\ flusher["closer"] \in {"idle", "done"}
    /\ flusher' = [flusher EXCEPT !["closer"] = "join"]
    /\ stop' = TRUE
    /\ UNCHANGED <<store, clientVars, todo, cur, copy, histories>>

\* join() gives up after two seconds, the time the loop sleeps, so close()
\* goes on whether or not the loop has ended.
CloseFlushes ==
    /\ "closer" \in Flushers
    /\ Goto("closer", "join", "next")
    /\ todo' = [todo EXCEPT !["closer"] = dirty]
    /\ UNCHANGED <<store, stop, clientVars, cur, copy, histories>>

CopySpec(f) ==
    /\ \E s \in todo[f] :
        /\ On(cache, s)
        /\ todo' = [todo EXCEPT ![f] = @ \ {s}]
        /\ cur' = [cur EXCEPT ![f] = s]
        /\ copy' = [copy EXCEPT ![f] = cache[s]]
    /\ Goto(f, "next", "write")
    /\ UNCHANGED <<store, stop, clientVars, histories>>

SkipDeleted(f) ==
    /\ flusher[f] = "next"
    /\ \E s \in todo[f] :
        /\ ~On(cache, s)
        /\ todo' = [todo EXCEPT ![f] = @ \ {s}]
        /\ dirty' = dirty \ {s}
    /\ UNCHANGED <<cache, disk, stop, clientVars, flusher, cur, copy, histories>>

\* os.write() into the temporary file, which may write less than it is given
\* and whose result is not looked at, then os.replace().
Replace(f) ==
    /\ Goto(f, "write", "clean")
    /\ \E written \in SUBSET copy[f] :
        /\ disk' = [disk EXCEPT ![cur[f]] = written]
        /\ lost' = [lost EXCEPT ![cur[f]] = @ \cup (copy[f] \ written)]
    /\ UNCHANGED <<cache, dirty, stop, clientVars, todo, cur, copy, done, raced>>

\* Fault: the dirty mark goes although nothing was written.
WriteFailsCleanly(f) ==
    /\ Goto(f, "write", "clean")
    /\ UNCHANGED <<store, stop, clientVars, todo, cur, copy, histories>>

\* Fault: the exception ends the thread.
WriteFailsFatally(f) ==
    /\ flusher[f] = "write"
    /\ flusher' = [flusher EXCEPT ![f] = IF f = "loop" THEN "ended" ELSE "done"]
    /\ UNCHANGED <<store, stop, clientVars, todo, cur, copy, histories>>

WriteFails(f) ==
    /\ Goto(f, "write", "restore")
    /\ UNCHANGED <<store, stop, clientVars, todo, cur, copy, histories>>

Mark(f, at, marks) ==
    /\ Goto(f, at, "next")
    /\ dirty' = marks
    /\ cur' = [cur EXCEPT ![f] = NoSpec]
    /\ copy' = [copy EXCEPT ![f] = {}]
    /\ UNCHANGED <<cache, disk, stop, clientVars, todo, histories>>

Clean(f) == Mark(f, "clean", dirty \ {cur[f]})

Restore(f) == Mark(f, "restore", dirty \cup {cur[f]})

FlushEnds(f) ==
    /\ todo[f] = {}
    /\ Goto(f, "next", IF f = "loop" THEN "check" ELSE "done")
    /\ UNCHANGED <<store, stop, clientVars, todo, cur, copy, histories>>

Flush(f) ==
    \/ CopySpec(f) \/ SkipDeleted(f) \/ Replace(f) \/ WriteFails(f)
    \/ Clean(f) \/ Restore(f) \/ FlushEnds(f)

Flushing == LoopChecks \/ LoopWakes \/ CloseStops \/ CloseFlushes \/ \E f \in Flushers : Flush(f)

-----------------------------------------------------------------------------
\* The process is killed and a new Store is made over the same directory.
Restart ==
    /\ cache' = All(Services, NoSpec) /\ dirty' = {} /\ stop' = FALSE
    /\ client' = All(Clients, "idle") /\ obs' = All(Clients, NoSpec)
    /\ held' = All(Clients, {}) /\ from' = All(Clients, NoSpec)
    /\ listed' = All(Clients, {})
    /\ flusher' = Fresh /\ todo' = All(Flushers, {})
    /\ cur' = All(Flushers, NoSpec) /\ copy' = All(Flushers, {})
    /\ done' = {o \in done : o \in Content(disk[Home(o)])}
    /\ raced' = {} /\ lost' = All(Services, {})
    /\ UNCHANGED <<disk, calls>>

Next == (\E c \in Clients : Update(c) \/ Remove(c)) \/ Flushing \/ Restart

StoreSpec == Init /\ [][Next]_vars

\* The flush loop is a running thread.  A write that is tried again and again
\* succeeds at some time (the disk does not fail for ever).
FairStoreSpec ==
    /\ StoreSpec
    /\ WF_vars(LoopChecks) /\ WF_vars(LoopWakes)
    /\ \A f \in Flushers : WF_vars(Flush(f)) /\ SF_vars(Replace(f))

-----------------------------------------------------------------------------
(* Properties                                                              *)

\* The variables range over what the code stores in them, and a flusher that
\* holds a copy knows whose copy it is.
TypeOK ==
    /\ cache \in [Services -> Specs] /\ disk \in [Services -> Specs]
    /\ dirty \subseteq Services /\ stop \in BOOLEAN
    /\ client \in [Clients -> ClientPCs]
    /\ obs \in [Clients -> {NoSpec} \cup (Services \X (0..MaxObs))]
    /\ held \in [Clients -> SUBSET Obs] /\ from \in [Clients -> Services \cup {NoSpec}]
    /\ listed \in [Clients -> SUBSET Services]
    /\ flusher \in [Flushers -> FlusherPCs] /\ todo \in [Flushers -> SUBSET Services]
    /\ cur \in [Flushers -> Services \cup {NoSpec}] /\ copy \in [Flushers -> SUBSET Obs]
    /\ calls \in [Services -> 0..MaxObs] /\ done \subseteq Obs /\ raced \subseteq Services
    /\ lost \in [Services -> SUBSET Obs]
    /\ \A f \in Flushers : flusher[f] \in {"write", "clean", "restore"} <=> cur[f] # NoSpec

\* load() and _resolve_path() can take such a name for no other.
Distinctive(s) == Contains[s] = {s}

\* o is where update() will look for it, or went with a file that could not be
\* read or was cut off.
Remembered(o) ==
    LET s == Home(o)
    IN o \in Content(IF On(cache, s) THEN cache[s] ELSE disk[s]) \cup lost[s]

\* update() adds to a spec and never replaces what earlier calls recorded in
\* it, whether it finds the spec in the cache or, after a restart, on disk:
\* for a name that is part of no other.
NothingForgotten == \A o \in done : Distinctive(Home(o)) => Remembered(o)

\* "Test that update adds samples.", whatever the names of the services.
UpdateAddsSamples == \A o \in done : Remembered(o)

\* What flush() leaves on disk, and so what a crash leaves, is a spec as it
\* was at one moment: with an observation come all that were recorded before,
\* apart from those lost.
PrefixDurable ==
    \A s \in Services : Distinctive(s) => \A i, j \in 1..MaxObs :
        (i < j /\ <<s, i>> \in done /\ <<s, j>> \in Content(disk[s]))
            => <<s, i>> \in disk[s] \cup lost[s]

\* flush(): a spec that is neither dirty nor being written is on disk as it is
\* in the cache, apart from what was lost, unless its last save() came between
\* the copy flush() took of it and the removal of its dirty mark, also when
\* writes fail and two threads flush at once.
SavedUnlessRaced ==
    \A s \in Services :
        (On(cache, s) /\ s \notin dirty /\ s \notin raced /\ ~Writing(s))
            => Content(disk[s]) \ lost[s] = cache[s] \ lost[s]

\* flush() never takes out of a spec file what the file already held, but for
\* what could not be read or is cut off, if the service's name is not part of
\* another's.
DiskNeverRegresses ==
    [][\A s \in {t \in Services : Distinctive(t)} :
         (On(disk, s) /\ \E f \in Flushers : cur[f] = s /\ flusher[f] = "write")
            => disk[s] \subseteq Content(disk'[s]) \cup lost'[s]]_vars

\* The flush loop brings every observation of such a service to disk, however
\* often a write fails, unless the store is closed or killed first, a save()
\* raced, or the observation was lost.
EventuallyDurable ==
    \A o \in {x \in Obs : Distinctive(Home(x))} :
        o \in done ~> \/ o \in Content(disk[Home(o)]) \/ o \notin done
                      \/ stop \/ Home(o) \in raced \/ o \in lost[Home(o)]
=============================================================================
