--------------------------- MODULE SpecStoreProofs ---------------------------
(***************************************************************************)
(* The safety properties of SpecStore for any services, the flush loop     *)
(* with or without close(), failing reads, failing and short writes, kills *)
(* and any number of updates.  As in the proxy, one thread calls the store.*)
(* Names may be parts of one another, unless specs are deleted one by one: *)
(* delete() may unlink the file of another name.  The proxy never does.    *)
(***************************************************************************)
EXTENDS SpecStore, TLAPS

OneCaller == \A c, d \in Clients : c = d
DistinctNames == \A s \in Services : Distinctive(s)
UsedByOne == OneCaller /\ ("delete" \in ClientOps => DistinctNames)

Updating == {"cache", "fuzzy", "resolve", "read", "fill", "save"}

\* A call in progress knows its observation, and its file while it reads it.
CallInv ==
    \A c \in Clients :
        /\ client[c] \in Updating => obs[c] \in Services \X (1..MaxObs)
        /\ client[c] = "unlink" => "delete" \in ClientOps /\ obs[c] \in Services \X (0..MaxObs)
        /\ client[c] \in {"read", "fill"} => from[c] \in Services

\* A call that found no spec in the cache leaves none there until it fills the
\* cache, and reads a file that exists and whose name contains its service; a
\* service it unlinks is not in the cache, and while it clears none is.
Paths ==
    \A c \in Clients :
        /\ client[c] \in {"fuzzy", "resolve", "read", "fill", "unlink"} => ~On(cache, Service(c))
        /\ client[c] \in {"resolve", "read", "fill"} =>
              \A m \in Contains[Service(c)] : ~On(cache, m)
        /\ client[c] \in {"read", "fill"} =>
              from[c] \in Contains[Service(c)] /\ On(disk, from[c])
        /\ client[c] \in {"list", "clear"} => \A s \in Services : ~On(cache, s)

\* The file of s is about to go.
Removing(s) ==
    \E c \in Clients : \/ client[c] = "unlink" /\ Service(c) = s
                       \/ client[c] = "list"
                       \/ client[c] = "clear" /\ s \in listed[c]

\* Two specs of s that differ in nothing but what was lost.
Same(s, spec, other) == Content(spec) \ lost[s] = Content(other) \ lost[s]

\* Without a race, the copies of a spec agree with each other, with the cache
\* and, where written, with the file, and none of them would bring an older
\* spec back after a deletion.
Agree(s) ==
    s \notin raced => \A f \in Flushers : cur[f] = s =>
        /\ \A g \in Flushers : cur[g] = s => Same(s, copy[g], copy[f])
        /\ On(cache, s) => Same(s, copy[f], cache[s])
        /\ On(cache, s) /\ flusher[f] = "clean" => Same(s, disk[s], cache[s])
        /\ ~On(cache, s) /\ ~Removing(s) => disk[s] = NoSpec \/ Same(s, disk[s], copy[f])

\* What load() has read is what the file still holds.
ReadIsCurrent(s) ==
    s \notin raced =>
        \A c \in Clients : client[c] = "fill" /\ from[c] = s => Same(s, held[c], disk[s])

\* What is neither dirty, raced nor being written is on disk as it is cached.
Settled(s) ==
    (On(cache, s) /\ s \notin dirty /\ s \notin raced /\ ~Writing(s))
        => Same(s, disk[s], cache[s])

Saved == \A s \in Services : Agree(s) /\ ReadIsCurrent(s) /\ Settled(s)

\* A recorded observation that was not lost is in the cache, or in a file
\* nobody is writing or about to remove, and in what a call holds of its spec.
Kept ==
    \A o \in done : Distinctive(Home(o)) =>
        /\ On(cache, Home(o)) => o \in cache[Home(o)] \cup lost[Home(o)]
        /\ ~On(cache, Home(o)) => /\ o \in Content(disk[Home(o)]) \cup lost[Home(o)]
                                  /\ \A f \in Flushers : cur[f] # Home(o)
        /\ \A c \in Clients :
             /\ client[c] = "fill" /\ from[c] = Home(o) => o \in held[c] \cup lost[Home(o)]
             /\ client[c] = "save" /\ Service(c) = Home(o) => o \in held[c] \cup lost[Home(o)]
             /\ client[c] \notin {"list", "clear"}
             /\ client[c] = "unlink" => Service(c) # Home(o)

\* spec has no observation of s after the n-th and, with one, all of those in
\* recorded that came before it.
Closed(spec, s, n, recorded) ==
    \A i, j \in 1..MaxObs :
        <<s, j>> \in spec => /\ j <= n
                             /\ i < j /\ <<s, i>> \in recorded => <<s, i>> \in spec

\* Every spec of such a service, wherever it is kept, is closed, and the call
\* in progress makes the newest observation.
ClosedNow(spec, s) == Closed(spec, s, calls[s], done \ lost[s])

OrderedSpec(s) ==
    /\ ClosedNow(Content(cache[s]), s) /\ ClosedNow(Content(disk[s]), s)
    /\ \A f \in Flushers : cur[f] = s => ClosedNow(copy[f], s)
    /\ \A c \in Clients :
         /\ client[c] = "fill" /\ from[c] = s => ClosedNow(held[c], s)
         /\ client[c] = "save" /\ Service(c) = s => ClosedNow(held[c], s)
         /\ client[c] \in Updating /\ Service(c) = s => obs[c] = <<s, calls[s]>>

Ordered == \A s \in Services : Distinctive(s) => OrderedSpec(s)

IInv == TypeOK /\ CallInv /\ Paths /\ Saved /\ Kept /\ Ordered

-----------------------------------------------------------------------------
(* Types                                                                   *)

\* The service of an observation, or of the mark delete() leaves in its place.
LEMMA HomeType ==
  ASSUME NEW o \in Services \X (0..MaxObs)
  PROVE  Home(o) \in Services
BY DEF Home

\* A call in progress is about a service.
LEMMA ServiceType ==
  ASSUME CallInv, NEW c \in Clients, client[c] \in Updating \cup {"unlink"}
  PROVE  Service(c) \in Services /\ obs[c] \in Services \X (0..MaxObs)
<1>1. obs[c] \in Services \X (0..MaxObs)
  BY StoreAssumption DEF CallInv, Updating
<1> QED
  BY <1>1, HomeType DEF Service

\* A stored spec that exists is a set of observations.
LEMMA ContentType ==
  ASSUME NEW mem \in [Services -> Specs], NEW s \in Services
  PROVE  Content(mem[s]) \in SUBSET Obs /\ (On(mem, s) => mem[s] \in SUBSET Obs)
BY DEF Content, On, Specs

\* Types in the first state.
LEMMA TypeInit == Init => TypeOK /\ CallInv
<1> SUFFICES ASSUME Init PROVE TypeOK /\ CallInv
  OBVIOUS
<1> USE DEF Init, All
<1>1. TypeOK
  <2>1. NoSpec \in Specs /\ MaxObs \in Nat
    BY StoreAssumption DEF Specs
  <2>2. cache \in [Services -> Specs] /\ disk \in [Services -> Specs]
    BY <2>1
  <2>3. client \in [Clients -> ClientPCs]
    BY DEF ClientPCs
  <2>4. flusher \in [Flushers -> FlusherPCs]
    BY DEF Fresh, FlusherPCs
  <2>5. \A f \in Flushers : flusher[f] \notin {"write", "clean", "restore"} /\ cur[f] = NoSpec
    BY DEF Fresh
  <2>6. calls \in [Services -> 0..MaxObs] /\ lost \in [Services -> SUBSET Obs]
    BY <2>1
  <2> QED
    BY <2>2, <2>3, <2>4, <2>5, <2>6 DEF TypeOK
<1>2. CallInv
  BY DEF Init, CallInv, All, Updating
<1> QED
  BY <1>1, <1>2

\* A step of a client keeps the types.
LEMMA ClientType ==
  ASSUME TypeOK, CallInv, NEW c \in Clients, Update(c) \/ Remove(c)
  PROVE  TypeOK' /\ CallInv'
<1> USE DEF TypeOK, ClientPCs, Updating, Step, store, flusherVars, histories
<1>1. ASSUME NEW s \in Services, UpdateCall(c, s)
      PROVE  TypeOK' /\ CallInv'
  <2>1. calls[s] + 1 \in 1..MaxObs /\ <<s, calls[s] + 1>> \in Services \X (1..MaxObs)
    BY <1>1, StoreAssumption DEF UpdateCall
  <2>2. TypeOK'
    BY <1>1, <2>1, StoreAssumption DEF UpdateCall
  <2>3. CallInv'
    BY <1>1, <2>1 DEF UpdateCall, CallInv
  <2> QED
    BY <2>2, <2>3
<1>2. CASE LoadCached(c)
  <2>1. Service(c) \in Services
    BY <1>2, ServiceType DEF LoadCached
  <2>2. On(cache, Service(c)) => cache[Service(c)] \in SUBSET Obs
    BY <2>1, ContentType
  <2>3. held' \in [Clients -> SUBSET Obs]
    BY <1>2, <2>2 DEF LoadCached
  <2> QED
    BY <1>2, <2>3 DEF LoadCached, CallInv
<1>3. CASE LoadSimilar(c)
  <2>1. Service(c) \in Services
    BY <1>3, ServiceType DEF LoadSimilar
  <2>2. \A m \in Contains[Service(c)] : On(cache, m) => cache[m] \in SUBSET Obs
    BY <2>1, StoreAssumption, ContentType
  <2>3. held' \in [Clients -> SUBSET Obs]
    BY <1>3, <2>2 DEF LoadSimilar
  <2> QED
    BY <1>3, <2>3 DEF LoadSimilar, CallInv
<1>4. CASE LoadMisses(c)
  BY <1>4 DEF LoadMisses, CallInv
<1>5. CASE Resolve(c)
  <2>1. Service(c) \in Services
    BY <1>5, ServiceType DEF Resolve
  <2>2. Resolved(Service(c)) \subseteq Services
    BY <2>1, StoreAssumption DEF Resolved
  <2> QED
    BY <1>5, <2>2 DEF Resolve, CallInv
<1>6. CASE ReadFile(c) \/ ReadFails(c)
  <2>1. from[c] \in Services
    BY <1>6 DEF ReadFile, ReadFails, CallInv
  <2>2. Content(disk[from[c]]) \in SUBSET Obs
    BY <2>1, ContentType
  <2>3. lost' \in [Services -> SUBSET Obs]
    BY <1>6, <2>1, <2>2 DEF ReadFile, ReadFails
  <2> QED
    BY <1>6, <2>2, <2>3 DEF ReadFile, ReadFails, CallInv
<1>7. CASE FillCache(c)
  <2>1. from[c] \in Services /\ held[c] \in Specs
    BY <1>7 DEF FillCache, CallInv, Specs
  <2> QED
    BY <1>7, <2>1 DEF FillCache, CallInv
<1>8. CASE Save(c)
  <2>1. Service(c) \in Services /\ obs[c] \in Obs
    BY <1>8, ServiceType DEF Save, CallInv, Obs
  <2>2. held[c] \cup {obs[c]} \in Specs
    BY <2>1 DEF Specs
  <2> QED
    BY <1>8, <2>1, <2>2 DEF Save, CallInv
<1>9. ASSUME NEW s \in Services, DeleteCached(c, s)
      PROVE  TypeOK' /\ CallInv'
  <2>1. <<s, 0>> \in Services \X (0..MaxObs) /\ NoSpec \in Specs
    BY StoreAssumption DEF Specs
  <2> QED
    BY <1>9, <2>1 DEF DeleteCached, CallInv
<1>10. CASE Unlink(c)
  BY <1>10 DEF Unlink, CallInv, Specs
<1>11. CASE ClearCached(c)
  BY <1>11 DEF ClearCached, CallInv, Specs, All
<1>12. CASE ClearLists(c)
  BY <1>12 DEF ClearLists, CallInv
<1>13. CASE ClearUnlinks(c)
  BY <1>13 DEF ClearUnlinks, CallInv, Specs
<1>14. CASE ClearEnds(c)
  BY <1>14 DEF ClearEnds, CallInv
<1> QED
  BY <1>1, <1>2, <1>3, <1>4, <1>5, <1>6, <1>7, <1>8, <1>9, <1>10, <1>11, <1>12, <1>13, <1>14
  DEF Update, Remove

\* So does a step of a flusher: it holds a copy exactly while it writes.
LEMMA FlushType ==
  ASSUME TypeOK, Flushing
  PROVE  TypeOK'
<1> USE DEF TypeOK, FlusherPCs, Goto, store, clientVars, histories
<1>1. CASE LoopChecks
  BY <1>1 DEF LoopChecks
<1>2. CASE LoopWakes
  BY <1>2 DEF LoopWakes
<1>3. CASE CloseStops
  BY <1>3 DEF CloseStops
<1>4. CASE CloseFlushes
  BY <1>4 DEF CloseFlushes
<1>5. ASSUME NEW f \in Flushers, Flush(f)
      PROVE  TypeOK'
  <2>1. CASE CopySpec(f)
    <3> PICK s \in todo[f] : /\ On(cache, s)
                             /\ todo' = [todo EXCEPT ![f] = @ \ {s}]
                             /\ cur' = [cur EXCEPT ![f] = s]
                             /\ copy' = [copy EXCEPT ![f] = cache[s]]
      BY <2>1 DEF CopySpec
    <3>1. s \in Services /\ s # NoSpec /\ cache[s] \in SUBSET Obs
      BY StoreAssumption, ContentType
    <3> QED
      BY <2>1, <3>1 DEF CopySpec
  <2>2. CASE SkipDeleted(f)
    BY <2>2 DEF SkipDeleted
  <2>3. CASE Replace(f)
    <3>1. cur[f] \in Services
      BY <2>3 DEF Replace
    <3> PICK written \in SUBSET copy[f] :
                /\ disk' = [disk EXCEPT ![cur[f]] = written]
                /\ lost' = [lost EXCEPT ![cur[f]] = @ \cup (copy[f] \ written)]
      BY <2>3 DEF Replace
    <3>2. disk' \in [Services -> Specs] /\ lost' \in [Services -> SUBSET Obs]
      BY <3>1 DEF Specs
    <3> QED
      BY <2>3, <3>2 DEF Replace
  <2>4. CASE WriteFails(f)
    BY <2>4 DEF WriteFails
  <2>5. CASE Clean(f)
    BY <2>5 DEF Clean, Mark
  <2>6. CASE Restore(f)
    BY <2>6 DEF Restore, Mark
  <2>7. CASE FlushEnds(f)
    BY <2>7 DEF FlushEnds
  <2> QED
    BY <1>5, <2>1, <2>2, <2>3, <2>4, <2>5, <2>6, <2>7 DEF Flush
<1> QED
  BY <1>1, <1>2, <1>3, <1>4, <1>5 DEF Flushing

\* A flusher touches neither the cache nor the calls.
LEMMA FlushLeaves ==
  ASSUME Flushing
  PROVE  UNCHANGED <<cache, clientVars, done, raced>>
BY DEF histories, Flushing, LoopChecks, LoopWakes, CloseStops, CloseFlushes, Flush, CopySpec, SkipDeleted,
       Replace, WriteFails, Clean, Restore, Mark, FlushEnds, store, flusherVars

\* Every step keeps the types.
LEMMA TypeStep == TypeOK /\ CallInv /\ [Next]_vars => TypeOK' /\ CallInv'
<1> SUFFICES ASSUME TypeOK, CallInv, [Next]_vars
             PROVE  TypeOK' /\ CallInv'
  OBVIOUS
<1>1. CASE Flushing
  <2>1. CallInv'
    BY <1>1, FlushLeaves DEF CallInv, clientVars
  <2> QED
    BY <1>1, <2>1, FlushType
<1>2. CASE Restart
  <2>1. TypeOK'
    BY <1>2, StoreAssumption DEF Restart, TypeOK, Specs, All, Fresh, ClientPCs, FlusherPCs
  <2>2. CallInv'
    BY <1>2 DEF Restart, CallInv, All, Updating
  <2> QED
    BY <2>1, <2>2
<1>3. CASE UNCHANGED vars
  BY <1>3 DEF vars, store, clientVars, flusherVars, histories, TypeOK, CallInv
<1> QED
  BY <1>1, <1>2, <1>3, ClientType DEF Next

-----------------------------------------------------------------------------
(* One caller                                                              *)

\* _resolve_path() finds a file whose name contains the service's; its own is
\* the only one where names are distinct, as they are when specs are deleted.
LEMMA OwnFile ==
  ASSUME NEW s \in Services
  PROVE  /\ Resolved(s) \subseteq Contains[s] /\ Resolved(s) \subseteq Services
         /\ UsedByOne /\ "delete" \in ClientOps => Resolved(s) = {s}
BY StoreAssumption DEF UsedByOne, DistinctNames, Distinctive, Resolved

\* The client that takes a step is the only one.
LEMMA OnlyOne ==
  ASSUME UsedByOne, NEW c \in Clients, NEW d \in Clients
  PROVE  c = d
BY DEF UsedByOne, OneCaller

\* What Update and Remove leave to the flushers.
LEMMA ClientLeaves ==
  ASSUME NEW c \in Clients, Update(c) \/ Remove(c)
  PROVE  UNCHANGED flusherVars
BY DEF Update, UpdateCall, LoadCached, LoadSimilar, LoadMisses, Resolve, ReadFile, ReadFails,
       FillCache, Save,
       Remove, DeleteCached, Unlink, ClearCached, ClearLists, ClearUnlinks, ClearEnds

\* A call that finds nothing cached keeps it so, with the file it reads, which
\* nobody else removes.
LEMMA PathsStep ==
  ASSUME UsedByOne, TypeOK, CallInv, Paths, [Next]_vars
  PROVE  Paths'
<1>1. ASSUME NEW c \in Clients, Update(c) \/ Remove(c)
      PROVE  Paths'
  <2> USE DEF Step, Service, On
  <2>0. \A d \in Clients : d = c
    BY OnlyOne
  <2>t. client \in [Clients -> ClientPCs] /\ obs \in [Clients -> {NoSpec} \cup (Services \X (0..MaxObs))]
        /\ from \in [Clients -> Services \cup {NoSpec}]
        /\ cache \in [Services -> Specs] /\ disk \in [Services -> Specs]
    BY DEF TypeOK
  <2>s. client[c] \in Updating \cup {"unlink"} => Service(c) \in Services
    BY ServiceType
  <2>1. ASSUME NEW s \in Services, UpdateCall(c, s)
        PROVE  Paths'
    BY <2>0, <2>t, <2>1 DEF UpdateCall, store, Paths
  <2>2. CASE LoadCached(c)
    BY <2>0, <2>t, <2>2 DEF LoadCached, store, Paths
  <2>3. CASE LoadSimilar(c)
    BY <2>0, <2>t, <2>3 DEF LoadSimilar, store, Paths
  <2>4. CASE LoadMisses(c)
    BY <2>0, <2>t, <2>4 DEF LoadMisses, store, Paths
  <2>5. CASE Resolve(c)
    <3>1. Service(c) \in Services /\ Resolved(Service(c)) \subseteq Contains[Service(c)]
      BY <2>5, ServiceType, OwnFile DEF Resolve, Updating
    <3>2. PICK m \in Resolved(Service(c)) :
                 /\ client' = [client EXCEPT ![c] = IF On(disk, m) THEN "read" ELSE "save"]
                 /\ from' = [from EXCEPT ![c] = m]
      BY <2>5 DEF Resolve
    <3>3. /\ client[c] = "resolve" /\ UNCHANGED <<cache, disk, obs>>
          /\ client'[c] = IF On(disk, m) THEN "read" ELSE "save"
          /\ from'[c] = m /\ m \in Contains[Service(c)]
      BY <2>t, <2>5, <3>1, <3>2 DEF Resolve, store
    <3> QED
      BY <2>0, <3>3 DEF Paths
  <2>6. CASE ReadFile(c) \/ ReadFails(c)
    <3>1. client[c] = "read" /\ client'[c] = "fill" /\ UNCHANGED <<cache, disk, obs, from>>
      BY <2>t, <2>6 DEF ReadFile, ReadFails, store
    <3> QED
      BY <2>0, <3>1 DEF Paths
  <2>7. CASE FillCache(c)
    <3>1. client'[c] = "save"
      BY <2>t, <2>7 DEF FillCache
    <3> QED
      BY <2>0, <3>1 DEF Paths
  <2>8. CASE Save(c)
    BY <2>0, <2>t, <2>8 DEF Save, Paths
  <2>9. ASSUME NEW s \in Services, DeleteCached(c, s)
        PROVE  Paths'
    <3>1. obs'[c] = <<s, 0>> /\ client'[c] = "unlink" /\ cache'[s] = NoSpec
      BY <2>t, <2>9 DEF DeleteCached
    <3> QED
      BY <2>0, <3>1 DEF Home, Paths
  <2>10. CASE Unlink(c)
    <3>1. client'[c] = "idle"
      BY <2>t, <2>10 DEF Unlink
    <3> QED
      BY <2>0, <3>1 DEF Paths
  <2>11. CASE ClearCached(c)
    BY <2>0, <2>t, <2>11 DEF ClearCached, All, Paths
  <2>12. CASE ClearLists(c)
    BY <2>0, <2>t, <2>12 DEF ClearLists, store, Paths
  <2>13. CASE ClearUnlinks(c)
    BY <2>0, <2>t, <2>13 DEF ClearUnlinks, Paths
  <2>14. CASE ClearEnds(c)
    BY <2>0, <2>t, <2>14 DEF ClearEnds, store, Paths
  <2> QED
    BY <1>1, <2>1, <2>2, <2>3, <2>4, <2>5, <2>6, <2>7, <2>8, <2>9, <2>10, <2>11, <2>12, <2>13, <2>14
    DEF Update, Remove
<1>2. CASE Flushing
  <2>1. UNCHANGED <<cache, clientVars>>
    BY <1>2, FlushLeaves
  <2>2. \A s \in Services : On(disk, s) => On(disk, s)'
    <3>1. ASSUME NEW f \in Flushers, Replace(f)
          PROVE  \A s \in Services : On(disk, s) => On(disk, s)'
      BY <3>1, StoreAssumption DEF Replace, TypeOK, On, Specs
    <3>2. disk' = disk \/ \E f \in Flushers : Replace(f)
      BY <1>2 DEF Flushing, LoopChecks, LoopWakes, CloseStops, CloseFlushes, Flush, CopySpec,
                  SkipDeleted, WriteFails, Clean, Restore, Mark, FlushEnds, store
    <3> QED
      BY <3>1, <3>2 DEF On
  <2>3. \A c \in Clients : client[c] \in {"read", "fill"} => from[c] \in Services
    BY DEF CallInv
  <2> QED
    BY <2>1, <2>2, <2>3 DEF Paths, clientVars, Service, On
<1>3. CASE Restart
  BY <1>3 DEF Restart, All, Paths
<1>4. CASE UNCHANGED vars
  BY <1>4 DEF vars, store, clientVars, Paths, On, Service
<1> QED
  BY <1>1, <1>2, <1>3, <1>4 DEF Next

-----------------------------------------------------------------------------
(* Nothing recorded is forgotten                                           *)

\* Nothing that was lost in this run of the process is found again.
LEMMA LostGrows ==
  ASSUME TypeOK, CallInv, (\E c \in Clients : Update(c) \/ Remove(c)) \/ Flushing,
         NEW s \in Services
  PROVE  lost[s] \subseteq lost'[s]
<1>1. ASSUME NEW c \in Clients, ReadFails(c) PROVE lost[s] \subseteq lost'[s]
  BY <1>1 DEF ReadFails, TypeOK, CallInv
<1>2. ASSUME NEW f \in Flushers, Replace(f) PROVE lost[s] \subseteq lost'[s]
  BY <1>2 DEF Replace, TypeOK
<1>3. \/ lost' = lost
      \/ \E c \in Clients : ReadFails(c)
      \/ \E f \in Flushers : Replace(f)
  BY DEF histories, Update, UpdateCall, LoadCached, LoadSimilar, LoadMisses, Resolve,
         ReadFile, FillCache, Save, Remove, DeleteCached, Unlink, ClearCached, ClearLists,
         ClearUnlinks, ClearEnds, Flushing, LoopChecks, LoopWakes, CloseStops, CloseFlushes, Flush,
         CopySpec, SkipDeleted, WriteFails, Clean, Restore, Mark, FlushEnds
<1> QED
  BY <1>1, <1>2, <1>3

\* What the client holds, caches and removes keeps every recorded observation.
LEMMA KeptByClient ==
  ASSUME UsedByOne, TypeOK, CallInv, Paths, Kept, NEW c \in Clients, Update(c) \/ Remove(c)
  PROVE  Kept'
<1> USE DEF Step, Service, On, Distinctive
<1>0. \A d \in Clients : d = c
  BY OnlyOne
<1>1. /\ client \in [Clients -> ClientPCs] /\ held \in [Clients -> SUBSET Obs]
      /\ obs \in [Clients -> {NoSpec} \cup (Services \X (0..MaxObs))]
      /\ from \in [Clients -> Services \cup {NoSpec}]
      /\ cache \in [Services -> Specs] /\ disk \in [Services -> Specs]
      /\ lost \in [Services -> SUBSET Obs]
      /\ \A o \in done : o \in Obs /\ Home(o) \in Services
      /\ cur' = cur /\ flusher' = flusher
  BY ClientLeaves DEF TypeOK, flusherVars, Obs, Home
<1>2. /\ client[c] \in Updating \cup {"unlink"} => Service(c) \in Services
      /\ client[c] \in {"resolve", "read", "fill"} =>
            \A m \in Contains[Service(c)] : ~On(cache, m)
      /\ client[c] \in {"read", "fill"} =>
            from[c] \in Contains[Service(c)] /\ from[c] \in Services
      /\ client[c] \in {"resolve", "unlink"} => ~On(cache, Service(c))
  BY ServiceType DEF Paths, CallInv
\* Calls that only move on, or that hold more of the spec than before.
<1>3. ASSUME UNCHANGED <<cache, disk, done>>, client'[c] \notin {"list", "clear", "unlink"},
             \A s \in Services : lost[s] \subseteq lost'[s],
             \A o \in done :
                /\ Distinctive(Home(o))
                /\ \/ client'[c] = "fill" /\ from'[c] = Home(o)
                   \/ client'[c] = "save" /\ Service(c)' = Home(o)
                => o \in held'[c] \cup lost'[Home(o)]
      PROVE  Kept'
  BY <1>0, <1>1, <1>3 DEF Kept
<1>4. ASSUME NEW s \in Services, UpdateCall(c, s)
      PROVE  Kept'
  BY <1>1, <1>3, <1>4 DEF UpdateCall, store, histories
<1>5. CASE LoadCached(c)
  BY <1>1, <1>2, <1>3, <1>5 DEF LoadCached, store, histories, Kept, Updating
<1>6. CASE LoadSimilar(c)
  <2>1. \A o \in done : Distinctive(Home(o)) /\ Service(c) = Home(o) => FALSE
    BY <1>6 DEF LoadSimilar, Paths
  <2>2. client'[c] = "save" /\ UNCHANGED <<cache, disk, done, lost, obs>>
    BY <1>1, <1>6 DEF LoadSimilar, store, histories
  <2> QED
    BY <1>3, <2>1, <2>2
<1>7. CASE LoadMisses(c)
  BY <1>1, <1>3, <1>7 DEF LoadMisses, store, histories
<1>8. CASE Resolve(c)
  <2>1. PICK m \in Resolved(Service(c)) :
               /\ client' = [client EXCEPT ![c] = IF On(disk, m) THEN "read" ELSE "save"]
               /\ held' = [held EXCEPT ![c] = {}] /\ from' = [from EXCEPT ![c] = m]
    BY <1>8 DEF Resolve
  <2>2. client[c] = "resolve" /\ UNCHANGED <<cache, disk, done, lost, obs>>
    BY <1>8 DEF Resolve, store, histories
  <2>3. m \in Contains[Service(c)]
    BY <1>2, <2>2, OwnFile DEF Updating
  <2>4. ASSUME NEW o \in done, Distinctive(Home(o)), Service(c) = Home(o), ~On(disk, m)
        PROVE  o \in lost[Home(o)]
    <3>1. m = Home(o)
      BY <2>3, <2>4
    <3>2. Content(disk[Home(o)]) = {} /\ ~On(cache, Home(o))
      BY <1>2, <2>2, <2>4, <3>1 DEF Content
    <3> QED
      BY <2>4, <3>2 DEF Kept
  <2> QED
    BY <1>1, <1>3, <2>1, <2>2, <2>4
<1>9. CASE ReadFile(c) \/ ReadFails(c)
  <2>1. /\ client[c] = "read" /\ client'[c] = "fill" /\ UNCHANGED <<cache, disk, done, obs, from>>
        /\ \A s \in Services : lost[s] \subseteq lost'[s]
    BY <1>1, <1>2, <1>9 DEF ReadFile, ReadFails, store, histories
  <2>2. Content(disk[from[c]]) \subseteq held'[c] \cup lost'[from[c]]
    BY <1>1, <1>2, <1>9, <2>1 DEF ReadFile, ReadFails
  <2>3. ~On(cache, from[c])
    BY <1>2, <2>1
  <2> QED
    BY <1>1, <1>2, <1>3, <2>1, <2>2, <2>3 DEF Kept
<1>10. CASE FillCache(c)
  <2>1. /\ client[c] = "fill" /\ client' = [client EXCEPT ![c] = "save"]
        /\ cache' = [cache EXCEPT ![from[c]] = held[c]]
        /\ UNCHANGED <<disk, obs, held, from, done, lost>>
    BY <1>10 DEF FillCache, histories
  <2>2. /\ from[c] \in Services /\ cache'[from[c]] = held[c] /\ held[c] # NoSpec
        /\ \A s \in Services : s # from[c] => cache'[s] = cache[s]
    BY <1>1, <1>2, <2>1, StoreAssumption
  <2>3. \A s \in Services : Distinctive(s) /\ Service(c) = s => from[c] = s
    BY <1>2, <2>1
  <2>4. client'[c] = "save"
    BY <1>1, <2>1
  <2> QED
    BY <1>0, <1>1, <1>2, <2>1, <2>2, <2>3, <2>4 DEF Kept
<1>11. CASE Save(c)
  <2>1. /\ client[c] = "save" /\ client' = [client EXCEPT ![c] = "idle"]
        /\ cache' = [cache EXCEPT ![Service(c)] = held[c] \cup {obs[c]}]
        /\ done' = done \cup {obs[c]} /\ disk' = disk /\ lost' = lost
    BY <1>11 DEF Save
  <2>2. /\ Service(c) \in Services /\ obs[c] \in Obs /\ client'[c] = "idle"
        /\ cache'[Service(c)] = held[c] \cup {obs[c]}
        /\ held[c] \cup {obs[c]} # NoSpec
        /\ \A s \in Services : s # Service(c) => cache'[s] = cache[s]
    <3>1. Service(c) \in Services /\ obs[c] \in Obs /\ client'[c] = "idle"
      BY <1>1, <1>2, <2>1 DEF Updating, CallInv, Obs
    <3>2. held[c] \cup {obs[c]} \in SUBSET Obs
      BY <1>1, <3>1
    <3> QED
      BY <1>1, <2>1, <3>1, <3>2, StoreAssumption
  <2> QED
    BY <1>0, <1>1, <2>1, <2>2 DEF Kept
<1>12. ASSUME NEW s \in Services, DeleteCached(c, s)
       PROVE  Kept'
  <2>1. client'[c] = "unlink" /\ Home(obs'[c]) = s
    BY <1>1, <1>12 DEF DeleteCached, Home
  <2>2. cache' = [cache EXCEPT ![s] = NoSpec] /\ disk' = disk /\ lost' = lost
        /\ done' = {o \in done : Home(o) # s}
    BY <1>12 DEF DeleteCached
  <2> QED
    BY <1>0, <1>1, <2>1, <2>2 DEF Kept
<1>13. CASE Unlink(c)
  <2>1. /\ client[c] = "unlink" /\ client' = [client EXCEPT ![c] = "idle"]
        /\ disk' = [disk EXCEPT ![Service(c)] = NoSpec] /\ UNCHANGED <<cache, done, lost>>
    <3>1. client[c] = "unlink" /\ "delete" \in ClientOps
      BY <1>13 DEF Unlink, CallInv
    <3>2. Service(c) \in Services /\ Resolved(Service(c)) = {Service(c)}
      BY <1>2, <3>1, OwnFile
    <3> QED
      BY <1>13, <3>1, <3>2 DEF Unlink, histories
  <2>2. \A o \in done : Distinctive(Home(o)) =>
            Home(o) # Service(c) /\ disk'[Home(o)] = disk[Home(o)]
    BY <1>1, <2>1 DEF Kept
  <2> QED
    BY <1>0, <1>1, <2>1, <2>2 DEF Kept
<1>14. CASE ClearCached(c)
  BY <1>14 DEF ClearCached, Kept
<1>15. CASE ClearLists(c) \/ ClearUnlinks(c) \/ ClearEnds(c)
  <2>1. \A o \in done : ~Distinctive(Home(o))
    BY <1>15 DEF ClearLists, ClearUnlinks, ClearEnds, Kept
  <2>2. done' = done
    BY <1>15 DEF ClearLists, ClearUnlinks, ClearEnds, histories
  <2> QED
    BY <2>1, <2>2 DEF Kept
<1> QED
  BY <1>4, <1>5, <1>6, <1>7, <1>8, <1>9, <1>10, <1>11, <1>12, <1>13, <1>14, <1>15
  DEF Update, Remove

\* The flushers write only services that are cached, or of which nothing is
\* to be kept.
LEMMA KeptStep ==
  ASSUME UsedByOne, TypeOK, CallInv, Paths, Kept, [Next]_vars
  PROVE  Kept'
<1>0. \A o \in done : Home(o) \in Services
  BY DEF TypeOK, Obs, Home
<1>1. CASE Flushing
  <2>1. UNCHANGED <<cache, done, client, obs, held, from>>
    BY <1>1, FlushLeaves DEF clientVars
  <2> USE DEF On
  <2>0. \A s \in Services : lost[s] \subseteq lost'[s]
    BY <1>1, LostGrows
  <2>2. ASSUME NEW f \in Flushers, CopySpec(f)
        PROVE  Kept'
    <3>1. PICK s \in todo[f] : On(cache, s) /\ cur' = [cur EXCEPT ![f] = s]
      BY <2>2 DEF CopySpec
    <3>2. disk' = disk
      BY <2>2 DEF CopySpec, store
    <3> QED
      BY <1>0, <2>0, <2>1, <3>1, <3>2 DEF Kept, Service, TypeOK
  <2>3. ASSUME NEW f \in Flushers, Replace(f)
        PROVE  Kept'
    <3>1. cur' = cur /\ \A s \in Services : s # cur[f] => disk'[s] = disk[s]
      BY <2>3 DEF Replace, TypeOK
    <3> QED
      BY <1>0, <2>0, <2>1, <3>1 DEF Kept, Service
  <2>4. ASSUME NEW f \in Flushers, Clean(f) \/ Restore(f)
        PROVE  Kept'
    <3>1. disk' = disk /\ cur' = [cur EXCEPT ![f] = NoSpec]
      BY <2>4 DEF Clean, Restore, Mark
    <3> QED
      BY <1>0, <2>0, <2>1, <3>1, StoreAssumption DEF Kept, Service, TypeOK
  <2>5. CASE UNCHANGED <<disk, cur>>
    BY <1>0, <2>0, <2>1, <2>5 DEF Kept, Service
  <2> QED
    BY <1>1, <2>2, <2>3, <2>4, <2>5
    DEF Flushing, LoopChecks, LoopWakes, CloseStops, CloseFlushes, Flush, SkipDeleted, WriteFails,
        FlushEnds, store
<1>2. CASE Restart
  BY <1>0, <1>2, StoreAssumption DEF Restart, All, Kept, On
<1>3. CASE UNCHANGED vars
  BY <1>3 DEF vars, store, clientVars, flusherVars, histories, Kept, On, Service
<1> QED
  BY <1>1, <1>2, <1>3, KeptByClient DEF Next

-----------------------------------------------------------------------------
(* Files hold a spec as it was at one moment                               *)

\* A closed spec stays closed when updates are announced or observations
\* forgotten; an empty one always is.
LEMMA ClosedStays ==
  ASSUME NEW s, NEW spec, NEW n \in Nat, NEW m \in Nat, n <= m,
         NEW recorded, NEW kept, kept \subseteq recorded, Closed(spec, s, n, recorded)
  PROVE  Closed(spec, s, m, kept)
BY DEF Closed

\* An empty spec is closed.
LEMMA ClosedEmpty ==
  ASSUME NEW s, NEW n, NEW recorded PROVE Closed({}, s, n, recorded)
BY DEF Closed

\* The n-th observation closes a spec that has all recorded before it, and
\* recording it opens no other.
LEMMA ClosedSave ==
  ASSUME NEW s, NEW spec, NEW n \in 0..MaxObs, NEW recorded, Closed(spec, s, n, recorded)
  PROVE  /\ Closed(spec, s, n, recorded \cup {<<s, n>>})
         /\ (\A i \in 1..MaxObs : <<s, i>> \in recorded => <<s, i>> \in spec)
              => Closed(spec \cup {<<s, n>>}, s, n, recorded \cup {<<s, n>>})
<1>1. MaxObs \in Nat
  BY StoreAssumption
<1>2. \A j : <<s, j>> = <<s, n>> <=> j = n
  OBVIOUS
<1> QED
  BY <1>1, <1>2 DEF Closed

\* What the client holds and caches is closed.
LEMMA OrderedByClient ==
  ASSUME UsedByOne, TypeOK, CallInv, Paths, Kept, Ordered, NEW c \in Clients,
         Update(c) \/ Remove(c)
  PROVE  Ordered'
<1> USE DEF Step, Service, On
<1>0. \A d \in Clients : d = c
  BY OnlyOne
<1>1. /\ client \in [Clients -> ClientPCs] /\ held \in [Clients -> SUBSET Obs]
      /\ obs \in [Clients -> {NoSpec} \cup (Services \X (0..MaxObs))]
      /\ from \in [Clients -> Services \cup {NoSpec}]
      /\ cache \in [Services -> Specs] /\ disk \in [Services -> Specs]
      /\ calls \in [Services -> 0..MaxObs] /\ MaxObs \in Nat
      /\ cur' = cur /\ copy' = copy
  BY ClientLeaves, StoreAssumption DEF TypeOK, flusherVars
<1>2. /\ client[c] \in Updating \cup {"unlink"} => Service(c) \in Services
      /\ client[c] \in {"read", "fill"} =>
            from[c] \in Contains[Service(c)] /\ from[c] \in Services
  BY ServiceType DEF Paths, CallInv
<1>l. \A s \in Services : lost[s] \subseteq lost'[s]
  BY LostGrows
<1>s. \A s \in Services : Distinctive(s) => OrderedSpec(s) /\ Contains[s] = {s}
  BY DEF Ordered, Distinctive
\* What a call that only moves on, and forgets observations at most, leaves of
\* one service.
<1>3. ASSUME NEW s \in Services, OrderedSpec(s), done' \subseteq done, calls' = calls,
             cache'[s] \in {cache[s], NoSpec}, disk'[s] \in {disk[s], NoSpec},
             client'[c] = "fill" /\ from'[c] = s => ClosedNow(held'[c], s),
             client'[c] = "save" /\ Service(c)' = s => ClosedNow(held'[c], s),
             client'[c] \in Updating => client[c] \in Updating /\ obs' = obs
      PROVE  OrderedSpec(s)'
  <2>1. calls[s] \in Nat /\ done' \ lost'[s] \subseteq done \ lost[s]
    BY <1>1, <1>3, <1>l
  <2>2. \A spec : ClosedNow(spec, s) => Closed(spec, s, calls[s], done' \ lost'[s])
    BY <2>1, ClosedStays DEF ClosedNow
  <2>3. /\ Closed(Content(cache'[s]), s, calls[s], done' \ lost'[s])
        /\ Closed(Content(disk'[s]), s, calls[s], done' \ lost'[s])
    BY <1>3, <2>2, ClosedEmpty DEF Content, OrderedSpec
  <2>4. client'[c] \in Updating /\ Service(c)' = s => obs'[c] = <<s, calls[s]>>
    BY <1>3 DEF OrderedSpec
  <2> QED
    BY <1>0, <1>1, <1>3, <2>2, <2>3, <2>4 DEF OrderedSpec, ClosedNow
<1>4. ASSUME NEW t \in Services, UpdateCall(c, t)
      PROVE  Ordered'
  <2>1. /\ client[c] = "idle" /\ client'[c] = "cache" /\ obs'[c] = <<t, calls[t] + 1>>
        /\ UNCHANGED <<cache, disk, held, done, lost>>
        /\ calls'[t] = calls[t] + 1 /\ \A s \in Services : calls[s] <= calls'[s] /\ calls'[s] \in Nat
    BY <1>1, <1>4 DEF UpdateCall, store, histories
  <2>2. Home(obs'[c]) = t
    BY <2>1 DEF Home
  <2>3. ASSUME NEW s \in Services, OrderedSpec(s) PROVE OrderedSpec(s)'
    <3>1. \A spec : ClosedNow(spec, s) => Closed(spec, s, calls'[s], done' \ lost'[s])
      BY <1>1, <2>1, ClosedStays DEF ClosedNow
    <3> QED
      BY <1>0, <1>1, <2>1, <2>2, <2>3, <3>1 DEF OrderedSpec, ClosedNow
  <2> QED
    BY <2>3 DEF Ordered, Distinctive
<1>5. CASE LoadCached(c)
  <2>1. ASSUME NEW s \in Services, OrderedSpec(s) PROVE OrderedSpec(s)'
    <3>1. On(cache, s) => ClosedNow(cache[s], s)
      BY <2>1 DEF OrderedSpec, Content
    <3> QED
      BY <1>1, <1>3, <1>5, <2>1, <3>1 DEF LoadCached, store, histories, Updating
  <2> QED
    BY <2>1 DEF Ordered, Distinctive
<1>6. CASE LoadSimilar(c)
  <2>1. \A s \in Services : Distinctive(s) => Service(c) # s
    BY <1>6 DEF LoadSimilar, Paths, Distinctive
  <2>2. /\ client[c] = "fuzzy" /\ client'[c] = "save"
        /\ UNCHANGED <<cache, disk, done, obs, calls, lost>>
    BY <1>1, <1>6 DEF LoadSimilar, store, histories
  <2>3. ASSUME NEW s \in Services, Distinctive(s) PROVE OrderedSpec(s)'
    BY <1>3, <1>s, <2>1, <2>2, <2>3 DEF Updating
  <2> QED
    BY <2>3 DEF Ordered, Distinctive
<1>7. CASE LoadMisses(c)
  <2>1. ASSUME NEW s \in Services, OrderedSpec(s) PROVE OrderedSpec(s)'
    BY <1>1, <1>3, <1>7, <2>1 DEF LoadMisses, store, histories, Updating
  <2> QED
    BY <2>1 DEF Ordered, Distinctive
<1>8. CASE Resolve(c)
  <2>1. ASSUME NEW s \in Services, OrderedSpec(s) PROVE OrderedSpec(s)'
    <3>1. client'[c] \in {"read", "save"} /\ held'[c] = {}
      BY <1>1, <1>8 DEF Resolve
    <3>2. ClosedNow(held'[c], s)
      BY <3>1, ClosedEmpty DEF ClosedNow
    <3> QED
      BY <1>3, <1>8, <2>1, <3>1, <3>2 DEF Resolve, store, histories, Updating
  <2> QED
    BY <2>1 DEF Ordered, Distinctive
<1>9. CASE ReadFile(c) \/ ReadFails(c)
  <2>1. /\ client[c] = "read" /\ client'[c] = "fill"
        /\ UNCHANGED <<cache, disk, done, obs, from, calls>>
        /\ held'[c] \in {{}, Content(disk[from[c]])}
    BY <1>1, <1>9 DEF ReadFile, ReadFails, store, histories
  <2>2. ASSUME NEW s \in Services, OrderedSpec(s) PROVE OrderedSpec(s)'
    <3>1. from'[c] = s => ClosedNow(held'[c], s)
      BY <2>1, <2>2, ClosedEmpty DEF OrderedSpec, ClosedNow
    <3> QED
      BY <1>3, <2>1, <2>2, <3>1 DEF Updating
  <2> QED
    BY <2>2 DEF Ordered, Distinctive
<1>10. CASE FillCache(c)
  <2>1. /\ client[c] = "fill" /\ client'[c] = "save"
        /\ cache' = [cache EXCEPT ![from[c]] = held[c]]
        /\ UNCHANGED <<disk, obs, held, from, done, lost, calls>>
    BY <1>1, <1>10 DEF FillCache, histories
  <2>2. /\ from[c] \in Services /\ Content(cache'[from[c]]) = held[c]
        /\ \A s \in Services : s # from[c] => cache'[s] = cache[s]
    BY <1>1, <1>2, <2>1, StoreAssumption DEF Content
  <2>3. ASSUME NEW s \in Services, Distinctive(s) PROVE OrderedSpec(s)'
    <3>1. OrderedSpec(s) /\ (Service(c) = s => from[c] = s)
      BY <1>2, <1>s, <2>1, <2>3
    <3>2. from[c] = s => ClosedNow(held[c], s)
      BY <2>1, <3>1 DEF OrderedSpec
    <3>3. ClosedNow(Content(cache'[s]), s)
      BY <2>2, <3>1, <3>2 DEF OrderedSpec
    <3> QED
      BY <1>0, <1>1, <2>1, <3>1, <3>2, <3>3 DEF OrderedSpec, ClosedNow, Updating
  <2> QED
    BY <2>3 DEF Ordered, Distinctive
<1>11. CASE Save(c)
  <2> DEFINE h == Service(c)  n == calls[h]
  <2>1. /\ client[c] = "save" /\ client'[c] = "idle" /\ h \in Services
        /\ cache' = [cache EXCEPT ![h] = held[c] \cup {obs[c]}]
        /\ done' = done \cup {obs[c]} /\ UNCHANGED <<disk, calls, lost>>
    BY <1>1, <1>2, <1>11 DEF Save, Updating
  <2>2. n \in 0..MaxObs /\ n \in Nat /\ Home(obs[c]) = h
    BY <1>1, <2>1
  <2>3. held[c] \cup {obs[c]} # NoSpec
    <3>1. obs[c] \in Obs
      BY <2>1 DEF CallInv, Updating, Obs
    <3>2. held[c] \cup {obs[c]} \in SUBSET Obs
      BY <1>1, <3>1
    <3> QED
      BY <3>2, StoreAssumption
  <2>4. /\ Content(cache'[h]) = held[c] \cup {obs[c]}
        /\ \A s \in Services : s # h => cache'[s] = cache[s]
    BY <1>1, <2>1, <2>3 DEF Content
  <2>5. ASSUME NEW s \in Services, Distinctive(s), s # h PROVE OrderedSpec(s)'
    <3>1. \A i : <<s, i>> # obs[c]
      BY <2>2, <2>5 DEF Home
    <3> HIDE DEF h, n
    <3>2. \A spec : ClosedNow(spec, s) => Closed(spec, s, calls[s], done' \ lost'[s])
      BY <2>1, <3>1 DEF Closed, ClosedNow
    <3>3. OrderedSpec(s) /\ cache'[s] = cache[s]
      BY <1>s, <2>4, <2>5
    <3> QED
      BY <1>0, <1>1, <2>1, <3>2, <3>3 DEF OrderedSpec, ClosedNow, Updating
  <2>6. ASSUME NEW s \in Services, Distinctive(s), s = h PROVE OrderedSpec(s)'
    <3>1. obs[c] = <<s, n>> /\ Closed(held[c], s, n, done \ lost[s]) /\ OrderedSpec(s)
      BY <1>s, <2>1, <2>6 DEF OrderedSpec, ClosedNow, Updating
    <3>2. \A i \in 1..MaxObs : <<s, i>> \in done \ lost[s] => <<s, i>> \in held[c]
      BY <2>1, <2>6 DEF Kept, Home
    <3>3. done' \ lost'[s] \subseteq (done \ lost[s]) \cup {<<s, n>>}
      BY <2>1, <3>1
    <3>n. n = calls[s] /\ n \in 0..MaxObs /\ n \in Nat
      BY <2>2, <2>6
    <3> HIDE DEF h, n
    <3>4. Closed(held[c] \cup {<<s, n>>}, s, n, (done \ lost[s]) \cup {<<s, n>>})
      BY <3>n, <3>1, <3>2, ClosedSave
    <3>5. Closed(held[c] \cup {<<s, n>>}, s, n, done' \ lost'[s])
      BY <3>n, <3>3, <3>4, ClosedStays
    <3>6. \A spec : ClosedNow(spec, s) => Closed(spec, s, calls[s], done' \ lost'[s])
      <4> SUFFICES ASSUME NEW spec, ClosedNow(spec, s)
                   PROVE  Closed(spec, s, calls[s], done' \ lost'[s])
        OBVIOUS
      <4>1. Closed(spec, s, n, (done \ lost[s]) \cup {<<s, n>>})
        BY <3>n, ClosedSave DEF ClosedNow
      <4> QED
        BY <3>n, <3>3, <4>1, ClosedStays
    <3>7. Closed(Content(cache'[s]), s, calls[s], done' \ lost'[s])
      BY <2>4, <2>6, <3>n, <3>1, <3>5
    <3> QED
      BY <1>0, <1>1, <2>1, <3>1, <3>6, <3>7 DEF OrderedSpec, ClosedNow, Updating
  <2> QED
    BY <2>5, <2>6 DEF Ordered, Distinctive
<1>12. CASE Remove(c)
  <2>1. /\ done' \subseteq done /\ calls' = calls
        /\ client'[c] \in {"unlink", "idle", "list", "clear"}
        /\ \A s \in Services : /\ cache'[s] \in {cache[s], NoSpec}
                               /\ disk'[s] \in {disk[s], NoSpec}
    BY <1>1, <1>12 DEF Remove, DeleteCached, Unlink, ClearCached, ClearLists, ClearUnlinks,
                       ClearEnds, store, histories, All
  <2>2. ASSUME NEW s \in Services, OrderedSpec(s) PROVE OrderedSpec(s)'
    BY <1>3, <2>1, <2>2 DEF Updating
  <2> QED
    BY <2>2 DEF Ordered, Distinctive
<1> QED
  BY <1>4, <1>5, <1>6, <1>7, <1>8, <1>9, <1>10, <1>11, <1>12 DEF Update

\* A flusher copies closed specs; what a short write cuts off is lost, and what
\* it keeps is closed but for that.  A restart leaves the files and forgets
\* what is in none.
LEMMA OrderedStep ==
  ASSUME UsedByOne, TypeOK, CallInv, Paths, Kept, Ordered, [Next]_vars
  PROVE  Ordered'
<1>1. CASE Flushing
  <2>1. UNCHANGED <<cache, done, calls, client, obs, held, from>>
    BY <1>1, FlushLeaves DEF clientVars
  <2>2. ASSUME NEW s \in Services, OrderedSpec(s), NEW f \in Flushers, CopySpec(f)
        PROVE  OrderedSpec(s)'
    <3>1. PICK t \in todo[f] : /\ On(cache, t) /\ cur' = [cur EXCEPT ![f] = t]
                               /\ copy' = [copy EXCEPT ![f] = cache[t]]
                               /\ disk' = disk /\ lost' = lost
      BY <2>2 DEF CopySpec, store, histories
    <3>2. t = s => ClosedNow(cache[t], s)
      BY <2>2, <3>1 DEF OrderedSpec, Content, On
    <3>3. \A g \in Flushers : /\ g = f => cur'[g] = t /\ copy'[g] = cache[t]
                              /\ g # f => cur'[g] = cur[g] /\ copy'[g] = copy[g]
      BY <3>1 DEF TypeOK
    <3> QED
      BY <2>1, <2>2, <3>1, <3>2, <3>3 DEF OrderedSpec, ClosedNow, Service
  <2>3. ASSUME NEW s \in Services, OrderedSpec(s), NEW f \in Flushers, Replace(f)
        PROVE  OrderedSpec(s)'
    <3>1. PICK written \in SUBSET copy[f] :
                 /\ disk' = [disk EXCEPT ![cur[f]] = written]
                 /\ lost' = [lost EXCEPT ![cur[f]] = @ \cup (copy[f] \ written)]
      BY <2>3 DEF Replace
    <3>2. cur' = cur /\ copy' = copy /\ cur[f] \in Services /\ copy[f] \in SUBSET Obs
      BY <2>3 DEF Replace, Goto, TypeOK
    <3>3. CASE cur[f] = s
      <4>1. Content(disk'[s]) = written /\ lost'[s] = lost[s] \cup (copy[f] \ written)
        BY <3>1, <3>2, <3>3, StoreAssumption DEF TypeOK, Content
      <4>2. calls[s] \in Nat /\ done \ lost'[s] \subseteq done \ lost[s]
        BY <4>1 DEF TypeOK
      <4>3. \A spec : ClosedNow(spec, s) => Closed(spec, s, calls[s], done \ lost'[s])
        BY <4>2, ClosedStays DEF ClosedNow
      <4>4. ClosedNow(copy[f], s)
        BY <2>3, <3>3 DEF OrderedSpec
      <4>5. Closed(written, s, calls[s], done \ lost'[s])
        BY <4>1, <4>4 DEF Closed, ClosedNow
      <4> QED
        BY <2>1, <2>3, <3>2, <4>1, <4>3, <4>5 DEF OrderedSpec, ClosedNow, Service
    <3>4. CASE cur[f] # s
      <4>1. disk'[s] = disk[s] /\ lost'[s] = lost[s]
        BY <3>1, <3>2, <3>4 DEF TypeOK
      <4> QED
        BY <2>1, <2>3, <3>2, <4>1 DEF OrderedSpec, ClosedNow, Service
    <3> QED
      BY <3>3, <3>4
  <2>4. ASSUME NEW s \in Services, OrderedSpec(s), NEW f \in Flushers, Clean(f) \/ Restore(f)
        PROVE  OrderedSpec(s)'
    <3>1. /\ disk' = disk /\ lost' = lost /\ cur' = [cur EXCEPT ![f] = NoSpec]
          /\ copy' = [copy EXCEPT ![f] = {}]
      BY <2>4 DEF Clean, Restore, Mark, histories
    <3>2. \A g \in Flushers : cur'[g] = NoSpec \/ (cur'[g] = cur[g] /\ copy'[g] = copy[g])
      BY <3>1 DEF TypeOK
    <3> QED
      BY <2>1, <2>4, <3>1, <3>2, StoreAssumption DEF OrderedSpec, ClosedNow, Service
  <2>5. ASSUME NEW s \in Services, OrderedSpec(s), UNCHANGED <<disk, lost, cur, copy>>
        PROVE  OrderedSpec(s)'
    BY <2>1, <2>5 DEF OrderedSpec, ClosedNow, Service
  <2>6. \/ UNCHANGED <<disk, lost, cur, copy>>
        \/ \E f \in Flushers : CopySpec(f) \/ Replace(f) \/ Clean(f) \/ Restore(f)
    BY <1>1
    DEF Flushing, LoopChecks, LoopWakes, CloseStops, CloseFlushes, Flush, SkipDeleted, WriteFails,
        FlushEnds, store, histories
  <2> QED
    BY <2>2, <2>3, <2>4, <2>5, <2>6 DEF Ordered, Distinctive
<1>2. CASE Restart
  <2>1. /\ UNCHANGED <<disk, calls>> /\ done' = {o \in done : o \in Content(disk[Home(o)])}
        /\ \A c \in Clients : client'[c] = "idle"
        /\ \A f \in Flushers : cur'[f] = NoSpec
        /\ \A s \in Services : Content(cache'[s]) = {}
    BY <1>2 DEF Restart, All, Content
  <2>2. ASSUME NEW s \in Services, OrderedSpec(s) PROVE OrderedSpec(s)'
    <3>1. \A i : <<s, i>> \in done' => <<s, i>> \in Content(disk[s])
      BY <2>1 DEF Home
    <3>2. Closed(Content(disk[s]), s, calls[s], done' \ lost'[s])
      BY <2>2, <3>1 DEF Closed, ClosedNow, OrderedSpec
    <3>3. Closed(Content(cache'[s]), s, calls[s], done' \ lost'[s])
      BY <2>1, ClosedEmpty
    <3>4. \A f \in Flushers : cur'[f] # s
      BY <2>1, StoreAssumption
    <3> QED
      BY <2>1, <3>2, <3>3, <3>4 DEF OrderedSpec, ClosedNow, Updating
  <2> QED
    BY <2>2 DEF Ordered, Distinctive
<1>3. CASE UNCHANGED vars
  BY <1>3 DEF vars, store, clientVars, flusherVars, histories, Ordered, OrderedSpec, ClosedNow,
              Service, Distinctive
<1> QED
  BY <1>1, <1>2, <1>3, OrderedByClient DEF Next

-----------------------------------------------------------------------------
(* What is neither dirty nor raced is on disk                              *)

\* A flusher is writing s exactly while its cur is s.
LEMMA WritingIs ==
  ASSUME TypeOK, NEW s \in Services
  PROVE  Writing(s) <=> \E f \in Flushers : cur[f] = s
BY StoreAssumption DEF TypeOK, Writing

\* To differ in nothing but what was lost is an equivalence, and losing more
\* makes no difference.
LEMMA SameIs ==
  ASSUME NEW s
  PROVE  /\ \A x : Same(s, x, x)
         /\ \A x, y : Same(s, x, y) => Same(s, y, x)
         /\ \A x, y, z : Same(s, x, y) /\ Same(s, y, z) => Same(s, x, z)
         /\ lost[s] \subseteq lost'[s] => \A x, y : Same(s, x, y) => Same(s, x, y)'
BY DEF Same

\* A client's step leaves alone the services it is not about.
LEMMA SavedOthers ==
  ASSUME UsedByOne, TypeOK, TypeOK', NEW s \in Services, Agree(s), ReadIsCurrent(s), Settled(s),
         NEW c \in Clients, flusherVars' = flusherVars, lost[s] \subseteq lost'[s],
         cache'[s] = cache[s], disk'[s] = disk[s], s \in raced' <=> s \in raced,
         s \in dirty' <=> s \in dirty, ~Removing(s)' => ~Removing(s),
         client'[c] = "fill" /\ from'[c] = s => Same(s, held[c], disk[s])'
  PROVE  Agree(s)' /\ ReadIsCurrent(s)' /\ Settled(s)'
<1>0. \A d \in Clients : d = c
  BY OnlyOne
<1>1. \A x, y : Same(s, x, y) => Same(s, x, y)'
  BY SameIs
<1>2. UNCHANGED <<flusher, cur, copy>> /\ (Writing(s)' <=> Writing(s))
  BY DEF flusherVars, Writing
<1>3. Agree(s)'
  BY <1>1, <1>2 DEF Agree, On
<1>4. ReadIsCurrent(s)'
  BY <1>0 DEF ReadIsCurrent
<1>5. Settled(s)'
  BY <1>1, <1>2 DEF Settled, On
<1> QED
  BY <1>3, <1>4, <1>5

\* A client's step keeps copies, cache and files in agreement.
LEMMA SavedByClient ==
  ASSUME UsedByOne, TypeOK, TypeOK', CallInv, Paths, Saved, NEW c \in Clients,
         Update(c) \/ Remove(c)
  PROVE  Saved'
<1> USE DEF Step, On
<1>0. \A d \in Clients : d = c
  BY OnlyOne
<1>1. /\ client \in [Clients -> ClientPCs] /\ held \in [Clients -> SUBSET Obs]
      /\ obs \in [Clients -> {NoSpec} \cup (Services \X (0..MaxObs))]
      /\ cache \in [Services -> Specs] /\ disk \in [Services -> Specs]
      /\ lost \in [Services -> SUBSET Obs] /\ UNCHANGED flusherVars
  BY ClientLeaves DEF TypeOK
<1>2. /\ client[c] \in Updating \cup {"unlink"} => Service(c) \in Services
      /\ client[c] \in {"read", "fill"} =>
            /\ from[c] \in Services /\ from[c] \in Contains[Service(c)]
            /\ ~On(cache, from[c]) /\ On(disk, from[c])
      /\ client[c] = "unlink" => ~On(cache, Service(c)) /\ "delete" \in ClientOps
      /\ client[c] \in {"list", "clear"} => \A s \in Services : ~On(cache, s)
  BY ServiceType DEF Paths, CallInv
<1>3. \A s \in Services : /\ Agree(s) /\ ReadIsCurrent(s) /\ Settled(s)
                          /\ lost[s] \subseteq lost'[s]
  BY LostGrows DEF Saved
<1>4. \A s : Removing(s) <=> \/ client[c] = "unlink" /\ Service(c) = s
                             \/ client[c] = "list"
                             \/ client[c] = "clear" /\ s \in listed[c]
  BY <1>0 DEF Removing
<1>5. \A s : Removing(s)' <=> \/ client'[c] = "unlink" /\ Service(c)' = s
                              \/ client'[c] = "list"
                              \/ client'[c] = "clear" /\ s \in listed'[c]
  BY <1>0 DEF Removing
\* Nobody is about to remove anything, nor reading.
<1>6. ASSUME NEW s \in Services, client[c] \notin {"unlink", "list", "clear"},
             client'[c] # "fill", cache'[s] = cache[s], disk'[s] = disk[s],
             s \in raced' <=> s \in raced, s \in dirty' <=> s \in dirty
      PROVE  Agree(s)' /\ ReadIsCurrent(s)' /\ Settled(s)'
  BY <1>1, <1>3, <1>4, <1>6, SavedOthers
<1>7. ASSUME NEW s \in Services, UpdateCall(c, s)
      PROVE  Saved'
  BY <1>1, <1>6, <1>7 DEF UpdateCall, store, histories, Saved
<1>8. CASE LoadCached(c) \/ LoadSimilar(c) \/ LoadMisses(c) \/ Resolve(c)
  <2>1. client[c] \in {"cache", "fuzzy", "resolve"} /\ client'[c] # "fill"
    BY <1>1, <1>8 DEF LoadCached, LoadSimilar, LoadMisses, Resolve
  <2>2. UNCHANGED <<cache, disk, dirty, raced>>
    BY <1>8 DEF LoadCached, LoadSimilar, LoadMisses, Resolve, store, histories
  <2> QED
    BY <1>6, <2>1, <2>2 DEF Saved
<1>9. CASE ReadFile(c) \/ ReadFails(c)
  <2>1. /\ client[c] = "read" /\ client'[c] = "fill" /\ UNCHANGED <<cache, disk, dirty, raced, from>>
    BY <1>1, <1>9 DEF ReadFile, ReadFails, store, histories
  <2>2. Same(from[c], held[c], disk[from[c]])'
    <3>1. CASE ReadFile(c)
      <4>1. held'[c] = Content(disk[from[c]]) /\ Content(held'[c]) = held'[c]
        BY <1>1, <3>1 DEF ReadFile, Content
      <4> QED
        BY <2>1, <4>1 DEF Same
    <3>2. CASE ReadFails(c)
      <4>1. held'[c] = {} /\ Content(disk[from[c]]) \subseteq lost'[from[c]]
        BY <1>1, <1>2, <2>1, <3>2 DEF ReadFails
      <4> QED
        BY <2>1, <4>1 DEF Same, Content
    <3> QED
      BY <1>9, <3>1, <3>2
  <2>3. ASSUME NEW s \in Services PROVE Agree(s)' /\ ReadIsCurrent(s)' /\ Settled(s)'
    <3>1. from'[c] = s => Same(s, held[c], disk[s])'
      BY <2>1, <2>2
    <3> QED
      BY <1>1, <1>3, <1>4, <2>1, <3>1, SavedOthers
  <2> QED
    BY <2>3 DEF Saved
<1>10. CASE FillCache(c)
  <2>1. /\ client[c] = "fill" /\ client'[c] = "save"
        /\ cache' = [cache EXCEPT ![from[c]] = held[c]] /\ UNCHANGED <<disk, dirty, raced, lost>>
    BY <1>1, <1>10 DEF FillCache, histories
  <2>2. ASSUME NEW s \in Services, s # from[c]
        PROVE  Agree(s)' /\ ReadIsCurrent(s)' /\ Settled(s)'
    BY <1>1, <1>6, <2>1, <2>2
  <2>3. ASSUME NEW s \in Services, s = from[c]
        PROVE  Agree(s)' /\ ReadIsCurrent(s)' /\ Settled(s)'
    <3>1. cache'[s] = held[c] /\ UNCHANGED <<flusher, cur, copy>>
      BY <1>1, <2>1, <2>3 DEF flusherVars
    <3>2. s \notin raced => Same(s, held[c], disk[s])
      BY <1>3, <2>1, <2>3 DEF ReadIsCurrent
    <3>3. s \notin raced => \A f \in Flushers : cur[f] = s => Same(s, disk[s], copy[f])
      BY <1>2, <1>3, <1>4, <2>1, <2>3 DEF Agree
    <3>4. \A x, y : Same(s, x, y) => Same(s, x, y)'
      BY <2>1, SameIs
    <3>5. s \notin raced => \A f \in Flushers : cur[f] = s => Same(s, copy[f], held[c])
      BY <3>2, <3>3, SameIs
    <3>6. s \notin raced => Same(s, disk[s], held[c])
      BY <3>2, SameIs
    <3>7. Agree(s)'
      <4>1. s \notin raced => \A f, g \in Flushers :
                cur[f] = s /\ cur[g] = s => Same(s, copy[g], copy[f])
        BY <1>3 DEF Agree
      <4>2. cache'[s] # NoSpec
        BY <1>1, <3>1, StoreAssumption
      <4> QED
        BY <2>1, <3>1, <3>4, <3>5, <3>6, <4>1, <4>2 DEF Agree
    <3>8. ReadIsCurrent(s)'
      BY <1>0, <2>1 DEF ReadIsCurrent
    <3>9. Settled(s)'
      BY <2>1, <3>1, <3>4, <3>6 DEF Settled
    <3> QED
      BY <3>7, <3>8, <3>9
  <2> QED
    BY <2>2, <2>3 DEF Saved
<1>11. CASE Save(c)
  <2>1. /\ client[c] = "save" /\ client'[c] = "idle" /\ Service(c) \in Services /\ disk' = disk
        /\ cache' = [cache EXCEPT ![Service(c)] = held[c] \cup {obs[c]}]
        /\ raced' = IF Writing(Service(c)) THEN raced \cup {Service(c)} ELSE raced \ {Service(c)}
        /\ dirty' = dirty \cup {Service(c)}
    BY <1>1, <1>2, <1>11 DEF Save, Updating
  <2>2. ASSUME NEW s \in Services, s # Service(c)
        PROVE  Agree(s)' /\ ReadIsCurrent(s)' /\ Settled(s)'
    <3>1. cache'[s] = cache[s] /\ (s \in raced' <=> s \in raced) /\ (s \in dirty' <=> s \in dirty)
      BY <1>1, <2>1, <2>2
    <3> QED
      BY <1>6, <2>1, <3>1
  <2>3. ASSUME NEW s \in Services, s = Service(c)
        PROVE  Agree(s)' /\ ReadIsCurrent(s)' /\ Settled(s)'
    <3>1. s \notin raced' => \A f \in Flushers : cur'[f] # s
      BY <1>1, <2>1, <2>3, WritingIs DEF flusherVars
    <3>2. s \in dirty' /\ client'[c] # "fill"
      BY <2>1, <2>3
    <3> QED
      BY <1>0, <3>1, <3>2 DEF Agree, ReadIsCurrent, Settled
  <2> QED
    BY <2>2, <2>3 DEF Saved
<1>12. ASSUME NEW t \in Services, DeleteCached(c, t)
       PROVE  Saved'
  <2>1. /\ client[c] = "idle" /\ client'[c] = "unlink" /\ Service(c)' = t
        /\ cache' = [cache EXCEPT ![t] = NoSpec] /\ dirty' = dirty \ {t}
        /\ UNCHANGED <<disk, raced, lost>>
    BY <1>1, <1>12 DEF DeleteCached, Home, Service
  <2>2. ASSUME NEW s \in Services, s # t
        PROVE  Agree(s)' /\ ReadIsCurrent(s)' /\ Settled(s)'
    <3>1. cache'[s] = cache[s] /\ (s \in dirty' <=> s \in dirty)
      BY <1>1, <2>1, <2>2
    <3> QED
      BY <1>6, <2>1, <3>1
  <2>3. Agree(t)' /\ ReadIsCurrent(t)' /\ Settled(t)'
    <3>1. cache'[t] = NoSpec /\ Removing(t)' /\ UNCHANGED <<flusher, cur, copy>>
      BY <1>1, <1>5, <2>1 DEF flusherVars
    <3>2. \A x, y : Same(t, x, y) => Same(t, x, y)'
      BY <2>1, SameIs
    <3>3. Agree(t)'
      BY <1>3, <2>1, <3>1, <3>2 DEF Agree
    <3> QED
      BY <1>0, <2>1, <3>1, <3>3 DEF ReadIsCurrent, Settled
  <2> QED
    BY <2>2, <2>3 DEF Saved
<1>13. CASE Unlink(c)
  <2>1. /\ client[c] = "unlink" /\ client'[c] = "idle"
        /\ disk' = [disk EXCEPT ![Service(c)] = NoSpec] /\ UNCHANGED <<cache, dirty, raced, lost>>
    <3>1. client[c] = "unlink" /\ Service(c) \in Services
      BY <1>2, <1>13 DEF Unlink
    <3>2. Resolved(Service(c)) = {Service(c)}
      BY <1>2, <3>1, OwnFile
    <3> QED
      BY <1>1, <1>13, <3>1, <3>2 DEF Unlink, histories
  <2>2. ASSUME NEW s \in Services, s # Service(c)
        PROVE  Agree(s)' /\ ReadIsCurrent(s)' /\ Settled(s)'
    <3>1. disk'[s] = disk[s] /\ ~Removing(s)
      BY <1>1, <1>4, <2>1, <2>2
    <3> QED
      BY <1>1, <1>3, <2>1, <3>1, SavedOthers
  <2>3. ASSUME NEW s \in Services, s = Service(c)
        PROVE  Agree(s)' /\ ReadIsCurrent(s)' /\ Settled(s)'
    <3>1. cache'[s] = NoSpec /\ disk'[s] = NoSpec /\ UNCHANGED <<flusher, cur, copy>>
      BY <1>1, <1>2, <2>1, <2>3 DEF flusherVars
    <3>2. \A x, y : Same(s, x, y) => Same(s, x, y)'
      BY <2>1, SameIs
    <3>3. Agree(s)'
      BY <1>3, <2>1, <2>3, <3>1, <3>2 DEF Agree
    <3> QED
      BY <1>0, <2>1, <3>1, <3>3 DEF ReadIsCurrent, Settled
  <2> QED
    BY <2>2, <2>3 DEF Saved
<1>14. CASE ClearCached(c) \/ ClearLists(c) \/ ClearUnlinks(c) \/ ClearEnds(c)
  <2>1. /\ client'[c] \notin {"unlink", "fill"} /\ UNCHANGED <<raced, lost>>
        /\ \A s \in Services : cache'[s] = NoSpec
        /\ client'[c] = "list" \/ client[c] \in {"list", "clear"}
    BY <1>1, <1>2, <1>14 DEF ClearCached, ClearLists, ClearUnlinks, ClearEnds, store, histories, All
  <2>2. ASSUME NEW s \in Services, ~Removing(s)'
        PROVE  disk'[s] = NoSpec \/ (~Removing(s) /\ ~On(cache, s) /\ disk'[s] = disk[s])
    <3>1. CASE client'[c] = "list"
      BY <1>5, <2>2, <3>1
    <3>2. CASE client[c] \in {"list", "clear"} /\ client'[c] # "list"
      BY <1>1, <1>2, <1>4, <1>5, <1>14, <2>2, <3>2
      DEF ClearCached, ClearLists, ClearUnlinks, ClearEnds, store, TypeOK
    <3> QED
      BY <2>1, <3>1, <3>2
  <2>3. ASSUME NEW s \in Services PROVE Agree(s)' /\ ReadIsCurrent(s)' /\ Settled(s)'
    <3>1. UNCHANGED <<flusher, cur, copy>> /\ \A x, y : Same(s, x, y) => Same(s, x, y)'
      BY <1>1, <2>1, SameIs DEF flusherVars
    <3>2. Agree(s)'
      BY <1>3, <2>1, <2>2, <3>1 DEF Agree
    <3> QED
      BY <1>0, <2>1, <3>2 DEF ReadIsCurrent, Settled
  <2> QED
    BY <2>3 DEF Saved
<1> QED
  BY <1>7, <1>8, <1>9, <1>10, <1>11, <1>12, <1>13, <1>14 DEF Update, Remove

\* A flusher's step does: what it copies is the cache's, what it writes is
\* everyone's copy but for what is cut off, and the mark it takes off is of a
\* spec it has written.
LEMMA SavedByFlusher ==
  ASSUME UsedByOne, TypeOK, TypeOK', CallInv, Paths, Saved, Flushing
  PROVE  Saved'
<1> USE DEF On
<1>1. /\ UNCHANGED <<cache, raced, client, obs, held, listed, from>>
      /\ \A s : Removing(s)' <=> Removing(s)
  BY FlushLeaves DEF clientVars, Removing, Service
<1>2. /\ flusher \in [Flushers -> FlusherPCs] /\ cur \in [Flushers -> Services \cup {NoSpec}]
      /\ copy \in [Flushers -> SUBSET Obs] /\ disk \in [Services -> Specs]
      /\ lost \in [Services -> SUBSET Obs] /\ NoSpec \notin Services
  BY StoreAssumption DEF TypeOK
<1>3. /\ \A s \in Services : Writing(s) <=> \E f \in Flushers : cur[f] = s
      /\ \A s \in Services : Writing(s)' <=> \E f \in Flushers : cur'[f] = s
  <2>1. \A s \in Services : Writing(s)' <=> \E f \in Flushers : cur'[f] = s
    BY StoreAssumption DEF TypeOK, Writing
  <2> QED
    BY <2>1, WritingIs
<1>4. \A s \in Services : Agree(s) /\ ReadIsCurrent(s) /\ Settled(s)
  BY DEF Saved
\* A spec that is not written, not picked up and not laid down uncopied.
<1>5. ASSUME NEW s \in Services, disk'[s] = disk[s], lost' = lost,
             On(cache, s) /\ s \notin dirty' => s \notin dirty,
             \A f \in Flushers : cur'[f] = s <=> cur[f] = s,
             \A f \in Flushers : cur[f] = s =>
                copy'[f] = copy[f] /\ (flusher'[f] = "clean" => flusher[f] = "clean")
      PROVE  Agree(s)' /\ ReadIsCurrent(s)' /\ Settled(s)'
  <2>1. \A x, y : Same(s, x, y) => Same(s, x, y)'
    BY <1>5, SameIs
  <2>2. Agree(s)'
    BY <1>1, <1>4, <1>5, <2>1 DEF Agree
  <2>3. ReadIsCurrent(s)'
    BY <1>1, <1>4, <1>5, <2>1 DEF ReadIsCurrent
  <2>4. Settled(s)'
    BY <1>1, <1>3, <1>4, <1>5, <2>1 DEF Settled
  <2> QED
    BY <2>2, <2>3, <2>4
<1>6. ASSUME UNCHANGED <<disk, lost, cur, copy>>,
             \A s \in Services : On(cache, s) /\ s \notin dirty' => s \notin dirty,
             \A f \in Flushers : flusher'[f] = "clean" => flusher[f] = "clean"
      PROVE  Saved'
  BY <1>5, <1>6 DEF Saved
<1>7. CASE LoopChecks \/ LoopWakes \/ CloseStops \/ CloseFlushes
  BY <1>2, <1>6, <1>7 DEF LoopChecks, LoopWakes, CloseStops, CloseFlushes, Goto, store, histories
<1>8. ASSUME NEW f \in Flushers, WriteFails(f) \/ FlushEnds(f) \/ SkipDeleted(f)
      PROVE  Saved'
  BY <1>2, <1>6, <1>8 DEF WriteFails, FlushEnds, SkipDeleted, Goto, store, histories
<1>9. ASSUME NEW f \in Flushers, CopySpec(f)
      PROVE  Saved'
  <2>1. PICK t \in todo[f] : /\ On(cache, t) /\ cur' = [cur EXCEPT ![f] = t]
                             /\ copy' = [copy EXCEPT ![f] = cache[t]]
                             /\ UNCHANGED <<disk, dirty, lost>>
    BY <1>9 DEF CopySpec, store, histories
  <2>2. /\ cur[f] = NoSpec /\ flusher'[f] = "write" /\ cur'[f] = t /\ copy'[f] = cache[t]
        /\ \A g \in Flushers : g # f => /\ flusher'[g] = flusher[g] /\ cur'[g] = cur[g]
                                        /\ copy'[g] = copy[g]
    BY <1>2, <1>9, <2>1 DEF CopySpec, Goto, TypeOK
  <2>3. ASSUME NEW s \in Services, s # t
        PROVE  Agree(s)' /\ ReadIsCurrent(s)' /\ Settled(s)'
    <3>1. \A g \in Flushers : cur'[g] = s <=> cur[g] = s
      BY <1>2, <2>2, <2>3
    <3>2. \A g \in Flushers : cur[g] = s =>
             copy'[g] = copy[g] /\ (flusher'[g] = "clean" => flusher[g] = "clean")
      BY <1>2, <2>2
    <3> QED
      BY <1>5, <2>1, <3>1, <3>2
  <2>4. ASSUME NEW s \in Services, s = t
        PROVE  Agree(s)' /\ ReadIsCurrent(s)' /\ Settled(s)'
    <3>1. \A x, y : Same(s, x, y) => Same(s, x, y)'
      BY <2>1, SameIs
    <3>2. s \notin raced => \A g \in Flushers : cur'[g] = s => Same(s, copy'[g], cache[s])
      BY <1>4, <2>1, <2>2, <2>4, SameIs DEF Agree
    <3>3. s \notin raced => \A g, h \in Flushers :
             cur'[g] = s /\ cur'[h] = s => Same(s, copy'[h], copy'[g])
      BY <3>2, SameIs
    <3>4. s \notin raced => \A g \in Flushers :
             cur'[g] = s /\ flusher'[g] = "clean" => Same(s, disk[s], cache[s])
      BY <1>4, <2>1, <2>2, <2>4 DEF Agree
    <3>5. Agree(s)'
      BY <1>1, <2>1, <2>4, <3>1, <3>2, <3>3, <3>4 DEF Agree
    <3>6. ReadIsCurrent(s)'
      BY <1>1, <1>4, <2>1, <3>1 DEF ReadIsCurrent
    <3>7. Settled(s)'
      BY <1>3, <2>2, <2>4 DEF Settled
    <3> QED
      BY <3>5, <3>6, <3>7
  <2> QED
    BY <2>3, <2>4 DEF Saved
<1>10. ASSUME NEW f \in Flushers, Replace(f)
       PROVE  Saved'
  <2>1. PICK written \in SUBSET copy[f] :
               /\ disk' = [disk EXCEPT ![cur[f]] = written]
               /\ lost' = [lost EXCEPT ![cur[f]] = @ \cup (copy[f] \ written)]
    BY <1>10 DEF Replace
  <2>2. /\ cur[f] \in Services /\ UNCHANGED <<cur, copy, dirty>>
        /\ flusher'[f] = "clean" /\ \A g \in Flushers : g # f => flusher'[g] = flusher[g]
    BY <1>2, <1>10 DEF Replace, Goto, TypeOK
  <2>3. ASSUME NEW s \in Services, s # cur[f]
        PROVE  Agree(s)' /\ ReadIsCurrent(s)' /\ Settled(s)'
    <3>1. disk'[s] = disk[s] /\ lost'[s] = lost[s]
      BY <1>2, <2>1, <2>2, <2>3
    <3>2. \A x, y : Same(s, x, y) => Same(s, x, y)'
      BY <3>1, SameIs
    <3>3. \A g \in Flushers : cur[g] = s => flusher'[g] = flusher[g]
      BY <2>2, <2>3
    <3>4. Agree(s)'
      BY <1>1, <1>4, <2>2, <3>1, <3>2, <3>3 DEF Agree
    <3>5. ReadIsCurrent(s)'
      BY <1>1, <1>4, <3>1, <3>2 DEF ReadIsCurrent
    <3>6. Settled(s)'
      BY <1>1, <1>3, <1>4, <2>2, <3>1, <3>2 DEF Settled
    <3> QED
      BY <3>4, <3>5, <3>6
  <2>4. ASSUME NEW s \in Services, s = cur[f]
        PROVE  Agree(s)' /\ ReadIsCurrent(s)' /\ Settled(s)'
    <3>1. disk'[s] = written /\ lost'[s] = lost[s] \cup (copy[f] \ written)
      BY <1>2, <2>1, <2>2, <2>4
    <3>2. \A x, y : Same(s, x, y) => Same(s, x, y)'
      BY <3>1, SameIs
    <3>3. Same(s, disk[s], copy[f])'
      <4>1. Content(written) = written /\ Content(copy[f]) = copy[f]
        BY <1>2, <2>1, StoreAssumption DEF Content
      <4> QED
        BY <2>2, <3>1, <4>1 DEF Same
    <3>4. /\ \A x, y : Same(s, x, y)' => Same(s, y, x)'
          /\ \A x, y, z : Same(s, x, y)' /\ Same(s, y, z)' => Same(s, x, z)'
      BY DEF Same
    <3>5. s \notin raced => \A g, h \in Flushers :
             cur[g] = s /\ cur[h] = s => Same(s, copy[h], copy[g])'
      BY <1>4, <2>2, <3>2 DEF Agree
    <3>6. s \notin raced => \A g \in Flushers : cur[g] = s => Same(s, disk[s], copy[g])'
      BY <2>2, <2>4, <3>3, <3>4, <3>5
    <3>7. s \notin raced /\ On(cache, s) => \A g \in Flushers : cur[g] = s =>
             Same(s, copy[g], cache[s])'
      BY <1>1, <1>4, <2>2, <3>2 DEF Agree
    <3>8. s \notin raced /\ On(cache, s) => Same(s, disk[s], cache[s])'
      BY <1>1, <2>2, <2>4, <3>4, <3>6, <3>7
    <3>9. Agree(s)'
      BY <1>1, <2>2, <3>5, <3>6, <3>7, <3>8 DEF Agree
    <3>10. ReadIsCurrent(s)'
      <4> SUFFICES ASSUME s \notin raced, NEW c \in Clients, client[c] = "fill", from[c] = s
                   PROVE  Same(s, held[c], disk[s])'
        BY <1>1 DEF ReadIsCurrent
      <4>1. On(disk, s) /\ ~On(cache, s) /\ ~Removing(s)
        BY OnlyOne DEF Paths, Removing
      <4>2. Same(s, held[c], disk[s]) /\ Same(s, disk[s], copy[f])
        BY <1>4, <2>4, <4>1 DEF ReadIsCurrent, Agree
      <4>3. Same(s, held[c], copy[f])'
        BY <1>1, <2>2, <3>2, <4>2, SameIs
      <4> QED
        BY <1>1, <2>2, <3>3, <3>4, <4>3
    <3>11. Settled(s)'
      BY <1>3, <2>2, <2>4 DEF Settled
    <3> QED
      BY <3>9, <3>10, <3>11
  <2> QED
    BY <2>3, <2>4 DEF Saved
<1>11. ASSUME NEW f \in Flushers, Clean(f) \/ Restore(f)
       PROVE  Saved'
  <2>1. /\ cur' = [cur EXCEPT ![f] = NoSpec] /\ copy' = [copy EXCEPT ![f] = {}]
        /\ disk' = disk /\ lost' = lost /\ flusher' = [flusher EXCEPT ![f] = "next"]
        /\ \/ flusher[f] = "clean" /\ dirty' = dirty \ {cur[f]}
           \/ flusher[f] = "restore" /\ dirty' = dirty \cup {cur[f]}
    BY <1>11 DEF Clean, Restore, Mark, Goto, histories
  <2>2. /\ cur'[f] = NoSpec
        /\ \A g \in Flushers : g # f => /\ flusher'[g] = flusher[g] /\ cur'[g] = cur[g]
                                        /\ copy'[g] = copy[g]
    BY <1>2, <2>1
  <2>3. ASSUME NEW s \in Services PROVE Agree(s)' /\ ReadIsCurrent(s)' /\ Settled(s)'
    <3>1. \A x, y : Same(s, x, y) => Same(s, x, y)'
      BY <2>1, SameIs
    <3>2. Agree(s)'
      BY <1>1, <1>2, <1>4, <2>1, <2>2, <3>1 DEF Agree
    <3>3. ReadIsCurrent(s)'
      BY <1>1, <1>4, <2>1, <3>1 DEF ReadIsCurrent
    <3>4. Settled(s)'
      <4> SUFFICES ASSUME On(cache, s), s \notin dirty', s \notin raced, ~Writing(s)'
                   PROVE  Same(s, disk[s], cache[s])
        BY <1>1, <2>1, <3>1 DEF Settled
      <4>1. CASE s = cur[f]
        <5>1. flusher[f] = "clean"
          BY <2>1, <4>1
        <5> QED
          BY <1>4, <4>1, <5>1 DEF Agree
      <4>2. CASE s # cur[f]
        <5>1. ~Writing(s) /\ s \notin dirty
          BY <1>2, <1>3, <2>1, <2>2, <4>2
        <5> QED
          BY <1>4, <5>1 DEF Settled
      <4> QED
        BY <4>1, <4>2
    <3> QED
      BY <3>2, <3>3, <3>4
  <2> QED
    BY <2>3 DEF Saved
<1> QED
  BY <1>7, <1>8, <1>9, <1>10, <1>11 DEF Flushing, Flush

\* Every step keeps copies, cache and files in agreement.
LEMMA SavedStep ==
  ASSUME UsedByOne, TypeOK, TypeOK', CallInv, Paths, Saved, [Next]_vars
  PROVE  Saved'
<1>1. CASE Restart
  <2>1. /\ \A s \in Services : ~On(cache', s)
        /\ \A f \in Flushers : cur'[f] \notin Services
        /\ \A c \in Clients : client'[c] = "idle"
    BY <1>1, StoreAssumption DEF Restart, All, On
  <2> QED
    BY <2>1 DEF Saved, Agree, ReadIsCurrent, Settled, On
<1>2. CASE UNCHANGED vars
  BY <1>2 DEF vars, store, clientVars, flusherVars, histories, Saved, Agree, ReadIsCurrent, Settled,
              Same, On, Removing, Service, Writing
<1> QED
  BY <1>1, <1>2, SavedByClient, SavedByFlusher DEF Next

-----------------------------------------------------------------------------
\* The first state: nothing is cached, recorded or filed.
LEMMA Initially == Init => Paths /\ Saved /\ Kept /\ Ordered
<1> SUFFICES ASSUME Init PROVE Paths /\ Saved /\ Kept /\ Ordered
  OBVIOUS
<1> USE DEF Init, All
<1>1. /\ \A c \in Clients : client[c] = "idle"
      /\ \A s \in Services : ~On(cache, s) /\ Content(cache[s]) = {} /\ Content(disk[s]) = {}
      /\ \A f \in Flushers : cur[f] \notin Services
  BY StoreAssumption DEF On, Content
<1>2. Paths
  BY <1>1 DEF Paths
<1>3. Saved
  BY <1>1 DEF Saved, Agree, ReadIsCurrent, Settled
<1>4. Kept
  BY DEF Kept
<1>5. Ordered
  BY <1>1, ClosedEmpty DEF Ordered, OrderedSpec, ClosedNow, Updating
<1> QED
  BY <1>2, <1>3, <1>4, <1>5

\* Type correctness, for any callers, names and writes: also that a flusher
\* has a spec in hand exactly while it writes one.
THEOREM TypeCorrect == StoreSpec => []TypeOK
<1>1. StoreSpec => [](TypeOK /\ CallInv)
  BY TypeInit, TypeStep, PTL DEF StoreSpec
<1> QED
  BY <1>1, PTL

\* The inductive invariant holds in every reachable state of a store with one
\* caller, who deletes single specs only where names are distinct.
THEOREM Invariance == ASSUME UsedByOne PROVE StoreSpec => []IInv
<1>1. Init => IInv
  BY TypeInit, Initially DEF IInv
<1>2. IInv /\ [Next]_vars => IInv'
  <2> SUFFICES ASSUME IInv, [Next]_vars
               PROVE  IInv'
    OBVIOUS
  <2>1. TypeOK' /\ CallInv'
    BY TypeStep DEF IInv
  <2>2. Paths' /\ Kept' /\ Ordered'
    BY PathsStep, KeptStep, OrderedStep DEF IInv
  <2>3. Saved'
    BY <2>1, SavedStep DEF IInv
  <2> QED
    BY <2>1, <2>2, <2>3 DEF IInv
<1> QED
  BY <1>1, <1>2, PTL DEF StoreSpec

\* update() forgets nothing of a service whose name is part of no other, but
\* for what was in a file that could not be read and what a short write cut
\* off: whether it finds the spec in the cache or, after a kill, on disk, and
\* whatever the flushers are doing meanwhile.
THEOREM NothingIsForgotten == ASSUME UsedByOne PROVE StoreSpec => []NothingForgotten
<1>1. IInv => NothingForgotten
  BY DEF IInv, Kept, NothingForgotten, Remembered, Content, On
<1> QED
  BY <1>1, Invariance, PTL

\* A file of such a service holds, with an observation, all that were recorded
\* before it and not lost in one of these two ways.
THEOREM FilesAreSnapshots == ASSUME UsedByOne PROVE StoreSpec => []PrefixDurable
<1>1. ASSUME IInv PROVE PrefixDurable
  <2> SUFFICES ASSUME NEW s \in Services, Distinctive(s), NEW i \in 1..MaxObs,
                      NEW j \in 1..MaxObs, i < j, <<s, i>> \in done,
                      <<s, j>> \in Content(disk[s]), <<s, i>> \notin lost[s]
               PROVE  <<s, i>> \in disk[s]
    BY DEF PrefixDurable
  <2>1. Closed(Content(disk[s]), s, calls[s], done \ lost[s])
    BY <1>1 DEF IInv, Ordered, OrderedSpec, ClosedNow
  <2>2. <<s, i>> \in Content(disk[s])
    BY <2>1 DEF Closed
  <2> QED
    BY <2>2 DEF Content
<1> QED
  BY <1>1, Invariance, PTL

\* A spec that is neither dirty, nor raced, nor being written is on disk as it
\* is in the cache, apart from what was lost, whatever writes failed and
\* whoever flushed at once.
THEOREM CleanIsSaved == ASSUME UsedByOne PROVE StoreSpec => []SavedUnlessRaced
<1>1. IInv => SavedUnlessRaced
  BY DEF IInv, Saved, Settled, Same, SavedUnlessRaced, Content, On
<1> QED
  BY <1>1, Invariance, PTL

-----------------------------------------------------------------------------
(* A file never shrinks                                                    *)

\* The proxy until it exits: its one thread calls update(), the loop writes.
RecordingOnly == OneCaller /\ ClientOps \subseteq {"update"} /\ Flushers \subseteq {"loop"}

\* No call deletes or clears.
Recording == \A c \in Clients : client[c] \in Updating \cup {"idle"}

\* What the file of s holds that was never lost from it.
OnFile(s) == Content(disk[s]) \ lost[s]

\* File, copy, cache and what a call will save hold more and more, in this order.
Grows(s) ==
    /\ On(cache, s) => OnFile(s) \subseteq cache[s]
    /\ \A f \in Flushers : cur[f] = s =>
          On(cache, s) /\ OnFile(s) \subseteq copy[f] /\ copy[f] \subseteq cache[s]
    /\ \A c \in Clients :
          /\ client[c] = "fill" /\ from[c] = s => OnFile(s) \subseteq held[c]
          /\ client[c] = "save" /\ Service(c) = s =>
                OnFile(s) \subseteq held[c] /\ Content(cache[s]) \subseteq held[c]

GrowInv ==
    TypeOK /\ CallInv /\ Paths /\ Recording /\ \A s \in Services : Distinctive(s) => Grows(s)

\* The one that records is the only one that calls.
LEMMA RecordsAlone == ASSUME RecordingOnly PROVE UsedByOne
BY DEF RecordingOnly, UsedByOne

\* A step of an update() that leaves s and its caller's spec of s alone.
LEMMA GrowsOthers ==
  ASSUME RecordingOnly, NEW s \in Services, Grows(s), NEW c \in Clients,
         flusherVars' = flusherVars, cache'[s] = cache[s], disk'[s] = disk[s],
         lost[s] \subseteq lost'[s],
         client'[c] = "fill" /\ from'[c] = s => OnFile(s)' \subseteq held'[c],
         client'[c] = "save" /\ Service(c)' = s =>
             OnFile(s)' \subseteq held'[c] /\ Content(cache'[s]) \subseteq held'[c]
  PROVE  Grows(s)'
<1>1. \A d \in Clients : d = c
  BY RecordsAlone, OnlyOne
<1>2. OnFile(s)' \subseteq OnFile(s)
  BY DEF OnFile
<1> QED
  BY <1>1, <1>2 DEF Grows, On, flusherVars

\* A call fills in what the file holds, and saves more than is cached.
LEMMA GrowsByClient ==
  ASSUME RecordingOnly, GrowInv, NEW c \in Clients, Update(c), NEW s \in Services,
         Distinctive(s)
  PROVE  Grows(s)'
<1> USE DEF Step, On
<1>0. UsedByOne /\ \A d \in Clients : d = c
  BY RecordsAlone, OnlyOne
<1>1. /\ client \in [Clients -> ClientPCs] /\ held \in [Clients -> SUBSET Obs]
      /\ from \in [Clients -> Services \cup {NoSpec}]
      /\ cache \in [Services -> Specs] /\ disk \in [Services -> Specs]
      /\ UNCHANGED flusherVars
  BY ClientLeaves DEF GrowInv, TypeOK
<1>2. Grows(s) /\ Contains[s] = {s} /\ lost[s] \subseteq lost'[s]
  BY LostGrows DEF GrowInv, Distinctive
<1>3. client[c] \in Updating => Service(c) \in Services
  BY ServiceType DEF GrowInv
<1>4. /\ client[c] \in {"fuzzy", "resolve", "read", "fill"} => ~On(cache, Service(c))
      /\ client[c] \in {"read", "fill"} => /\ from[c] \in Contains[Service(c)]
                                           /\ from[c] \in Services /\ ~On(cache, from[c])
  BY DEF GrowInv, Paths, CallInv
<1>5. \A spec \in SUBSET Obs : spec # NoSpec /\ Content(spec) = spec
  BY StoreAssumption DEF Content
<1>6. ASSUME NEW t \in Services, UpdateCall(c, t) PROVE Grows(s)'
  BY <1>1, <1>2, <1>6, GrowsOthers DEF UpdateCall, store
<1>7. CASE LoadCached(c)
  <2>1. UNCHANGED <<cache, disk, lost, obs, from>> /\ client'[c] \in {"save", "fuzzy"}
    BY <1>1, <1>7 DEF LoadCached, store, histories
  <2>2. ASSUME client'[c] = "save", Service(c)' = s
        PROVE  OnFile(s)' \subseteq held'[c] /\ Content(cache'[s]) \subseteq held'[c]
    <3>1. Service(c) = s
      BY <2>1, <2>2 DEF Service
    <3>2. On(cache, s) /\ held'[c] = cache[s]
      BY <1>1, <1>7, <2>2, <3>1 DEF LoadCached
    <3> QED
      BY <1>2, <2>1, <3>2 DEF Grows, OnFile, Content
  <2> QED
    BY <1>1, <1>2, <2>1, <2>2, GrowsOthers
<1>8. CASE LoadSimilar(c)
  <2>1. UNCHANGED <<cache, disk, lost, obs, from>> /\ client'[c] = "save" /\ client[c] = "fuzzy"
    BY <1>1, <1>8 DEF LoadSimilar, store, histories
  <2>2. Service(c)' # s
    <3>1. Service(c) # s
      BY <1>2, <1>4, <1>8, <2>1 DEF LoadSimilar
    <3> QED
      BY <2>1, <3>1 DEF Service
  <2> QED
    BY <1>1, <1>2, <2>1, <2>2, GrowsOthers
<1>9. CASE LoadMisses(c)
  BY <1>1, <1>2, <1>9, GrowsOthers DEF LoadMisses, store
<1>10. CASE Resolve(c)
  <2>1. PICK m \in Resolved(Service(c)) :
               /\ client'[c] = IF On(disk, m) THEN "read" ELSE "save"
               /\ UNCHANGED <<cache, disk, lost, obs>> /\ client[c] = "resolve"
    BY <1>1, <1>10 DEF Resolve, store, histories
  <2>2. m \in Contains[Service(c)]
    BY <1>3, <2>1, OwnFile DEF Updating
  <2>3. ASSUME client'[c] = "save", Service(c)' = s
        PROVE  OnFile(s)' = {} /\ Content(cache'[s]) = {}
    <3>1. Service(c) = s /\ m = s
      BY <1>2, <2>1, <2>2, <2>3 DEF Service
    <3> QED
      BY <1>4, <2>1, <2>3, <3>1 DEF OnFile, Content
  <2> QED
    BY <1>1, <1>2, <2>1, <2>3, GrowsOthers
<1>11. CASE ReadFile(c) \/ ReadFails(c)
  <2>1. UNCHANGED <<cache, disk, from>> /\ client'[c] = "fill" /\ client[c] = "read"
    BY <1>1, <1>11 DEF ReadFile, ReadFails, store
  <2>2. OnFile(from[c])' \subseteq held'[c]
    <3>1. CASE ReadFile(c)
      BY <1>1, <2>1, <3>1 DEF ReadFile, OnFile
    <3>2. CASE ReadFails(c)
      <4>1. Content(disk[from[c]]) \subseteq lost'[from[c]]
        BY <1>4, <2>1, <3>2 DEF GrowInv, TypeOK, ReadFails
      <4> QED
        BY <2>1, <4>1 DEF OnFile
    <3> QED
      BY <1>11, <3>1, <3>2
  <2>3. from'[c] = s => OnFile(s)' \subseteq held'[c]
    BY <2>1, <2>2
  <2> QED
    BY <1>1, <1>2, <2>1, <2>3, GrowsOthers
<1>12. CASE FillCache(c)
  <2>1. /\ client[c] = "fill" /\ client'[c] = "save" /\ UNCHANGED <<disk, lost, obs, held, from>>
        /\ cache' = [cache EXCEPT ![from[c]] = held[c]]
    BY <1>1, <1>12 DEF FillCache, histories
  <2>2. CASE from[c] # s
    <3>1. cache'[s] = cache[s] /\ Service(c)' # s
      BY <1>1, <1>2, <1>4, <2>1, <2>2 DEF Service
    <3> QED
      BY <1>1, <1>2, <2>1, <3>1, GrowsOthers
  <2>3. CASE from[c] = s
    <3>1. held[c] \in SUBSET Obs /\ cache'[s] = held[c] /\ Content(cache'[s]) = held[c]
      BY <1>1, <1>5, <2>1, <2>3
    <3>2. OnFile(s)' = OnFile(s) /\ OnFile(s) \subseteq held[c]
      BY <1>2, <2>1, <2>3 DEF Grows, OnFile
    <3>3. \A f \in Flushers : cur'[f] # s
      BY <1>1, <1>2, <1>4, <2>1, <2>3 DEF Grows, flusherVars
    <3> QED
      BY <1>0, <2>1, <3>1, <3>2, <3>3 DEF Grows
  <2> QED
    BY <2>2, <2>3
<1>13. CASE Save(c)
  <2> DEFINE new == held[c] \cup {obs[c]}
  <2>1. /\ client[c] = "save" /\ client'[c] = "idle" /\ UNCHANGED <<disk, lost>>
        /\ cache' = [cache EXCEPT ![Service(c)] = new] /\ Service(c) \in Services
    BY <1>1, <1>3, <1>13 DEF Save, Updating
  <2>2. CASE Service(c) # s
    <3>1. cache'[s] = cache[s]
      BY <1>1, <2>1, <2>2
    <3> QED
      BY <1>1, <1>2, <2>1, <3>1, GrowsOthers
  <2>3. CASE Service(c) = s
    <3>1. obs[c] \in Obs
      BY <2>1 DEF GrowInv, CallInv, Updating, Obs
    <3>2. cache'[s] = new /\ new # NoSpec
      BY <1>1, <1>5, <2>1, <2>3, <3>1
    <3>3. OnFile(s)' = OnFile(s) /\ OnFile(s) \subseteq new /\ Content(cache[s]) \subseteq new
      BY <1>2, <2>1, <2>3 DEF Grows, OnFile
    <3>4. \A f \in Flushers : cur[f] = s =>
             OnFile(s) \subseteq copy[f] /\ copy[f] \subseteq Content(cache[s])
      BY <1>2 DEF Grows, Content
    <3> HIDE DEF new
    <3>5. \A f \in Flushers : cur'[f] = s =>
             OnFile(s) \subseteq copy'[f] /\ copy'[f] \subseteq new
      BY <1>1, <3>3, <3>4 DEF flusherVars
    <3> QED
      BY <1>0, <2>1, <3>2, <3>3, <3>5 DEF Grows
  <2> QED
    BY <2>2, <2>3
<1> QED
  BY <1>6, <1>7, <1>8, <1>9, <1>10, <1>11, <1>12, <1>13 DEF Update

\* The loop copies what is cached, and replaces a file by the copy, of which
\* what is cut off counts as lost.
LEMMA GrowsByFlusher ==
  ASSUME RecordingOnly, GrowInv, Flushing, NEW s \in Services, Distinctive(s)
  PROVE  Grows(s)'
<1> USE DEF On
<1>1. /\ UNCHANGED <<cache, client, obs, held, from>> /\ Grows(s)
      /\ \A c \in Clients : Service(c)' = Service(c)
  BY FlushLeaves DEF clientVars, GrowInv, Service
<1>2. /\ cache \in [Services -> Specs] /\ disk \in [Services -> Specs] /\ NoSpec # s
      /\ cur \in [Flushers -> Services \cup {NoSpec}] /\ copy \in [Flushers -> SUBSET Obs]
      /\ lost \in [Services -> SUBSET Obs]
  BY StoreAssumption DEF GrowInv, TypeOK
<1>3. CASE UNCHANGED <<disk, lost, cur, copy>>
  BY <1>1, <1>3 DEF Grows, OnFile
<1>4. ASSUME NEW f \in Flushers, CopySpec(f) PROVE Grows(s)'
  <2>1. PICK t \in todo[f] : /\ On(cache, t) /\ cur' = [cur EXCEPT ![f] = t]
                             /\ copy' = [copy EXCEPT ![f] = cache[t]]
    BY <1>4 DEF CopySpec
  <2>2. UNCHANGED <<disk, lost>>
    BY <1>4 DEF CopySpec, store, histories
  <2> QED
    BY <1>1, <1>2, <2>1, <2>2 DEF Grows, OnFile
<1>5. ASSUME NEW f \in Flushers, Replace(f) PROVE Grows(s)'
  <2>1. PICK written \in SUBSET copy[f] :
               /\ disk' = [disk EXCEPT ![cur[f]] = written]
               /\ lost' = [lost EXCEPT ![cur[f]] = @ \cup (copy[f] \ written)]
    BY <1>5 DEF Replace
  <2>2. UNCHANGED <<cur, copy>> /\ \A g \in Flushers : g = f
    BY <1>5 DEF Replace, RecordingOnly
  <2>3. CASE cur[f] = s
    <3>1. OnFile(s)' \subseteq copy[f]
      BY <1>2, <2>1, <2>3 DEF OnFile, Content
    <3>2. On(cache, s) /\ copy[f] \subseteq cache[s] /\ Content(cache[s]) = cache[s]
      BY <1>1, <2>3 DEF Grows, Content
    <3>3. \A c \in Clients : ~(client[c] = "fill" /\ from[c] = s)
      BY <3>2 DEF GrowInv, Paths
    <3> QED
      BY <1>1, <2>2, <3>1, <3>2, <3>3 DEF Grows
  <2>4. CASE cur[f] # s
    <3>1. OnFile(s)' = OnFile(s)
      BY <1>2, <2>1, <2>4 DEF OnFile
    <3> QED
      BY <1>1, <2>2, <3>1 DEF Grows
  <2> QED
    BY <2>3, <2>4
<1>6. ASSUME NEW f \in Flushers, Clean(f) \/ Restore(f) PROVE Grows(s)'
  <2>1. /\ UNCHANGED <<disk, lost>>
        /\ cur' = [cur EXCEPT ![f] = NoSpec] /\ copy' = [copy EXCEPT ![f] = {}]
    BY <1>6 DEF Clean, Restore, Mark, histories
  <2> QED
    BY <1>1, <1>2, <2>1 DEF Grows, OnFile
<1>7. ASSUME NEW f \in Flushers, SkipDeleted(f) \/ WriteFails(f) \/ FlushEnds(f)
      PROVE  UNCHANGED <<disk, lost, cur, copy>>
  BY <1>7 DEF SkipDeleted, WriteFails, FlushEnds, store, histories
<1>8. ASSUME LoopChecks \/ LoopWakes \/ CloseStops \/ CloseFlushes
      PROVE  UNCHANGED <<disk, lost, cur, copy>>
  BY <1>8 DEF LoopChecks, LoopWakes, CloseStops, CloseFlushes, store, histories
<1> QED
  BY <1>3, <1>4, <1>5, <1>6, <1>7, <1>8 DEF Flushing, Flush

\* No caller deletes.
LEMMA NothingRemoved ==
  ASSUME RecordingOnly, Recording, NEW c \in Clients
  PROVE  ~Remove(c)
BY DEF RecordingOnly, Recording, Updating, Step, Remove, DeleteCached, Unlink, ClearCached,
       ClearLists, ClearUnlinks, ClearEnds

\* Recording goes on, and files grow.
LEMMA GrowsStep == ASSUME RecordingOnly, GrowInv, [Next]_vars PROVE GrowInv'
<1> USE RecordsAlone
<1>1. TypeOK' /\ CallInv' /\ Paths'
  BY TypeStep, PathsStep DEF GrowInv
<1>2. ASSUME NEW c \in Clients, Update(c) PROVE Recording'
  BY <1>2 DEF GrowInv, TypeOK, Recording, Updating, Step, Update, UpdateCall, LoadCached,
              LoadSimilar, LoadMisses, Resolve, ReadFile, ReadFails, FillCache, Save
<1>3. ASSUME NEW c \in Clients PROVE ~Remove(c)
  BY NothingRemoved DEF GrowInv
<1>4. CASE Flushing
  <2>1. Recording'
    BY <1>4, FlushLeaves DEF GrowInv, Recording, clientVars
  <2> QED
    BY <1>1, <1>4, <2>1, GrowsByFlusher DEF GrowInv, Distinctive
<1>5. CASE Restart
  <2>1. /\ cache' = All(Services, NoSpec) /\ client' = All(Clients, "idle")
        /\ cur' = All(Flushers, NoSpec)
    BY <1>5 DEF Restart
  <2>2. Recording' /\ \A s \in Services : Grows(s)'
    BY <2>1, StoreAssumption DEF Recording, Grows, All, On, Updating
  <2> QED
    BY <1>1, <2>2 DEF GrowInv
<1>6. CASE UNCHANGED vars
  <2>1. Recording' /\ \A s \in Services : Grows(s) => Grows(s)'
    BY <1>6 DEF vars, store, clientVars, flusherVars, histories, GrowInv, Recording, Grows, OnFile,
                On, Service
  <2> QED
    BY <1>1, <2>1 DEF GrowInv, Distinctive
<1> QED
  BY <1>1, <1>2, <1>3, <1>4, <1>5, <1>6, GrowsByClient DEF GrowInv, Next, Distinctive

\* What flush() replaces a file by holds all that the file held, except what
\* had been lost when the file could not be read or is cut off in this write,
\* if the name is no part of another's: as long as the proxy runs, however
\* often a write fails or the process is killed.
THEOREM NeverRegresses == ASSUME RecordingOnly PROVE StoreSpec => DiskNeverRegresses
<1>1. Init => GrowInv
  <2> SUFFICES ASSUME Init PROVE GrowInv
    OBVIOUS
  <2>1. Recording /\ \A s \in Services : Grows(s)
    BY StoreAssumption DEF Init, Recording, Grows, All, On, Updating
  <2> QED
    BY <2>1, TypeInit, Initially DEF GrowInv
<1>2. ASSUME GrowInv, [Next]_vars, NEW s \in Services, Distinctive(s), On(disk, s),
             NEW f \in Flushers, cur[f] = s
      PROVE  disk[s] \subseteq Content(disk'[s]) \cup lost'[s]
  <2>1. disk[s] \ lost[s] \subseteq copy[f] /\ disk[s] = Content(disk[s])
    BY <1>2 DEF GrowInv, Grows, OnFile, Content, On
  <2>2. CASE disk' = disk
    BY <2>1, <2>2
  <2>3. ASSUME NEW g \in Flushers, Replace(g)
        PROVE  disk[s] \subseteq Content(disk'[s]) \cup lost'[s]
    <3>1. g = f
      BY DEF RecordingOnly
    <3>2. disk \in [Services -> Specs] /\ lost \in [Services -> SUBSET Obs]
      BY <1>2 DEF GrowInv, TypeOK
    <3>3. PICK written \in SUBSET copy[f] :
                 disk'[s] = written /\ lost'[s] = lost[s] \cup (copy[f] \ written)
      BY <1>2, <2>3, <3>1, <3>2 DEF Replace
    <3>4. written \subseteq Obs
      BY <1>2, <3>3 DEF GrowInv, TypeOK
    <3> QED
      BY <2>1, <3>3, <3>4, StoreAssumption DEF Content
  <2>4. ASSUME NEW c \in Clients, Update(c) \/ Remove(c) PROVE disk' = disk
    <3>1. Update(c)
      BY <1>2, <2>4, NothingRemoved DEF GrowInv
    <3> QED
      BY <3>1 DEF Update, UpdateCall, LoadCached, LoadSimilar, LoadMisses, Resolve, ReadFile,
                  ReadFails, FillCache, Save, store
  <2>5. ASSUME Restart \/ UNCHANGED vars PROVE disk' = disk
    BY <2>5 DEF Restart, vars, store
  <2>6. ASSUME Flushing, \A g \in Flushers : ~Replace(g) PROVE disk' = disk
    BY <2>6 DEF Flushing, LoopChecks, LoopWakes, CloseStops, CloseFlushes, Flush, CopySpec,
                SkipDeleted, WriteFails, Clean, Restore, Mark, FlushEnds, store
  <2> QED
    BY <1>2, <2>2, <2>3, <2>4, <2>5, <2>6 DEF Next
<1>3. GrowInv /\ [Next]_vars =>
        [\A s \in {t \in Services : Distinctive(t)} :
            (On(disk, s) /\ \E f \in Flushers : cur[f] = s /\ flusher[f] = "write")
               => disk[s] \subseteq Content(disk'[s]) \cup lost'[s]]_vars
  BY <1>2
<1> QED
  BY <1>1, <1>3, GrowsStep, PTL DEF StoreSpec, DiskNeverRegresses
=============================================================================
