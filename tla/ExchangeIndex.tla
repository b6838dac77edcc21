---------------------------- MODULE ExchangeIndex ----------------------------
(***************************************************************************)
(* motim/exchange_db.py: ExchangeDB's raw exchanges and the tables derived *)
(* from them (services_index, endpoints_index, auth_snapshots).  The proxy *)
(* inserts and indexes an exchange in one transaction; the command line,   *)
(* in a process of its own, deletes a service, clears the database or      *)
(* rebuilds the derived tables.  A step is one SQLite transaction: WAL     *)
(* mode serialises those that write.                                       *)
(*                                                                         *)
(* An exchange is what indexing looks at: its service key, its endpoint    *)
(* (method and path template), its status and the names of its auth        *)
(* headers.  Its id orders it in time.  Left out: times, hosts, bodies.    *)
(***************************************************************************)
EXTENDS Integers, Sequences, FiniteSets

CONSTANTS
    Exchanges,     \* what may be captured: [key, endpoint, status, auth]
    NoAuth,        \* the auth of a request without auth headers
    None,          \* SQL NULL
    BatchSize,     \* batch_size of rebuild_derived
    MaxId          \* bound on exchanges ever inserted, for model checking

ASSUME IndexAssumption ==
    /\ BatchSize \in Nat \ {0} /\ MaxId \in Nat /\ None \notin Nat
    /\ \A x \in Exchanges :
          x = [key |-> x.key, endpoint |-> x.endpoint, status |-> x.status, auth |-> x.auth]

VARIABLES
    exchanges,     \* the exchanges table: a function from ids
    nextId,        \* AUTOINCREMENT: ids are never given again
    derived,       \* the derived tables
    rebuilder,     \* where rebuild_derived is
    rows,          \* the <<id, exchange>> it read and has not indexed yet
    snapshotOk,    \* nobody has committed since its open transaction read
    slipped,       \* history: the raw table changed behind a rebuild's back
    overtaken      \* history: an exchange was indexed before an older one

rebuild == <<rebuilder, rows>>
vars == <<exchanges, nextId, derived, rebuild, snapshotOk, slipped, overtaken>>

Successful(x) == x.status = "2xx"
Empty == [services |-> <<>>, endpoints |-> <<>>, snapshots |-> {}]
With(table, key, row) == [k \in DOMAIN table \cup {key} |-> IF k = key THEN row ELSE table[k]]
Without(table, gone) == [k \in DOMAIN table \ gone |-> table[k]]

Init ==
    /\ exchanges = <<>> /\ nextId = 1 /\ derived = Empty
    /\ rebuilder = "idle" /\ rows = <<>> /\ snapshotOk = FALSE
    /\ slipped = FALSE /\ overtaken = FALSE

-----------------------------------------------------------------------------
(* _update_indexes_no_commit()                                             *)

ServiceRow(d, x, isNew) ==
    LET old == IF x.key \in DOMAIN d.services THEN d.services[x.key]
               ELSE [count |-> 0, endpoints |-> 0, auth |-> FALSE]
    IN [count |-> old.count + 1,
        endpoints |-> old.endpoints + (IF isNew THEN 1 ELSE 0),
        auth |-> old.auth \/ x.auth # NoAuth]

\* Fault: the example is the last success, not the first.
EndpointRowNewest(d, id, x, e) ==
    LET old == IF e \in DOMAIN d.endpoints THEN d.endpoints[e]
               ELSE [count |-> 0, ok |-> 0, last |-> None, example |-> None]
    IN [count |-> old.count + 1,
        ok |-> old.ok + (IF Successful(x) THEN 1 ELSE 0),
        last |-> x.status,
        example |-> IF Successful(x) THEN id ELSE old.example]

\* Fault: any exchange serves as an example.
EndpointRowAnyExample(d, id, x, e) ==
    LET old == IF e \in DOMAIN d.endpoints THEN d.endpoints[e]
               ELSE [count |-> 0, ok |-> 0, last |-> None, example |-> None]
    IN [count |-> old.count + 1,
        ok |-> old.ok + (IF Successful(x) THEN 1 ELSE 0),
        last |-> x.status,
        example |-> IF old.example = None THEN id ELSE old.example]

\* Fault: the parameters of the two counters are swapped.
EndpointRowSwapped(d, id, x, e) ==
    LET old == IF e \in DOMAIN d.endpoints THEN d.endpoints[e]
               ELSE [count |-> 0, ok |-> 0, last |-> None, example |-> None]
    IN [count |-> old.count + (IF Successful(x) THEN 1 ELSE 0),
        ok |-> old.ok + 1,
        last |-> x.status,
        example |-> IF old.example = None /\ Successful(x) THEN id ELSE old.example]

EndpointRow(d, id, x, e) ==
    LET old == IF e \in DOMAIN d.endpoints THEN d.endpoints[e]
               ELSE [count |-> 0, ok |-> 0, last |-> None, example |-> None]
    IN [count |-> old.count + 1,
        ok |-> old.ok + (IF Successful(x) THEN 1 ELSE 0),
        last |-> x.status,
        example |-> IF old.example = None /\ Successful(x) THEN id ELSE old.example]

\* The latest snapshot of a service; ts and id order them alike.
Latest(d, key) ==
    LET of == {s \in d.snapshots : s.key = key}
    IN {s \in of : \A t \in of : t.source <= s.source}

Snapshots(d, id, x) ==
    IF /\ Successful(x) /\ x.auth # NoAuth
       /\ \A s \in Latest(d, x.key) : s.auth # x.auth
    THEN d.snapshots \cup {[key |-> x.key, auth |-> x.auth, source |-> id]}
    ELSE d.snapshots

Indexed(d, id, x) ==
    LET e == <<x.key, x.endpoint>> IN
    [services |-> With(d.services, x.key, ServiceRow(d, x, e \notin DOMAIN d.endpoints)),
     endpoints |-> With(d.endpoints, e, EndpointRow(d, id, x, e)),
     snapshots |-> Snapshots(d, id, x)]

-----------------------------------------------------------------------------
(* The proxy's transaction.  A batch is several exchanges in a row.        *)

Put(x) ==
    /\ nextId <= MaxId
    /\ exchanges' = With(exchanges, nextId, x)
    /\ derived' = Indexed(derived, nextId, x)
    /\ nextId' = nextId + 1
    /\ snapshotOk' = FALSE
    /\ slipped' = (slipped \/ rebuilder = "wiped")
    /\ overtaken' = (overtaken \/ rebuilder # "idle")
    /\ UNCHANGED rebuild

(* The command line's transactions.                                        *)

OfService(key) == {id \in DOMAIN exchanges : exchanges[id].key = key}

\* Fault: the endpoints of a deleted service stay.
DeleteKeepsEndpoints(key) ==
    /\ exchanges' = Without(exchanges, OfService(key))
    /\ derived' = [derived EXCEPT !.services = Without(@, {key}),
                                  !.snapshots = {s \in @ : s.key # key}]
    /\ snapshotOk' = FALSE
    /\ slipped' = (slipped \/ rebuilder \in {"read", "later"})
    /\ UNCHANGED <<nextId, rebuild, overtaken>>

\* delete_service(), of the key that resolve_service_key() came to.
Delete(key) ==
    /\ exchanges' = Without(exchanges, OfService(key))
    /\ LET ofKey == {e \in DOMAIN derived.endpoints : e[1] = key} IN
        derived' = [services |-> Without(derived.services, {key}),
                    endpoints |-> Without(derived.endpoints, ofKey),
                    snapshots |-> {s \in derived.snapshots : s.key # key}]
    /\ snapshotOk' = FALSE
    /\ slipped' = (slipped \/ rebuilder \in {"read", "later"})
    /\ UNCHANGED <<nextId, rebuild, overtaken>>

ClearAll ==
    /\ exchanges' = <<>> /\ derived' = Empty
    /\ snapshotOk' = FALSE
    /\ slipped' = (rebuilder \in {"read", "later"})
    /\ overtaken' = (overtaken /\ rebuilder # "idle")
    /\ UNCHANGED <<nextId, rebuild>>

(* rebuild_derived(): a transaction that empties the tables, then one that *)
(* reads every exchange and indexes them, committing after each batch.     *)

RebuildWipes ==
    /\ rebuilder = "idle" /\ rebuilder' = "wiped"
    /\ derived' = Empty
    /\ slipped' = FALSE /\ overtaken' = FALSE
    /\ UNCHANGED <<exchanges, nextId, rows, snapshotOk>>

\* The lists of all the ids in ascending order: there is one.
ById(ids) ==
    {list \in [1 .. Cardinality(ids) -> ids] :
        /\ ids = {list[i] : i \in DOMAIN list}
        /\ \A i, j \in DOMAIN list : i < j => list[i] < list[j]}

RebuildReads ==
    /\ rebuilder = "wiped" /\ rebuilder' = "read"
    /\ \E ids \in ById(DOMAIN exchanges) :
          rows' = [i \in 1 .. Cardinality(DOMAIN exchanges) |-> <<ids[i], exchanges[ids[i]]>>]
    /\ snapshotOk' = TRUE
    /\ UNCHANGED <<exchanges, nextId, derived, slipped, overtaken>>

\* The headers of a row are read when it is indexed: a deleted one has none.
Row(r) == [r[2] EXCEPT !.auth = IF r[1] \in DOMAIN exchanges THEN @ ELSE NoAuth]
IndexRow(d, r) == Indexed(d, r[1], Row(r))
Smaller(m, n) == IF m < n THEN m ELSE n

\* The tables when the first n rows are indexed, one after the other.
AfterRows(d, n) ==
    LET after[i \in 0 .. n] == IF i = 0 THEN d ELSE IndexRow(after[i - 1], rows[i])
    IN after[n]

\* A batch commits.  The first one runs on the snapshot the rows were read
\* from, so that it fails (SQLITE_BUSY_SNAPSHOT) when somebody committed
\* since; the later ones start on a new snapshot.
RebuildBatch ==
    /\ rows # <<>>
    /\ \/ rebuilder = "read" /\ snapshotOk
       \/ rebuilder = "later"
    /\ LET n == Smaller(BatchSize, Len(rows)) IN
        /\ derived' = AfterRows(derived, n)
        /\ rows' = SubSeq(rows, n + 1, Len(rows))
    /\ rebuilder' = "later"
    /\ UNCHANGED <<exchanges, nextId, snapshotOk, slipped, overtaken>>

RebuildEnds ==
    /\ rebuilder \in {"read", "later"} /\ rows = <<>>
    /\ rebuilder' = "idle"
    /\ UNCHANGED <<exchanges, nextId, derived, rows, snapshotOk, slipped, overtaken>>

\* A locked database, a stale snapshot or a kill: what is committed stays.
RebuildFails ==
    /\ rebuilder # "idle" /\ rebuilder' = "idle"
    /\ rows' = <<>>
    /\ slipped' = TRUE
    /\ UNCHANGED <<exchanges, nextId, derived, snapshotOk, overtaken>>

Rebuild == RebuildWipes \/ RebuildReads \/ RebuildBatch \/ RebuildEnds \/ RebuildFails

Keys == {x.key : x \in Exchanges}

Next ==
    \/ \E x \in Exchanges : Put(x)
    \/ \E key \in Keys : Delete(key)
    \/ ClearAll
    \/ Rebuild

Spec == Init /\ [][Next]_vars

-----------------------------------------------------------------------------
(* What the derived tables mean, told from the exchanges they stand for.   *)

OfKey(xs, key) == {id \in DOMAIN xs : xs[id].key = key}
OfEndpoint(xs, e) == {id \in DOMAIN xs : <<xs[id].key, xs[id].endpoint>> = e}
Least(ids) == CHOOSE i \in ids : \A j \in ids : i <= j
Greatest(ids) == CHOOSE i \in ids : \A j \in ids : i >= j

ServicesOf(xs) ==
    [key \in {xs[id].key : id \in DOMAIN xs} |->
        LET ids == OfKey(xs, key)
        IN [count |-> Cardinality(ids),
            endpoints |-> Cardinality({xs[id].endpoint : id \in ids}),
            auth |-> \E id \in ids : xs[id].auth # NoAuth]]

EndpointsOf(xs) ==
    [e \in {<<xs[id].key, xs[id].endpoint>> : id \in DOMAIN xs} |->
        LET ids == OfEndpoint(xs, e)
            ok == {id \in ids : Successful(xs[id])}
        IN [count |-> Cardinality(ids), ok |-> Cardinality(ok),
            last |-> xs[Greatest(ids)].status,
            example |-> IF ok = {} THEN None ELSE Least(ok)]]

\* An exchange left a snapshot when it is the first of its service or brings
\* other auth headers than the one before it.
Authed(xs) == {id \in DOMAIN xs : Successful(xs[id]) /\ xs[id].auth # NoAuth}
Before(xs, id) == {j \in Authed(xs) : j < id /\ xs[j].key = xs[id].key}
LeftSnapshot(xs) ==
    {id \in Authed(xs) : Before(xs, id) # {} => xs[Greatest(Before(xs, id))].auth # xs[id].auth}
SnapshotsOf(xs) ==
    {[key |-> xs[id].key, auth |-> xs[id].auth, source |-> id] : id \in LeftSnapshot(xs)}

Reference(xs) ==
    [services |-> ServicesOf(xs), endpoints |-> EndpointsOf(xs), snapshots |-> SnapshotsOf(xs)]

\* What a rebuild in progress has got to: everything but the rows it has left.
Waiting ==
    IF rebuilder = "wiped" THEN DOMAIN exchanges ELSE {rows[i][1] : i \in DOMAIN rows}
Covered == Without(exchanges, Waiting)

\* The columns that do not depend on the order of indexing.
Counts(d) ==
    [services |-> d.services,
     endpoints |-> [e \in DOMAIN d.endpoints |-> <<d.endpoints[e].count, d.endpoints[e].ok>>]]

(* Properties                                                              *)

\* The tables hold rows of the shape the schema gives them.
TypeOK ==
    /\ \A id \in DOMAIN exchanges : id \in 1..(nextId - 1) /\ exchanges[id] \in Exchanges
    /\ nextId \in 1..(MaxId + 1)
    /\ \A key \in DOMAIN derived.services : derived.services[key].count \in 1..(2 * MaxId)
    /\ \A e \in DOMAIN derived.endpoints : derived.endpoints[e].ok \in 0..derived.endpoints[e].count
    /\ rebuilder \in {"idle", "wiped", "read", "later"}
    /\ rebuilder \in {"idle", "wiped"} => rows = <<>>
    /\ {snapshotOk, slipped, overtaken} \subseteq BOOLEAN

\* Counting one exchange at a time keeps services_index and endpoints_index
\* what a recount of the exchanges table would give, through deletions and at
\* every step of a rebuild (of the rows it has passed), unless an exchange was
\* inserted before the rebuild read or deleted after it, or a rebuild failed.
CountsExact == ~slipped => Counts(derived) = Counts(Reference(Covered))

\* The columns that remember an order (last status, example exchange, auth
\* snapshots) are exact as well unless the proxy indexed an exchange while a
\* rebuild still had older ones to index.
OrderExact == ~slipped /\ ~overtaken => derived = Reference(Covered)

\* The example of an endpoint is a successful exchange that exists, so that
\* `motim show` can open it, also with a rebuild under way or overtaken.
ExampleExists ==
    ~slipped => \A e \in DOMAIN derived.endpoints :
        LET id == derived.endpoints[e].example IN
        id # None => /\ id \in DOMAIN exchanges
                     /\ Successful(exchanges[id])
                     /\ <<exchanges[id].key, exchanges[id].endpoint>> = e

\* rebuild_derived(): "Rebuild derived/index tables from raw exchanges."  When
\* it has gone through all of them the counts are those of the raw table.
RebuildIsExact ==
    [][RebuildEnds => Counts(derived) = Counts(Reference(exchanges))]_vars
=============================================================================
