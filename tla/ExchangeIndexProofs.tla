------------------------- MODULE ExchangeIndexProofs -------------------------
(***************************************************************************)
(* The derived tables for any exchanges, services and batches: what        *)
(* indexing and deleting do to tables that stand for a set of exchanges,   *)
(* and from it that the tables are what a recount gives, that the columns  *)
(* that remember an order are right when nothing overtook a rebuild, and   *)
(* that an example can be opened.                                          *)
(***************************************************************************)
EXTENDS ExchangeIndex, FiniteSetTheorems, SequenceTheorems, WellFoundedInduction, TLAPS

-----------------------------------------------------------------------------
(* The inductive invariant.                                                *)

\* Tables with rows of the right shape, none of them for nothing.
Shaped(d) ==
    /\ d = [services |-> d.services, endpoints |-> d.endpoints, snapshots |-> d.snapshots]
    /\ d.services \in [DOMAIN d.services -> [count : Nat \ {0}, endpoints : Nat, auth : BOOLEAN]]
    /\ d.endpoints = [e \in DOMAIN d.endpoints |-> d.endpoints[e]]
    /\ \A e \in DOMAIN d.endpoints :
          LET row == d.endpoints[e]
          IN row.count \in Nat /\ row.ok \in 0 .. row.count /\ row.example \in Nat \cup {None}

Within(d, n) == \A key \in DOMAIN d.services : d.services[key].count <= n

Examples(d, xs) ==
    \A e \in DOMAIN d.endpoints :
        LET id == d.endpoints[e].example
        IN id # None => /\ id \in DOMAIN xs /\ Successful(xs[id])
                        /\ <<xs[id].key, xs[id].endpoint>> = e

RawInv ==
    /\ exchanges \in [DOMAIN exchanges -> Exchanges]
    /\ nextId \in 1 .. MaxId + 1
    /\ DOMAIN exchanges \subseteq 1 .. nextId - 1
    /\ rebuilder \in {"idle", "wiped", "read", "later"}
    /\ {snapshotOk, slipped, overtaken} \subseteq BOOLEAN

\* The rows left are the exchanges they were read from, in order.
RowsInv ==
    /\ rows \in Seq((1 .. nextId - 1) \X Exchanges)
    /\ rebuilder \in {"idle", "wiped"} => rows = <<>>
    /\ \A i, j \in 1 .. Len(rows) : i < j => rows[i][1] < rows[j][1]
    /\ ~slipped => \A i \in 1 .. Len(rows) :
                      rows[i][1] \in DOMAIN exchanges /\ rows[i][2] = exchanges[rows[i][1]]

\* A rebuild counts an exchange a second time at most.
CountInv ==
    /\ Shaped(derived)
    /\ Within(derived, IF rebuilder = "wiped" THEN nextId - 1 ELSE 2 * (nextId - 1) - Len(rows))
    /\ Len(rows) <= nextId - 1

WipedInv == rebuilder = "wiped" /\ ~slipped => derived = Empty
AheadInv ==
    ~slipped /\ ~overtaken => \A id \in DOMAIN Covered : \A w \in Waiting : id < w

IInv ==
    /\ RawInv /\ RowsInv /\ CountInv /\ WipedInv /\ AheadInv
    /\ CountsExact /\ OrderExact /\ ExampleExists

-----------------------------------------------------------------------------
(* Least and greatest ids.                                                 *)

\* A set of numbers that is not empty has a least one, which CHOOSE gives.
LEMMA LeastIs ==
    ASSUME NEW ids \in SUBSET Nat, ids # {}
    PROVE  Least(ids) \in ids /\ \A j \in ids : Least(ids) <= j
<1>1. PICK m \in ids : \A y \in ids : ~(<<y, m>> \in OpToRel(<, Nat))
  BY NatLessThanWellFounded, WFMin, Zenon
<1>2. ASSUME NEW j \in ids PROVE m <= j
  <2>1. m \in Nat /\ j \in Nat
    OBVIOUS
  <2>2. ~(j < m)
    BY <1>1, <2>1, Zenon DEF OpToRel
  <2> QED BY <2>1, <2>2
<1>3. \A j \in ids : m <= j
  BY <1>2
<1> QED BY <1>1, <1>3, Zenon DEF Least

\* A member that is below all others is the one.
LEMMA LeastUnique ==
    ASSUME NEW ids \in SUBSET Nat, NEW m \in ids, \A j \in ids : m <= j
    PROVE  Least(ids) = m
<1>1. Least(ids) \in ids /\ \A j \in ids : Least(ids) <= j
  BY LeastIs
<1>2. Least(ids) <= m /\ m <= Least(ids) /\ Least(ids) \in Nat /\ m \in Nat
  BY <1>1
<1> QED BY <1>2

\* A finite set of numbers has a greatest one: otherwise the set of sizes of such sets
\* without one would have a least member.
LEMMA GreatestIs ==
    ASSUME NEW ids \in SUBSET Nat, IsFiniteSet(ids), ids # {}
    PROVE  Greatest(ids) \in ids /\ \A j \in ids : Greatest(ids) >= j
<1> DEFINE Has(S) == \E m \in S : \A j \in S : m >= j
           Sizes == {n \in Nat : \E S \in SUBSET Nat : /\ IsFiniteSet(S) /\ S # {}
                                                       /\ Cardinality(S) = n /\ ~Has(S)}
<1>1. Sizes = {}
  <2> SUFFICES ASSUME Sizes # {} PROVE FALSE
    OBVIOUS
  <2>1. Sizes \in SUBSET Nat
    OBVIOUS
  <2> DEFINE n == Least(Sizes)
  <2>2. n \in Sizes /\ \A k \in Sizes : n <= k
    <3> HIDE DEF Sizes
    <3> QED BY <2>1, LeastIs
  <2> HIDE DEF n
  <2>3. PICK S \in SUBSET Nat : IsFiniteSet(S) /\ S # {} /\ Cardinality(S) = n /\ ~Has(S)
    BY <2>2
  <2>4. PICK x \in S : TRUE
    BY <2>3
  <2> DEFINE T == S \ {x}
  <2>5. IsFiniteSet(T) /\ Cardinality(T) = n - 1 /\ n \in Nat
    BY <2>2, <2>3, FS_RemoveElement, FS_CardinalityType
  <2>6. T # {}
    BY <2>3, <2>4
  <2>7. n - 1 \in Nat
    BY <2>5, FS_CardinalityType
  <2>8. Has(T)
    <3>1. n - 1 \notin Sizes
      <4> HIDE DEF Sizes
      <4> QED BY <2>2, <2>7, <2>5
    <3> HIDE DEF Has, T
    <3> QED BY <2>5, <2>6, <2>7, <3>1 DEF T
  <2>9. PICK m \in T : \A j \in T : m >= j
    BY <2>8
  <2>10. m \in Nat /\ x \in Nat /\ m \in S
    OBVIOUS
  <2>11. CASE x <= m
    <3>1. \A j \in S : m >= j
      BY <2>9, <2>10, <2>11
    <3> QED BY <2>3, <2>10, <3>1
  <2>12. CASE x > m
    <3>1. \A j \in S : x >= j
      BY <2>9, <2>10, <2>12
    <3> QED BY <2>3, <2>4, <3>1
  <2> QED BY <2>10, <2>11, <2>12
<1>2. Has(ids)
  <2>1. Cardinality(ids) \in Nat /\ Cardinality(ids) \notin Sizes
    BY <1>1, FS_CardinalityType
  <2> HIDE DEF Has
  <2> QED BY <2>1
<1>3. PICK m \in ids : \A j \in ids : m >= j
  BY <1>2
<1> QED BY <1>3, Zenon DEF Greatest

\* A member that is above all others is the greatest one.
LEMMA GreatestUnique ==
    ASSUME NEW ids \in SUBSET Nat, NEW m \in ids, \A j \in ids : m >= j
    PROVE  Greatest(ids) = m
<1>1. \E g \in ids : \A j \in ids : g >= j
  OBVIOUS
<1>2. Greatest(ids) \in ids /\ \A j \in ids : Greatest(ids) >= j
  BY <1>1, Zenon DEF Greatest
<1>3. Greatest(ids) <= m /\ m <= Greatest(ids) /\ Greatest(ids) \in Nat /\ m \in Nat
  BY <1>2
<1> QED BY <1>3

-----------------------------------------------------------------------------
(* Sets of exchanges, with one more or without some.                       *)

Log(xs) ==
    xs \in [DOMAIN xs -> Exchanges] /\ DOMAIN xs \in SUBSET Nat /\ IsFiniteSet(DOMAIN xs)

\* ys is xs with the exchange x under the new id.
Adds(ys, xs, id, x) ==
    /\ DOMAIN ys = DOMAIN xs \cup {id} /\ ys[id] = x
    /\ \A j \in DOMAIN xs : ys[j] = xs[j]

Later(id, xs) == \A j \in DOMAIN xs : j < id

\* A log with a new exchange is a log.
LEMMA WithLog ==
    ASSUME NEW xs, Log(xs), NEW id, id \in Nat, id \notin DOMAIN xs, NEW x, x \in Exchanges
    PROVE  Log(With(xs, id, x)) /\ Adds(With(xs, id, x), xs, id, x)
<1>1. IsFiniteSet(DOMAIN xs \cup {id})
  BY FS_AddElement DEF Log
<1> QED BY <1>1 DEF Log, With, Adds

\* A log without some of its exchanges is a log.
LEMMA WithoutLog ==
    ASSUME NEW xs, Log(xs), NEW gone
    PROVE  /\ Log(Without(xs, gone))
           /\ DOMAIN Without(xs, gone) = DOMAIN xs \ gone
           /\ \A j \in DOMAIN xs \ gone : Without(xs, gone)[j] = xs[j]
<1>1. IsFiniteSet(DOMAIN xs \ gone)
  BY FS_Subset DEF Log
<1> QED BY <1>1 DEF Log, Without

\* The exchanges of a service, of an endpoint and with auth are finitely many of the log's.
LEMMA LogParts ==
    ASSUME NEW xs, Log(xs), NEW key, NEW e
    PROVE  /\ OfKey(xs, key) \in SUBSET DOMAIN xs /\ IsFiniteSet(OfKey(xs, key))
           /\ OfEndpoint(xs, e) \in SUBSET DOMAIN xs /\ IsFiniteSet(OfEndpoint(xs, e))
           /\ Authed(xs) \in SUBSET DOMAIN xs /\ IsFiniteSet(Authed(xs))
           /\ DOMAIN xs \in SUBSET Nat
<1>1. /\ OfKey(xs, key) \in SUBSET DOMAIN xs /\ OfEndpoint(xs, e) \in SUBSET DOMAIN xs
      /\ Authed(xs) \in SUBSET DOMAIN xs
  BY DEF OfKey, OfEndpoint, Authed
<1> QED BY <1>1, FS_Subset DEF Log

\* One exchange more belongs to its service and its endpoint.
LEMMA PartsWith ==
    ASSUME NEW xs, Log(xs), NEW id \in Nat \ DOMAIN xs, NEW x \in Exchanges, NEW key, NEW e
    PROVE  /\ OfKey(With(xs, id, x), key) =
                  IF key = x.key THEN OfKey(xs, key) \cup {id} ELSE OfKey(xs, key)
           /\ OfEndpoint(With(xs, id, x), e) =
                  IF e = <<x.key, x.endpoint>> THEN OfEndpoint(xs, e) \cup {id} ELSE OfEndpoint(xs, e)
           /\ id \notin OfKey(xs, key) /\ id \notin OfEndpoint(xs, e)
<1> DEFINE ys == With(xs, id, x)
<1>1. /\ DOMAIN ys = DOMAIN xs \cup {id} /\ ys[id] = x
      /\ \A j \in DOMAIN xs : ys[j] = xs[j]
  <2>1. Adds(ys, xs, id, x)
    BY WithLog
  <2> QED BY <2>1 DEF Adds
<1> HIDE DEF ys
<1>2. OfKey(ys, key) = IF key = x.key THEN OfKey(xs, key) \cup {id} ELSE OfKey(xs, key)
  BY <1>1 DEF OfKey
<1>3. OfEndpoint(ys, e) = IF e = <<x.key, x.endpoint>> THEN OfEndpoint(xs, e) \cup {id}
                          ELSE OfEndpoint(xs, e)
  BY <1>1 DEF OfEndpoint
<1> QED BY <1>2, <1>3 DEF ys, OfKey, OfEndpoint

-----------------------------------------------------------------------------
(* services_index.                                                         *)

\* The row of a service, also of one that has no exchange.
ServiceOf(xs, key) ==
    [count |-> Cardinality(OfKey(xs, key)),
     endpoints |-> Cardinality({xs[id].endpoint : id \in OfKey(xs, key)}),
     auth |-> \E id \in OfKey(xs, key) : xs[id].auth # NoAuth]

\* ServicesOf() has the services with exchanges; for another one the row would be the one
\* that indexing starts from.
LEMMA ServiceRows ==
    ASSUME NEW xs
    PROVE  /\ ServicesOf(xs) = [key \in {xs[id].key : id \in DOMAIN xs} |-> ServiceOf(xs, key)]
           /\ \A key : key \notin DOMAIN ServicesOf(xs) =>
                          ServiceOf(xs, key) = [count |-> 0, endpoints |-> 0, auth |-> FALSE]
<1>1. ServicesOf(xs) = [key \in {xs[id].key : id \in DOMAIN xs} |-> ServiceOf(xs, key)]
  BY DEF ServicesOf, ServiceOf
<1>2. ASSUME NEW key, key \notin DOMAIN ServicesOf(xs)
      PROVE  ServiceOf(xs, key) = [count |-> 0, endpoints |-> 0, auth |-> FALSE]
  <2>1. OfKey(xs, key) = {}
    BY <1>1, <1>2 DEF OfKey
  <2>2. {xs[id].endpoint : id \in OfKey(xs, key)} = {}
    BY <2>1
  <2>3. Cardinality({}) = 0
    BY FS_EmptySet
  <2> QED BY <2>1, <2>2, <2>3 DEF ServiceOf
<1> QED BY <1>1, <1>2

\* Indexing makes the row of the exchange's service what a recount gives.
LEMMA ServiceCounted ==
    ASSUME NEW xs, Log(xs), NEW id \in Nat \ DOMAIN xs, NEW x \in Exchanges,
           NEW d, d.services = ServicesOf(xs), DOMAIN d.endpoints = DOMAIN EndpointsOf(xs)
    PROVE  ServiceRow(d, x, <<x.key, x.endpoint>> \notin DOMAIN d.endpoints) =
               ServiceOf(With(xs, id, x), x.key)
<1> DEFINE ys == With(xs, id, x)
           key == x.key
           ids == OfKey(xs, key)
           names == {xs[i].endpoint : i \in ids}
           old == ServiceOf(xs, key)
           isNew == <<x.key, x.endpoint>> \notin DOMAIN d.endpoints
<1>1. /\ DOMAIN ys = DOMAIN xs \cup {id} /\ ys[id] = x
      /\ \A j \in DOMAIN xs : ys[j] = xs[j]
  <2>1. Adds(ys, xs, id, x)
    BY WithLog
  <2> QED BY <2>1 DEF Adds
<1>2. OfKey(ys, key) = ids \cup {id} /\ id \notin ids
  BY PartsWith
<1>3. ids \in SUBSET DOMAIN xs /\ IsFiniteSet(ids)
  BY LogParts
<1>4. Cardinality(ids) \in Nat /\ Cardinality(ids \cup {id}) = Cardinality(ids) + 1
  BY <1>2, <1>3, FS_AddElement, FS_CardinalityType
<1>5. IsFiniteSet(names)
  <2> DEFINE f == [i \in ids |-> xs[i].endpoint]
  <2>1. f \in Surjection(ids, names)
    <3> HIDE DEF ids
    <3> QED BY DEF Surjection
  <2> HIDE DEF f, ids, names
  <2> QED BY <1>3, <2>1, FS_Surjection
<1>6. {ys[i].endpoint : i \in OfKey(ys, key)} = names \cup {x.endpoint}
  <2> HIDE DEF ys, ids
  <2> QED BY <1>1, <1>2, <1>3
<1>7. isNew <=> x.endpoint \notin names
  BY DEF EndpointsOf, OfKey
<1>8. Cardinality(names \cup {x.endpoint}) = Cardinality(names) + (IF isNew THEN 1 ELSE 0)
      /\ Cardinality(names) \in Nat
  <2> HIDE DEF names
  <2>1. CASE isNew
    BY <1>5, <1>7, <2>1, FS_AddElement, FS_CardinalityType
  <2>2. CASE ~isNew
    <3>1. names \cup {x.endpoint} = names
      BY <1>7, <2>2
    <3>2. Cardinality(names) \in Nat
      BY <1>5, FS_CardinalityType
    <3>3. Cardinality(names \cup {x.endpoint}) = Cardinality(names)
      BY <3>1, Zenon
    <3>4. (IF isNew THEN 1 ELSE 0) = 0
      BY <2>2, Zenon
    <3> QED BY <3>2, <3>3, <3>4
  <2> QED BY <2>1, <2>2
<1>9. (\E i \in OfKey(ys, key) : ys[i].auth # NoAuth) <=> (\E i \in ids : xs[i].auth # NoAuth) \/ x.auth # NoAuth
  <2> HIDE DEF ys, ids
  <2> QED BY <1>1, <1>2, <1>3
<1>10. old = IF key \in DOMAIN d.services THEN d.services[key]
             ELSE [count |-> 0, endpoints |-> 0, auth |-> FALSE]
  <2>1. CASE key \in DOMAIN d.services
    <3>1. ServicesOf(xs) = [k \in {xs[i].key : i \in DOMAIN xs} |-> ServiceOf(xs, k)]
      BY ServiceRows
    <3> HIDE DEF key, ys
    <3>2. ServicesOf(xs)[key] = ServiceOf(xs, key)
      BY <2>1, <3>1
    <3> HIDE DEF old
    <3> QED BY <2>1, <3>2 DEF old
  <2>2. CASE key \notin DOMAIN d.services
    <3>1. key \notin DOMAIN ServicesOf(xs)
      BY <2>2
    <3>2. ServiceOf(xs, key) = [count |-> 0, endpoints |-> 0, auth |-> FALSE]
      <4> HIDE DEF key
      <4> QED BY <3>1, ServiceRows, Zenon
    <3> HIDE DEF old, key
    <3> QED BY <2>2, <3>2 DEF old
  <2> QED BY <2>1, <2>2
<1> DEFINE new == ServiceOf(ys, key)
<1>11. ServiceRow(d, x, isNew) = [count |-> old.count + 1,
                                  endpoints |-> old.endpoints + (IF isNew THEN 1 ELSE 0),
                                  auth |-> old.auth \/ x.auth # NoAuth]
  <2> HIDE DEF old
  <2> QED BY <1>10 DEF ServiceRow
<1>12. old.count = Cardinality(ids) /\ old.endpoints = Cardinality(names)
       /\ (old.auth <=> \E i \in ids : xs[i].auth # NoAuth)
  BY DEF ServiceOf
<1>13. new = [count |-> old.count + 1,
              endpoints |-> old.endpoints + (IF isNew THEN 1 ELSE 0),
              auth |-> old.auth \/ x.auth # NoAuth]
  <2>1. Cardinality(OfKey(ys, key)) = old.count + 1
    <3> HIDE DEF old, ys, ids
    <3> QED BY <1>2, <1>4, <1>12
  <2>2. Cardinality({ys[i].endpoint : i \in OfKey(ys, key)}) = old.endpoints + (IF isNew THEN 1 ELSE 0)
    <3> HIDE DEF old, ys, ids, names
    <3> QED BY <1>6, <1>8, <1>12
  <2>3. (\E i \in OfKey(ys, key) : ys[i].auth # NoAuth) <=> old.auth \/ x.auth # NoAuth
    <3> HIDE DEF old, ys, ids, names
    <3> QED BY <1>9, <1>12
  <2> HIDE DEF old, ys, ids, names
  <2> QED BY <2>1, <2>2, <2>3, Zenon DEF new, ServiceOf
<1> QED BY <1>11, <1>13

\* The rows of the other services stay right.
LEMMA ServicesCounted ==
    ASSUME NEW xs, Log(xs), NEW id \in Nat \ DOMAIN xs, NEW x \in Exchanges,
           NEW d, d.services = ServicesOf(xs), DOMAIN d.endpoints = DOMAIN EndpointsOf(xs)
    PROVE  Indexed(d, id, x).services = ServicesOf(With(xs, id, x))
<1> DEFINE ys == With(xs, id, x)
<1>1. /\ DOMAIN ys = DOMAIN xs \cup {id} /\ ys[id] = x
      /\ \A j \in DOMAIN xs : ys[j] = xs[j]
  <2>1. Adds(ys, xs, id, x)
    BY WithLog
  <2> QED BY <2>1 DEF Adds
<1> DEFINE row == ServiceRow(d, x, <<x.key, x.endpoint>> \notin DOMAIN d.endpoints)
           new == With(d.services, x.key, row)
           keys(zs) == {zs[i].key : i \in DOMAIN zs}
<1>2. row = ServiceOf(ys, x.key)
  BY ServiceCounted
<1>3. keys(ys) = keys(xs) \cup {x.key}
  <2> HIDE DEF ys
  <2> QED BY <1>1
<1>4. /\ ServicesOf(xs) = [key \in keys(xs) |-> ServiceOf(xs, key)]
      /\ ServicesOf(ys) = [key \in keys(ys) |-> ServiceOf(ys, key)]
  BY ServiceRows
<1>5. ASSUME NEW key \in keys(xs), key # x.key
      PROVE  ServiceOf(ys, key) = ServiceOf(xs, key)
  <2>1. OfKey(ys, key) = OfKey(xs, key)
    BY <1>5, PartsWith
  <2>2. \A i \in OfKey(xs, key) : ys[i] = xs[i]
    BY <1>1 DEF OfKey
  <2> HIDE DEF ys
  <2>3. {ys[i].endpoint : i \in OfKey(ys, key)} = {xs[i].endpoint : i \in OfKey(xs, key)}
    BY <2>1, <2>2
  <2>4. (\E i \in OfKey(ys, key) : ys[i].auth # NoAuth) <=> (\E i \in OfKey(xs, key) : xs[i].auth # NoAuth)
    BY <2>1, <2>2
  <2> QED BY <2>1, <2>3, <2>4, Zenon DEF ServiceOf
<1>6. new = [key \in keys(xs) \cup {x.key} |-> IF key = x.key THEN row ELSE ServicesOf(xs)[key]]
  <2> HIDE DEF row
  <2> QED BY <1>4 DEF With
<1>7. new = ServicesOf(ys)
  <2> HIDE DEF new, row, ys, keys
  <2>1. \A key \in keys(xs) \cup {x.key} :
           (IF key = x.key THEN row ELSE ServicesOf(xs)[key]) = ServiceOf(ys, key)
    BY <1>2, <1>4, <1>5
  <2> QED BY <1>3, <1>4, <1>6, <2>1
<1> QED BY <1>7 DEF Indexed

-----------------------------------------------------------------------------
(* endpoints_index.                                                        *)

Succeeded(xs, e) == {id \in OfEndpoint(xs, e) : Successful(xs[id])}
EndpointOf(xs, e) ==
    [count |-> Cardinality(OfEndpoint(xs, e)), ok |-> Cardinality(Succeeded(xs, e)),
     last |-> xs[Greatest(OfEndpoint(xs, e))].status,
     example |-> IF Succeeded(xs, e) = {} THEN None ELSE Least(Succeeded(xs, e))]
NoEndpoint == [count |-> 0, ok |-> 0, last |-> None, example |-> None]

\* EndpointsOf() has the endpoints with exchanges.
LEMMA EndpointRows ==
    ASSUME NEW xs
    PROVE  EndpointsOf(xs) = [e \in {<<xs[id].key, xs[id].endpoint>> : id \in DOMAIN xs} |->
                                 EndpointOf(xs, e)]
BY DEF EndpointsOf, EndpointOf, Succeeded

\* An exchange more at its endpoint.
LEMMA SucceededWith ==
    ASSUME NEW xs, Log(xs), NEW id \in Nat \ DOMAIN xs, NEW x \in Exchanges, NEW e
    PROVE  /\ Succeeded(With(xs, id, x), e) =
                  IF e = <<x.key, x.endpoint>> /\ Successful(x) THEN Succeeded(xs, e) \cup {id}
                  ELSE Succeeded(xs, e)
           /\ id \notin Succeeded(xs, e) /\ IsFiniteSet(Succeeded(xs, e))
           /\ Succeeded(xs, e) \in SUBSET OfEndpoint(xs, e)
<1> DEFINE ys == With(xs, id, x)
<1>1. /\ DOMAIN ys = DOMAIN xs \cup {id} /\ ys[id] = x
      /\ \A j \in DOMAIN xs : ys[j] = xs[j]
  <2>1. Adds(ys, xs, id, x)
    BY WithLog
  <2> QED BY <2>1 DEF Adds
<1>2. /\ OfEndpoint(ys, e) = IF e = <<x.key, x.endpoint>> THEN OfEndpoint(xs, e) \cup {id}
                             ELSE OfEndpoint(xs, e)
      /\ id \notin OfEndpoint(xs, e)
  BY PartsWith
<1>3. OfEndpoint(xs, e) \in SUBSET DOMAIN xs /\ IsFiniteSet(OfEndpoint(xs, e))
  BY LogParts
<1> HIDE DEF ys
<1>4. Succeeded(xs, e) \in SUBSET OfEndpoint(xs, e)
  BY DEF Succeeded
<1>5. Succeeded(ys, e) = IF e = <<x.key, x.endpoint>> /\ Successful(x) THEN Succeeded(xs, e) \cup {id}
                         ELSE Succeeded(xs, e)
  BY <1>1, <1>2, <1>3 DEF Succeeded
<1>6. IsFiniteSet(Succeeded(xs, e))
  BY <1>3, <1>4, FS_Subset
<1> QED BY <1>2, <1>4, <1>5, <1>6 DEF ys

\* The counters of the endpoint of a new exchange.
LEMMA EndpointCounted ==
    ASSUME NEW xs, Log(xs), NEW id \in Nat \ DOMAIN xs, NEW x \in Exchanges,
           NEW d, NEW e, e = <<x.key, x.endpoint>>, e \in DOMAIN d.endpoints <=> e \in DOMAIN EndpointsOf(xs),
           e \in DOMAIN d.endpoints => /\ d.endpoints[e].count = EndpointOf(xs, e).count
                                       /\ d.endpoints[e].ok = EndpointOf(xs, e).ok
    PROVE  /\ EndpointRow(d, id, x, e).count = EndpointOf(With(xs, id, x), e).count
           /\ EndpointRow(d, id, x, e).ok = EndpointOf(With(xs, id, x), e).ok
<1> DEFINE ys == With(xs, id, x)
           ids == OfEndpoint(xs, e)
           oks == Succeeded(xs, e)
           old == IF e \in DOMAIN d.endpoints THEN d.endpoints[e] ELSE NoEndpoint
           row == EndpointRow(d, id, x, e)
<1>1. OfEndpoint(ys, e) = ids \cup {id} /\ id \notin ids /\ IsFiniteSet(ids)
  BY PartsWith, LogParts
<1>2. /\ Succeeded(ys, e) = IF Successful(x) THEN oks \cup {id} ELSE oks
      /\ id \notin oks /\ IsFiniteSet(oks)
  BY SucceededWith
<1>3. /\ row.count = old.count + 1
      /\ row.ok = old.ok + (IF Successful(x) THEN 1 ELSE 0)
  BY DEF EndpointRow, NoEndpoint
<1>4. old.count = Cardinality(ids) /\ old.ok = Cardinality(oks)
  <2>1. CASE e \in DOMAIN d.endpoints
    BY <2>1 DEF EndpointOf
  <2>2. CASE e \notin DOMAIN d.endpoints
    <3>1. ids = {}
      BY <2>2, EndpointRows DEF OfEndpoint
    <3>2. oks = {}
      BY <3>1 DEF Succeeded
    <3>3. old.count = 0 /\ old.ok = 0
      BY <2>2 DEF NoEndpoint
    <3> HIDE DEF old, ids, oks
    <3> QED BY <3>1, <3>2, <3>3, FS_EmptySet
  <2> QED BY <2>1, <2>2
<1> HIDE DEF ids, oks, old, row
<1>5. Cardinality(ids) \in Nat /\ Cardinality(oks) \in Nat
  BY <1>1, <1>2, FS_CardinalityType
<1>6. Cardinality(OfEndpoint(ys, e)) = Cardinality(ids) + 1
  BY <1>1, FS_AddElement
<1>7. Cardinality(Succeeded(ys, e)) = Cardinality(oks) + (IF Successful(x) THEN 1 ELSE 0)
  <2>1. CASE Successful(x)
    BY <1>2, <2>1, FS_AddElement
  <2>2. CASE ~Successful(x)
    BY <1>2, <1>5, <2>2
  <2> QED BY <2>1, <2>2
<1>8. /\ EndpointOf(ys, e).count = Cardinality(OfEndpoint(ys, e))
      /\ EndpointOf(ys, e).ok = Cardinality(Succeeded(ys, e))
  BY DEF EndpointOf
<1> QED BY <1>3, <1>4, <1>6, <1>7, <1>8 DEF row

\* What the tables have in common with a recount: Counts() as statements.
LEMMA CountsMean ==
    ASSUME NEW d, NEW xs
    PROVE  Counts(d) = Counts(Reference(xs)) <=>
              /\ d.services = ServicesOf(xs)
              /\ DOMAIN d.endpoints = DOMAIN EndpointsOf(xs)
              /\ \A e \in DOMAIN d.endpoints : /\ d.endpoints[e].count = EndpointOf(xs, e).count
                                               /\ d.endpoints[e].ok = EndpointOf(xs, e).ok
<1> DEFINE Pairs(rs) == [e \in DOMAIN rs |-> <<rs[e].count, rs[e].ok>>]
           theirs == EndpointsOf(xs)
<1>1. Counts(d) = [services |-> d.services, endpoints |-> Pairs(d.endpoints)]
  BY DEF Counts
<1>2. Counts(Reference(xs)) = [services |-> ServicesOf(xs), endpoints |-> Pairs(theirs)]
  BY DEF Counts, Reference
<1>3. \A e \in DOMAIN theirs : theirs[e] = EndpointOf(xs, e)
  BY EndpointRows
<1> HIDE DEF theirs
<1>4. Pairs(d.endpoints) = Pairs(theirs) <=>
         /\ DOMAIN d.endpoints = DOMAIN theirs
         /\ \A e \in DOMAIN d.endpoints : /\ d.endpoints[e].count = theirs[e].count
                                          /\ d.endpoints[e].ok = theirs[e].ok
  <2> DEFINE p == Pairs(d.endpoints)  q == Pairs(theirs)
  <2>1. /\ DOMAIN p = DOMAIN d.endpoints /\ DOMAIN q = DOMAIN theirs
        /\ \A e \in DOMAIN d.endpoints : p[e] = <<d.endpoints[e].count, d.endpoints[e].ok>>
        /\ \A e \in DOMAIN theirs : q[e] = <<theirs[e].count, theirs[e].ok>>
    OBVIOUS
  <2>2. ASSUME p = q
        PROVE  /\ DOMAIN d.endpoints = DOMAIN theirs
               /\ \A e \in DOMAIN d.endpoints : /\ d.endpoints[e].count = theirs[e].count
                                                /\ d.endpoints[e].ok = theirs[e].ok
    <3> HIDE DEF p, q
    <3> QED BY <2>1, <2>2
  <2>3. ASSUME /\ DOMAIN d.endpoints = DOMAIN theirs
               /\ \A e \in DOMAIN d.endpoints : /\ d.endpoints[e].count = theirs[e].count
                                                /\ d.endpoints[e].ok = theirs[e].ok
        PROVE  p = q
    BY <2>3
  <2> QED BY <2>2, <2>3
<1>5. Counts(d) = Counts(Reference(xs)) <=> d.services = ServicesOf(xs) /\ Pairs(d.endpoints) = Pairs(theirs)
  <2> DEFINE p == Pairs(d.endpoints)  q == Pairs(theirs)
             a == d.services          b == ServicesOf(xs)
             c == Counts(d)           r == Counts(Reference(xs))
  <2> HIDE DEF p, q, a, b, c, r
  <2>1. c = [services |-> a, endpoints |-> p] /\ r = [services |-> b, endpoints |-> q]
    BY <1>1, <1>2 DEF p, q, a, b, c, r
  <2>2. ASSUME c = r PROVE a = b /\ p = q
    <3>1. c.services = a /\ c.endpoints = p /\ r.services = b /\ r.endpoints = q
      BY <2>1
    <3> QED BY <2>2, <3>1
  <2>3. ASSUME a = b, p = q PROVE c = r
    BY <2>1, <2>3
  <2>4. c = r <=> a = b /\ p = q
    BY <2>2, <2>3
  <2> QED BY <2>4 DEF p, q, a, b, c, r
<1>6. DOMAIN d.endpoints = DOMAIN theirs =>
         \A e \in DOMAIN d.endpoints : theirs[e] = EndpointOf(xs, e)
  BY <1>3
<1> QED BY <1>4, <1>5, <1>6 DEF theirs

\* Another endpoint's row has the same columns as before.
LEMMA EndpointElsewhere ==
    ASSUME NEW xs, Log(xs), NEW id \in Nat \ DOMAIN xs, NEW x \in Exchanges,
           NEW e \in DOMAIN EndpointsOf(xs), e # <<x.key, x.endpoint>>
    PROVE  EndpointOf(With(xs, id, x), e) = EndpointOf(xs, e)
<1> DEFINE ys == With(xs, id, x)
           ids == OfEndpoint(xs, e)
<1>1. \A j \in DOMAIN xs : ys[j] = xs[j]
  <2>1. Adds(ys, xs, id, x)
    BY WithLog
  <2> QED BY <2>1 DEF Adds
<1>2. OfEndpoint(ys, e) = ids /\ Succeeded(ys, e) = Succeeded(xs, e)
  BY PartsWith, SucceededWith
<1>3. ids # {} /\ ids \in SUBSET DOMAIN xs /\ IsFiniteSet(ids) /\ DOMAIN xs \in SUBSET Nat
  BY EndpointRows, LogParts DEF OfEndpoint
<1>4. Greatest(ids) \in DOMAIN xs
  <2> HIDE DEF ids
  <2> QED BY <1>3, GreatestIs
<1> HIDE DEF ys, ids
<1>5. ys[Greatest(OfEndpoint(ys, e))].status = xs[Greatest(ids)].status
  BY <1>1, <1>2, <1>4
<1> QED BY <1>2, <1>5 DEF EndpointOf, ys, ids

\* Indexing a new exchange makes the counts those of a recount with it.
LEMMA CountsIndexed ==
    ASSUME NEW xs, Log(xs), NEW id \in Nat \ DOMAIN xs, NEW x \in Exchanges,
           NEW d, Counts(d) = Counts(Reference(xs))
    PROVE  Counts(Indexed(d, id, x)) = Counts(Reference(With(xs, id, x)))
<1> DEFINE ys == With(xs, id, x)
           e == <<x.key, x.endpoint>>
           new == Indexed(d, id, x)
           row == EndpointRow(d, id, x, e)
<1>1. /\ d.services = ServicesOf(xs)
      /\ DOMAIN d.endpoints = DOMAIN EndpointsOf(xs)
      /\ \A f \in DOMAIN d.endpoints : /\ d.endpoints[f].count = EndpointOf(xs, f).count
                                       /\ d.endpoints[f].ok = EndpointOf(xs, f).ok
  BY CountsMean
<1>2. new.services = ServicesOf(ys)
  BY <1>1, ServicesCounted
<1>3. /\ DOMAIN new.endpoints = DOMAIN d.endpoints \cup {e}
      /\ new.endpoints[e] = row
      /\ \A f \in DOMAIN d.endpoints : f # e => new.endpoints[f] = d.endpoints[f]
  <2> HIDE DEF row
  <2> QED BY DEF Indexed, With, row
<1>4. DOMAIN EndpointsOf(ys) = DOMAIN EndpointsOf(xs) \cup {e}
  <2>1. /\ DOMAIN ys = DOMAIN xs \cup {id} /\ ys[id] = x
        /\ \A j \in DOMAIN xs : ys[j] = xs[j]
    <3>1. Adds(ys, xs, id, x)
      BY WithLog
    <3> QED BY <3>1 DEF Adds
  <2>2. /\ DOMAIN EndpointsOf(ys) = {<<ys[i].key, ys[i].endpoint>> : i \in DOMAIN ys}
        /\ DOMAIN EndpointsOf(xs) = {<<xs[i].key, xs[i].endpoint>> : i \in DOMAIN xs}
    BY EndpointRows
  <2> HIDE DEF ys
  <2> QED BY <2>1, <2>2
<1>5. row.count = EndpointOf(ys, e).count /\ row.ok = EndpointOf(ys, e).ok
  BY <1>1, EndpointCounted
<1>6. \A f \in DOMAIN d.endpoints : f # e => EndpointOf(ys, f) = EndpointOf(xs, f)
  BY <1>1, EndpointElsewhere
<1>7. \A f \in DOMAIN new.endpoints : /\ new.endpoints[f].count = EndpointOf(ys, f).count
                                      /\ new.endpoints[f].ok = EndpointOf(ys, f).ok
  <2> HIDE DEF new, ys, row, e
  <2> QED BY <1>1, <1>3, <1>5, <1>6
<1>8. DOMAIN new.endpoints = DOMAIN EndpointsOf(ys)
  BY <1>1, <1>3, <1>4
<1> HIDE DEF new, ys
<1>9. Counts(new) = Counts(Reference(ys))
  BY <1>2, <1>7, <1>8, CountsMean
<1> QED BY <1>9 DEF new, ys

\* The whole row, when the new exchange is later than those counted.
LEMMA EndpointOrdered ==
    ASSUME NEW xs, Log(xs), NEW id \in Nat \ DOMAIN xs, NEW x \in Exchanges, Later(id, xs),
           NEW d, d.endpoints = EndpointsOf(xs), NEW e, e = <<x.key, x.endpoint>>
    PROVE  EndpointRow(d, id, x, e) = EndpointOf(With(xs, id, x), e)
<1> DEFINE ys == With(xs, id, x)
           ids == OfEndpoint(xs, e)
           oks == Succeeded(xs, e)
           old == IF e \in DOMAIN d.endpoints THEN d.endpoints[e] ELSE NoEndpoint
           row == EndpointRow(d, id, x, e)
<1>1. ys[id] = x
  <2>1. Adds(ys, xs, id, x)
    BY WithLog
  <2> QED BY <2>1 DEF Adds
<1>2. OfEndpoint(ys, e) = ids \cup {id} /\ ids \in SUBSET DOMAIN xs /\ IsFiniteSet(ids)
      /\ DOMAIN xs \in SUBSET Nat
  BY PartsWith, LogParts
<1>3. /\ Succeeded(ys, e) = IF Successful(x) THEN oks \cup {id} ELSE oks
      /\ id \notin oks /\ IsFiniteSet(oks) /\ oks \in SUBSET ids
  BY SucceededWith
<1>4. row = [count |-> old.count + 1,
             ok |-> old.ok + (IF Successful(x) THEN 1 ELSE 0),
             last |-> x.status,
             example |-> IF old.example = None /\ Successful(x) THEN id ELSE old.example]
  BY DEF EndpointRow, NoEndpoint
<1>5. row.count = EndpointOf(ys, e).count /\ row.ok = EndpointOf(ys, e).ok
  <2>1. e \in DOMAIN d.endpoints => d.endpoints[e] = EndpointOf(xs, e)
    BY EndpointRows
  <2> QED BY <2>1, EndpointCounted
<1>6. old.example = IF oks = {} THEN None ELSE Least(oks)
  <2>1. CASE e \in DOMAIN d.endpoints
    <3>1. d.endpoints[e] = EndpointOf(xs, e)
      BY <2>1, EndpointRows
    <3>2. EndpointOf(xs, e).example = IF oks = {} THEN None ELSE Least(oks)
      BY DEF EndpointOf
    <3> QED BY <2>1, <3>1, <3>2
  <2>2. CASE e \notin DOMAIN d.endpoints
    <3>1. ids = {}
      BY <2>2, EndpointRows DEF OfEndpoint
    <3>2. oks = {}
      BY <3>1 DEF Succeeded
    <3>3. old.example = None
      BY <2>2 DEF NoEndpoint
    <3> HIDE DEF old, ids, oks
    <3> QED BY <3>2, <3>3
  <2> QED BY <2>1, <2>2
<1> HIDE DEF ids, oks, old, row, ys
<1>7. Greatest(OfEndpoint(ys, e)) = id
  <2>1. ids \cup {id} \in SUBSET Nat /\ id \in ids \cup {id} /\ \A j \in ids \cup {id} : id >= j
    BY <1>2 DEF Later
  <2> QED BY <1>2, <2>1, GreatestUnique
<1>8. row.example = IF Succeeded(ys, e) = {} THEN None ELSE Least(Succeeded(ys, e))
  <2>1. row.example = IF old.example = None /\ Successful(x) THEN id ELSE old.example
    BY <1>4
  <2>2. CASE oks = {}
    <3>1. old.example = None
      BY <1>6, <2>2
    <3>2. CASE Successful(x)
      <4>1. Succeeded(ys, e) = {id}
        BY <1>3, <2>2, <3>2
      <4>2. Least({id}) = id
        <5>1. {id} \in SUBSET Nat /\ id \in {id} /\ \A j \in {id} : id <= j
          OBVIOUS
        <5> QED BY <5>1, LeastUnique
      <4> QED BY <2>1, <3>1, <3>2, <4>1, <4>2
    <3>3. CASE ~Successful(x)
      BY <1>3, <2>1, <2>2, <3>1, <3>3
    <3> QED BY <3>2, <3>3
  <2>3. CASE oks # {}
    <3> DEFINE m == Least(oks)
    <3>1. oks \in SUBSET Nat
      BY <1>2, <1>3
    <3>2. m \in oks /\ \A j \in oks : m <= j
      BY <2>3, <3>1, LeastIs
    <3>3. old.example = m
      BY <1>6, <2>3
    <3> HIDE DEF m
    <3>4. m # None
      BY <3>1, <3>2, IndexAssumption
    <3>5. Least(oks \cup {id}) = m
      <4>1. oks \cup {id} \in SUBSET Nat /\ m \in oks \cup {id} /\ \A j \in oks \cup {id} : m <= j
        BY <1>2, <1>3, <3>1, <3>2 DEF Later
      <4> QED BY <4>1, LeastUnique
    <3>6. Least(Succeeded(ys, e)) = m /\ Succeeded(ys, e) # {}
      BY <1>3, <2>3, <3>5 DEF m
    <3> QED BY <2>1, <3>3, <3>4, <3>6
  <2> QED BY <2>2, <2>3
<1>9. EndpointOf(ys, e) =
          [count |-> EndpointOf(ys, e).count, ok |-> EndpointOf(ys, e).ok, last |-> x.status,
           example |-> IF Succeeded(ys, e) = {} THEN None ELSE Least(Succeeded(ys, e))]
  BY <1>1, <1>7 DEF EndpointOf
<1>10. row = [count |-> row.count, ok |-> row.ok, last |-> x.status, example |-> row.example]
  BY <1>4
<1> DEFINE n == EndpointOf(ys, e).count
           o == EndpointOf(ys, e).ok
           t == IF Succeeded(ys, e) = {} THEN None ELSE Least(Succeeded(ys, e))
<1>11. row = [count |-> n, ok |-> o, last |-> x.status, example |-> t]
  <2> HIDE DEF n, o, t
  <2> QED BY <1>5, <1>8, <1>10 DEF n, o, t
<1> QED BY <1>9, <1>11, Zenon DEF row, ys

-----------------------------------------------------------------------------
(* auth_snapshots.                                                         *)

\* What a later exchange does to the exchanges with auth headers.
LEMMA AuthedWith ==
    ASSUME NEW xs, Log(xs), NEW id \in Nat \ DOMAIN xs, NEW x \in Exchanges, Later(id, xs)
    PROVE  LET ys == With(xs, id, x)
               new == Successful(x) /\ x.auth # NoAuth
           IN /\ Authed(ys) = IF new THEN Authed(xs) \cup {id} ELSE Authed(xs)
              /\ id \notin Authed(xs)
              /\ Before(ys, id) = {j \in Authed(xs) : xs[j].key = x.key}
              /\ \A j \in Authed(xs) : Before(ys, j) = Before(xs, j)
<1> DEFINE ys == With(xs, id, x)
           new == Successful(x) /\ x.auth # NoAuth
<1>1. /\ DOMAIN ys = DOMAIN xs \cup {id} /\ ys[id] = x
      /\ \A j \in DOMAIN xs : ys[j] = xs[j]
  <2>1. Adds(ys, xs, id, x)
    BY WithLog
  <2> QED BY <2>1 DEF Adds
<1>2. Authed(xs) \in SUBSET DOMAIN xs /\ DOMAIN xs \in SUBSET Nat
  BY LogParts
<1> HIDE DEF ys
<1>3. Authed(ys) = IF new THEN Authed(xs) \cup {id} ELSE Authed(xs)
  BY <1>1 DEF Authed
<1>4. Before(ys, id) = {j \in Authed(xs) : xs[j].key = x.key}
  <2>1. Before(ys, id) = {j \in Authed(ys) : j < id /\ ys[j].key = x.key}
    BY <1>1 DEF Before
  <2>2. ~(id < id)
    OBVIOUS
  <2>3. \A j \in Authed(xs) : j < id /\ ys[j] = xs[j]
    BY <1>1, <1>2 DEF Later
  <2> QED BY <1>3, <2>1, <2>2, <2>3
<1>5. ASSUME NEW j \in Authed(xs) PROVE Before(ys, j) = Before(xs, j)
  <2>1. j < id /\ ys[j] = xs[j] /\ j \in Nat
    BY <1>1, <1>2 DEF Later
  <2>2. ~(id < j)
    BY <2>1
  <2>3. \A k \in Authed(xs) : ys[k] = xs[k]
    BY <1>1, <1>2
  <2> QED BY <1>3, <2>1, <2>2, <2>3 DEF Before
<1>6. id \notin Authed(xs)
  BY <1>2
<1> QED BY <1>3, <1>4, <1>5, <1>6 DEF ys

AuthedOf(xs, key) == {j \in Authed(xs) : xs[j].key = key}
Snapshot(xs, id) == [key |-> xs[id].key, auth |-> xs[id].auth, source |-> id]

\* The last exchange of a service that left a snapshot has the auth headers of the last
\* exchange with any: the first after it with others would have left one too.
LEMMA LastLeft ==
    ASSUME NEW xs, Log(xs), NEW key, AuthedOf(xs, key) # {}
    PROVE  \E l \in LeftSnapshot(xs) :
              /\ xs[l].key = key
              /\ \A j \in LeftSnapshot(xs) : xs[j].key = key => j <= l
              /\ xs[l].auth = xs[Greatest(AuthedOf(xs, key))].auth
<1> DEFINE A == AuthedOf(xs, key)
           S == {l \in LeftSnapshot(xs) : xs[l].key = key}
<1>1. Authed(xs) \in SUBSET Nat /\ IsFiniteSet(Authed(xs))
  BY LogParts
<1>2. A \in SUBSET Authed(xs) /\ A \in SUBSET Nat /\ S \in SUBSET A
  BY <1>1 DEF AuthedOf, LeftSnapshot
<1>3. IsFiniteSet(A) /\ IsFiniteSet(S)
  <2> HIDE DEF A, S
  <2> QED BY <1>1, <1>2, FS_Subset
<1>4. \A j \in A : Before(xs, j) = {k \in A : k < j}
  BY DEF Before, AuthedOf
<1>5. \A j \in A : j \in S <=> (Before(xs, j) # {} => xs[Greatest(Before(xs, j))].auth # xs[j].auth)
  BY DEF AuthedOf, LeftSnapshot
<1> HIDE DEF A, S
<1>6. S # {}
  <2> DEFINE m == Least(A)
  <2>1. m \in A /\ \A j \in A : m <= j
    BY <1>2, LeastIs DEF A
  <2> HIDE DEF m
  <2>2. \A k \in A : ~(k < m)
    BY <1>2, <2>1
  <2>3. Before(xs, m) = {}
    BY <1>4, <2>1, <2>2
  <2> QED BY <1>5, <2>1, <2>3
<1> DEFINE l == Greatest(S)
<1>7. l \in S /\ \A j \in S : l >= j
  BY <1>2, <1>3, <1>6, GreatestIs
<1> HIDE DEF l
<1>8. ASSUME NEW j \in A, j > l PROVE xs[j].auth = xs[l].auth
  <2> DEFINE D == {k \in A : k > l /\ xs[k].auth # xs[l].auth}
  <2> SUFFICES ASSUME D # {} PROVE FALSE
    BY <1>8
  <2>1. D \in SUBSET Nat
    BY <1>2
  <2> DEFINE m == Least(D)
  <2>2. m \in D /\ \A k \in D : m <= k
    <3> HIDE DEF D
    <3> QED BY <2>1, LeastIs
  <2> HIDE DEF m
  <2>3. m \in A /\ m \in Nat /\ m > l /\ xs[m].auth # xs[l].auth /\ l \in A /\ l \in Nat
    BY <1>2, <1>7, <2>2
  <2> DEFINE B == Before(xs, m)
  <2>4. B = {k \in A : k < m} /\ l \in B
    BY <1>4, <2>3
  <2>5. B \in SUBSET A /\ B \in SUBSET Nat /\ IsFiniteSet(B)
    <3>1. B \in SUBSET A /\ B \in SUBSET Nat
      BY <1>2, <2>4
    <3> HIDE DEF B
    <3> QED BY <1>3, <3>1, FS_Subset
  <2> DEFINE p == Greatest(B)
  <2> HIDE DEF B
  <2>6. p \in B /\ \A k \in B : p >= k
    BY <2>4, <2>5, GreatestIs
  <2> HIDE DEF p
  <2>7. p \in A /\ p \in Nat /\ p < m /\ p >= l
    BY <1>2, <2>4, <2>6
  <2>8. xs[p].auth = xs[l].auth
    <3>1. p \notin D
      BY <2>2, <2>3, <2>7
    <3> QED BY <2>3, <2>7, <3>1
  <2>9. m \in S
    <3>1. xs[Greatest(Before(xs, m))].auth # xs[m].auth
      BY <2>3, <2>8 DEF p, B
    <3> QED BY <1>5, <2>3, <3>1
  <2> QED BY <1>7, <2>3, <2>9
<1> DEFINE g == Greatest(A)
<1>9. g \in A /\ \A j \in A : g >= j
  BY <1>2, <1>3, GreatestIs DEF A
<1> HIDE DEF g
<1>10. xs[l].auth = xs[g].auth
  <2>1. g \in A /\ g \in Nat /\ l \in Nat /\ g >= l
    BY <1>2, <1>7, <1>9
  <2>2. CASE g = l
    BY <2>2
  <2>3. CASE g > l
    BY <1>8, <2>1, <2>3
  <2> QED BY <2>1, <2>2, <2>3
<1>11. \A j \in S : j <= l
  BY <1>2, <1>7
<1> QED BY <1>7, <1>10, <1>11 DEF S, g, A

\* So a new one is a duplicate of the latest snapshot if it has the headers of the last
\* exchange with any.
LEMMA LatestTells ==
    ASSUME NEW xs, Log(xs), NEW key, NEW d, d.snapshots = SnapshotsOf(xs), NEW a
    PROVE  (\A s \in Latest(d, key) : s.auth # a) <=>
               (AuthedOf(xs, key) # {} => xs[Greatest(AuthedOf(xs, key))].auth # a)
<1> DEFINE Left == LeftSnapshot(xs)
<1>1. d.snapshots = {Snapshot(xs, id) : id \in Left}
  BY DEF SnapshotsOf, Snapshot
<1>2. \A id : /\ Snapshot(xs, id).key = xs[id].key /\ Snapshot(xs, id).auth = xs[id].auth
              /\ Snapshot(xs, id).source = id
  BY DEF Snapshot
<1>3. Left \in SUBSET Authed(xs) /\ Left \in SUBSET Nat
  BY LogParts DEF LeftSnapshot
<1>4. Latest(d, key) = {s \in d.snapshots : s.key = key /\ \A t \in d.snapshots : t.key = key => t.source <= s.source}
  BY DEF Latest
<1>5. \A s \in Latest(d, key) : \E i \in Left : /\ s = Snapshot(xs, i) /\ xs[i].key = key
                                                /\ \A j \in Left : xs[j].key = key => j <= i
  <2> HIDE DEF Left
  <2> QED BY <1>1, <1>2, <1>4
<1>6. \A i \in Left : xs[i].key = key /\ (\A j \in Left : xs[j].key = key => j <= i)
                         => Snapshot(xs, i) \in Latest(d, key)
  <2> HIDE DEF Left
  <2> QED BY <1>1, <1>2, <1>4
<1> HIDE DEF Left
<1>7. CASE AuthedOf(xs, key) = {}
  <2>1. \A i \in Left : xs[i].key # key
    BY <1>3, <1>7 DEF AuthedOf
  <2> QED BY <1>5, <1>7, <2>1
<1>8. CASE AuthedOf(xs, key) # {}
  <2> DEFINE g == Greatest(AuthedOf(xs, key))
  <2>1. PICK l \in Left : /\ xs[l].key = key /\ \A j \in Left : xs[j].key = key => j <= l
                          /\ xs[l].auth = xs[g].auth
    BY <1>8, LastLeft DEF Left
  <2> HIDE DEF g
  <2>2. Snapshot(xs, l) \in Latest(d, key) /\ Snapshot(xs, l).auth = xs[g].auth
    BY <1>2, <1>6, <2>1
  <2>3. ASSUME NEW s \in Latest(d, key) PROVE s.auth = xs[g].auth
    <3>1. PICK i \in Left : s = Snapshot(xs, i) /\ xs[i].key = key /\ \A j \in Left : xs[j].key = key => j <= i
      BY <1>5
    <3>2. i <= l /\ l <= i /\ i \in Nat /\ l \in Nat
      BY <1>3, <2>1, <3>1
    <3>3. i = l
      BY <3>2
    <3> QED BY <1>2, <2>1, <3>1, <3>3
  <2>4. (\A s \in Latest(d, key) : s.auth # a) <=> xs[g].auth # a
    BY <2>2, <2>3
  <2> QED BY <1>8, <2>4 DEF g
<1> QED BY <1>7, <1>8

\* Indexing a later exchange adds the snapshot that a recount with it has.
LEMMA SnapshotsIndexed ==
    ASSUME NEW xs, Log(xs), NEW id \in Nat \ DOMAIN xs, NEW x \in Exchanges, Later(id, xs),
           NEW d, d.snapshots = SnapshotsOf(xs)
    PROVE  Snapshots(d, id, x) = SnapshotsOf(With(xs, id, x))
<1> DEFINE ys == With(xs, id, x)
           A == AuthedOf(xs, x.key)
           new == Successful(x) /\ x.auth # NoAuth
           differs == A # {} => xs[Greatest(A)].auth # x.auth
<1>1. Adds(ys, xs, id, x)
  BY WithLog
<1>2. ys[id] = x /\ \A j \in DOMAIN xs : ys[j] = xs[j]
  BY <1>1 DEF Adds
<1>3. Authed(ys) = IF new THEN Authed(xs) \cup {id} ELSE Authed(xs)
  BY AuthedWith
<1>4. id \notin Authed(xs) /\ Before(ys, id) = A
  BY AuthedWith DEF AuthedOf
<1>5. \A j \in Authed(xs) : Before(ys, j) = Before(xs, j)
  BY AuthedWith
<1>6. Authed(xs) \in SUBSET DOMAIN xs /\ DOMAIN xs \in SUBSET Nat /\ IsFiniteSet(Authed(xs))
  BY LogParts
<1> HIDE DEF ys
<1>7. ASSUME NEW S, S \in SUBSET Authed(xs), S # {}
      PROVE  ys[Greatest(S)] = xs[Greatest(S)]
  <2>1. S \in SUBSET Nat /\ IsFiniteSet(S)
    BY <1>6, <1>7, FS_Subset
  <2>2. Greatest(S) \in S
    BY <1>7, <2>1, GreatestIs
  <2> QED BY <1>2, <1>6, <1>7, <2>2
<1>8. \A j \in Authed(xs) : j \in LeftSnapshot(ys) <=> j \in LeftSnapshot(xs)
  <2> TAKE j \in Authed(xs)
  <2>1. Before(xs, j) \in SUBSET Authed(xs)
    BY DEF Before
  <2>2. Before(xs, j) # {} => ys[Greatest(Before(xs, j))] = xs[Greatest(Before(xs, j))]
    BY <1>7, <2>1
  <2>3. j \in Authed(ys) /\ ys[j] = xs[j] /\ Before(ys, j) = Before(xs, j)
    BY <1>2, <1>3, <1>5, <1>6
  <2> QED BY <2>2, <2>3 DEF LeftSnapshot
<1>9. id \in LeftSnapshot(ys) <=> new /\ differs
  <2>1. A \in SUBSET Authed(xs)
    BY DEF AuthedOf
  <2>2. A # {} => ys[Greatest(A)] = xs[Greatest(A)]
    BY <1>7, <2>1
  <2>3. id \in Authed(ys) <=> new
    BY <1>3, <1>4
  <2> HIDE DEF A, new
  <2> QED BY <1>2, <1>4, <2>2, <2>3 DEF LeftSnapshot
<1>10. LeftSnapshot(ys) = IF new /\ differs THEN LeftSnapshot(xs) \cup {id} ELSE LeftSnapshot(xs)
  <2>1. LeftSnapshot(ys) \in SUBSET (Authed(xs) \cup {id}) /\ LeftSnapshot(xs) \in SUBSET Authed(xs)
    BY <1>3 DEF LeftSnapshot
  <2> HIDE DEF new, differs
  <2> QED BY <1>4, <1>8, <1>9, <2>1
<1> DEFINE Snaps(zs) == {Snapshot(zs, i) : i \in LeftSnapshot(zs)}
<1>11. SnapshotsOf(ys) = Snaps(ys) /\ d.snapshots = Snaps(xs)
  BY DEF SnapshotsOf, Snapshot
<1>12. \A j \in LeftSnapshot(xs) : Snapshot(ys, j) = Snapshot(xs, j)
  BY <1>2, <1>6 DEF Snapshot, LeftSnapshot
<1>13. Snapshot(ys, id) = [key |-> x.key, auth |-> x.auth, source |-> id]
  BY <1>2 DEF Snapshot
<1>14. Snaps(ys) = IF new /\ differs THEN Snaps(xs) \cup {Snapshot(ys, id)} ELSE Snaps(xs)
  <2> HIDE DEF new, differs
  <2> QED BY <1>10, <1>12
<1>15. (\A s \in Latest(d, x.key) : s.auth # x.auth) <=> differs
  BY LatestTells
<1>16. Snapshots(d, id, x) = IF new /\ differs THEN d.snapshots \cup {Snapshot(ys, id)} ELSE d.snapshots
  <2> HIDE DEF differs
  <2> QED BY <1>13, <1>15 DEF Snapshots
<1> QED BY <1>11, <1>14, <1>16 DEF ys

\* Indexing exchanges in the order of their ids makes all columns those of a recount.
LEMMA OrderIndexed ==
    ASSUME NEW xs, Log(xs), NEW id \in Nat \ DOMAIN xs, NEW x \in Exchanges, Later(id, xs)
    PROVE  Indexed(Reference(xs), id, x) = Reference(With(xs, id, x))
<1> DEFINE ys == With(xs, id, x)
           d == Reference(xs)
           e == <<x.key, x.endpoint>>
           new == Indexed(d, id, x)
<1>1. d.services = ServicesOf(xs) /\ d.endpoints = EndpointsOf(xs) /\ d.snapshots = SnapshotsOf(xs)
  BY DEF Reference
<1> HIDE DEF d
<1>2. Counts(new) = Counts(Reference(ys))
  BY CountsIndexed DEF d
<1>3. new.services = ServicesOf(ys) /\ DOMAIN new.endpoints = DOMAIN EndpointsOf(ys)
  <2> HIDE DEF new, ys
  <2> QED BY <1>2, CountsMean
<1>4. new.snapshots = SnapshotsOf(ys)
  <2>1. Snapshots(d, id, x) = SnapshotsOf(ys)
    BY <1>1, SnapshotsIndexed
  <2> QED BY <2>1 DEF Indexed
<1>5. EndpointRow(d, id, x, e) = EndpointOf(ys, e)
  BY <1>1, EndpointOrdered
<1>6. new.endpoints = EndpointsOf(ys)
  <2>1. /\ new.endpoints = With(d.endpoints, e, EndpointRow(d, id, x, e))
        /\ DOMAIN new.endpoints = DOMAIN d.endpoints \cup {e}
    BY DEF Indexed, With
  <2>2. \A f \in DOMAIN new.endpoints :
           new.endpoints[f] = IF f = e THEN EndpointRow(d, id, x, e) ELSE d.endpoints[f]
    BY <2>1 DEF With
  <2>3. \A f \in DOMAIN d.endpoints : f # e => EndpointOf(ys, f) = EndpointOf(xs, f)
    BY <1>1, EndpointElsewhere
  <2>4. \A f \in DOMAIN d.endpoints : d.endpoints[f] = EndpointOf(xs, f)
    BY <1>1, EndpointRows
  <2>5. EndpointsOf(ys) = [f \in DOMAIN EndpointsOf(ys) |-> EndpointOf(ys, f)]
    BY EndpointRows
  <2>6. new.endpoints = [f \in DOMAIN new.endpoints |-> new.endpoints[f]]
    <3> HIDE DEF e
    <3> QED BY <2>1 DEF With
  <2> HIDE DEF new, ys, e
  <2>7. \A f \in DOMAIN new.endpoints : new.endpoints[f] = EndpointOf(ys, f)
    BY <1>5, <2>1, <2>2, <2>3, <2>4
  <2> QED BY <1>3, <2>5, <2>6, <2>7
<1>7. new = [services |-> new.services, endpoints |-> new.endpoints, snapshots |-> new.snapshots]
  BY DEF Indexed
<1> HIDE DEF new
<1> QED BY <1>3, <1>4, <1>6, <1>7 DEF Reference, new, d

-----------------------------------------------------------------------------
(* Deleting a service.                                                     *)

Deleted(d, key) ==
    [services |-> Without(d.services, {key}),
     endpoints |-> Without(d.endpoints, {e \in DOMAIN d.endpoints : e[1] = key}),
     snapshots |-> {s \in d.snapshots : s.key # key}]

\* ys is xs without the exchanges of a service.
Removes(ys, xs, key) ==
    /\ DOMAIN ys = {i \in DOMAIN xs : xs[i].key # key}
    /\ \A i \in DOMAIN ys : ys[i] = xs[i]

\* delete_service() removes the exchanges of the service and no others.
LEMMA WithoutService ==
    ASSUME NEW xs, Log(xs), NEW key
    PROVE  Log(Without(xs, OfKey(xs, key))) /\ Removes(Without(xs, OfKey(xs, key)), xs, key)
<1>1. Log(Without(xs, OfKey(xs, key)))
  BY WithoutLog
<1> QED BY <1>1 DEF Without, OfKey, Removes

\* The exchanges of the other services are what they were.
LEMMA PartsWithout ==
    ASSUME NEW xs, NEW ys, NEW key, Removes(ys, xs, key)
    PROVE  /\ \A k : k # key => OfKey(ys, k) = OfKey(xs, k)
           /\ \A e : e[1] # key => OfEndpoint(ys, e) = OfEndpoint(xs, e) /\ Succeeded(ys, e) = Succeeded(xs, e)
           /\ Authed(ys) = {i \in Authed(xs) : xs[i].key # key}
           /\ \A i \in Authed(ys) : Before(ys, i) = Before(xs, i)
<1>1. DOMAIN ys = {i \in DOMAIN xs : xs[i].key # key} /\ \A i \in DOMAIN ys : ys[i] = xs[i]
  BY DEF Removes
<1>2. ASSUME NEW k, k # key PROVE OfKey(ys, k) = OfKey(xs, k)
  BY <1>1, <1>2 DEF OfKey
<1>3. ASSUME NEW e, e[1] # key
      PROVE  OfEndpoint(ys, e) = OfEndpoint(xs, e) /\ Succeeded(ys, e) = Succeeded(xs, e)
  <2>1. \A i \in DOMAIN xs : <<xs[i].key, xs[i].endpoint>> = e => xs[i].key # key
    BY <1>3
  <2>2. OfEndpoint(ys, e) = OfEndpoint(xs, e)
    BY <1>1, <2>1 DEF OfEndpoint
  <2>3. \A i \in OfEndpoint(ys, e) : ys[i] = xs[i]
    BY <1>1 DEF OfEndpoint
  <2> QED BY <2>2, <2>3 DEF Succeeded
<1>4. Authed(ys) = {i \in Authed(xs) : xs[i].key # key}
  BY <1>1 DEF Authed
<1>5. ASSUME NEW i \in Authed(ys) PROVE Before(ys, i) = Before(xs, i)
  <2>1. \A j \in Authed(ys) : ys[j] = xs[j]
    BY <1>1 DEF Authed
  <2>2. xs[i].key # key
    BY <1>4
  <2> QED BY <1>4, <2>1, <2>2 DEF Before
<1> QED BY <1>2, <1>3, <1>4, <1>5

\* What is left of the counts is what a recount gives.
LEMMA CountsDeleted ==
    ASSUME NEW xs, Log(xs), NEW key, NEW d, Counts(d) = Counts(Reference(xs))
    PROVE  Counts(Deleted(d, key)) = Counts(Reference(Without(xs, OfKey(xs, key))))
<1> DEFINE ys == Without(xs, OfKey(xs, key))
           new == Deleted(d, key)
           keys(zs) == {zs[i].key : i \in DOMAIN zs}
           ends(zs) == {<<zs[i].key, zs[i].endpoint>> : i \in DOMAIN zs}
<1>1. /\ d.services = ServicesOf(xs)
      /\ DOMAIN d.endpoints = DOMAIN EndpointsOf(xs)
      /\ \A f \in DOMAIN d.endpoints : /\ d.endpoints[f].count = EndpointOf(xs, f).count
                                       /\ d.endpoints[f].ok = EndpointOf(xs, f).ok
  BY CountsMean
<1>a. Removes(ys, xs, key)
  BY WithoutService
<1>2. DOMAIN ys = {i \in DOMAIN xs : xs[i].key # key} /\ \A i \in DOMAIN ys : ys[i] = xs[i]
  BY <1>a DEF Removes
<1> HIDE DEF ys
<1>3. \A k : k # key => OfKey(ys, k) = OfKey(xs, k)
  BY <1>a, PartsWithout
<1>4. \A e : e[1] # key => OfEndpoint(ys, e) = OfEndpoint(xs, e) /\ Succeeded(ys, e) = Succeeded(xs, e)
  BY <1>a, PartsWithout
<1>5. keys(ys) = keys(xs) \ {key}
  BY <1>2
<1>6. ends(ys) = {e \in ends(xs) : e[1] # key}
  <2>1. \A i \in DOMAIN xs : <<xs[i].key, xs[i].endpoint>>[1] = xs[i].key
    OBVIOUS
  <2> QED BY <1>2, <2>1
<1>7. /\ ServicesOf(xs) = [k \in keys(xs) |-> ServiceOf(xs, k)]
      /\ ServicesOf(ys) = [k \in keys(ys) |-> ServiceOf(ys, k)]
  BY ServiceRows
<1>8. DOMAIN EndpointsOf(xs) = ends(xs) /\ DOMAIN EndpointsOf(ys) = ends(ys)
  BY EndpointRows
<1>9. ASSUME NEW k \in keys(ys) PROVE ServiceOf(ys, k) = ServiceOf(xs, k)
  <2>1. OfKey(ys, k) = OfKey(xs, k)
    BY <1>3, <1>5
  <2>2. \A i \in OfKey(ys, k) : ys[i] = xs[i]
    BY <1>2 DEF OfKey
  <2>3. {ys[i].endpoint : i \in OfKey(ys, k)} = {xs[i].endpoint : i \in OfKey(xs, k)}
    BY <2>1, <2>2
  <2>4. (\E i \in OfKey(ys, k) : ys[i].auth # NoAuth) <=> (\E i \in OfKey(xs, k) : xs[i].auth # NoAuth)
    BY <2>1, <2>2
  <2> QED BY <2>1, <2>3, <2>4, Zenon DEF ServiceOf
<1>10. new.services = ServicesOf(ys)
  <2>1. new.services = [k \in keys(xs) \ {key} |-> ServicesOf(xs)[k]]
    BY <1>1, <1>7 DEF Deleted, Without
  <2> HIDE DEF new, keys
  <2>2. \A k \in keys(xs) \ {key} : ServicesOf(xs)[k] = ServiceOf(ys, k)
    BY <1>5, <1>7, <1>9
  <2> QED BY <1>5, <1>7, <2>1, <2>2
<1>11. /\ DOMAIN new.endpoints = {e \in DOMAIN d.endpoints : e[1] # key}
       /\ \A e \in DOMAIN new.endpoints : new.endpoints[e] = d.endpoints[e]
  BY DEF Deleted, Without
<1> HIDE DEF new, ends, keys
<1>12. DOMAIN new.endpoints = DOMAIN EndpointsOf(ys)
  BY <1>1, <1>6, <1>8, <1>11
<1>13. \A e \in DOMAIN new.endpoints : /\ new.endpoints[e].count = EndpointOf(ys, e).count
                                       /\ new.endpoints[e].ok = EndpointOf(ys, e).ok
  <2> TAKE e \in DOMAIN new.endpoints
  <2>1. EndpointOf(ys, e).count = EndpointOf(xs, e).count /\ EndpointOf(ys, e).ok = EndpointOf(xs, e).ok
    BY <1>4, <1>11 DEF EndpointOf
  <2> QED BY <1>1, <1>11, <2>1
<1>14. Counts(new) = Counts(Reference(ys))
  BY <1>10, <1>12, <1>13, CountsMean
<1> QED BY <1>14 DEF new, ys

\* What is left of the other columns is too.
LEMMA OrderDeleted ==
    ASSUME NEW xs, Log(xs), NEW key
    PROVE  Deleted(Reference(xs), key) = Reference(Without(xs, OfKey(xs, key)))
<1> DEFINE ys == Without(xs, OfKey(xs, key))
           d == Reference(xs)
           new == Deleted(d, key)
<1>1. d.services = ServicesOf(xs) /\ d.endpoints = EndpointsOf(xs) /\ d.snapshots = SnapshotsOf(xs)
  BY DEF Reference
<1> HIDE DEF d
<1>2. Counts(new) = Counts(Reference(ys))
  BY CountsDeleted DEF d
<1>3. new.services = ServicesOf(ys) /\ DOMAIN new.endpoints = DOMAIN EndpointsOf(ys)
  <2> HIDE DEF new, ys
  <2> QED BY <1>2, CountsMean
<1>a. Log(ys) /\ Removes(ys, xs, key)
  BY WithoutService
<1>4. DOMAIN ys = {i \in DOMAIN xs : xs[i].key # key} /\ \A i \in DOMAIN ys : ys[i] = xs[i]
  BY <1>a DEF Removes
<1> HIDE DEF ys
<1>5. \A e : e[1] # key => OfEndpoint(ys, e) = OfEndpoint(xs, e) /\ Succeeded(ys, e) = Succeeded(xs, e)
  BY <1>a, PartsWithout
<1>6. Authed(ys) = {i \in Authed(xs) : xs[i].key # key}
  BY <1>a, PartsWithout
<1>7. \A i \in Authed(ys) : Before(ys, i) = Before(xs, i)
  BY <1>a, PartsWithout
<1>8. Authed(xs) \in SUBSET DOMAIN xs /\ DOMAIN xs \in SUBSET Nat /\ IsFiniteSet(Authed(xs))
  BY LogParts
<1>10. ASSUME NEW S, S \in SUBSET DOMAIN ys, S # {}
       PROVE  ys[Greatest(S)] = xs[Greatest(S)]
  <2>1. S \in SUBSET Nat /\ IsFiniteSet(S)
    <3>1. S \in SUBSET DOMAIN ys /\ IsFiniteSet(DOMAIN ys) /\ DOMAIN ys \in SUBSET Nat
      BY <1>a, <1>10 DEF Log
    <3> QED BY <3>1, FS_Subset
  <2>2. Greatest(S) \in S
    BY <1>10, <2>1, GreatestIs
  <2> QED BY <1>4, <1>10, <2>2
<1>11. new.endpoints = EndpointsOf(ys)
  <2>1. new.endpoints = [e \in DOMAIN new.endpoints |-> d.endpoints[e]]
        /\ \A e \in DOMAIN new.endpoints : e \in DOMAIN d.endpoints /\ e[1] # key
    BY DEF Deleted, Without
  <2>2. \A e \in DOMAIN d.endpoints : d.endpoints[e] = EndpointOf(xs, e)
    BY <1>1, EndpointRows
  <2>3. /\ EndpointsOf(ys) = [e \in DOMAIN EndpointsOf(ys) |-> EndpointOf(ys, e)]
        /\ DOMAIN EndpointsOf(ys) = {<<ys[i].key, ys[i].endpoint>> : i \in DOMAIN ys}
    BY EndpointRows
  <2> HIDE DEF new
  <2>4. ASSUME NEW e \in DOMAIN new.endpoints PROVE EndpointOf(xs, e) = EndpointOf(ys, e)
    <3> DEFINE S == OfEndpoint(ys, e)
    <3>1. OfEndpoint(xs, e) = S /\ Succeeded(ys, e) = Succeeded(xs, e)
      BY <1>5, <2>1
    <3>2. S # {} /\ S \in SUBSET DOMAIN ys
      BY <1>3, <2>3 DEF OfEndpoint
    <3>3. ys[Greatest(S)] = xs[Greatest(S)]
      <4> HIDE DEF S
      <4> QED BY <1>10, <3>2
    <3> HIDE DEF S
    <3> QED BY <3>1, <3>3 DEF EndpointOf, S
  <2>5. \A e \in DOMAIN new.endpoints : d.endpoints[e] = EndpointOf(ys, e)
    BY <2>1, <2>2, <2>4
  <2> QED BY <1>3, <2>1, <2>3, <2>5
<1>12. \A i \in Authed(ys) : i \in LeftSnapshot(ys) <=> i \in LeftSnapshot(xs)
  <2> TAKE i \in Authed(ys)
  <2>1. Before(ys, i) \in SUBSET DOMAIN ys
    BY DEF Before, Authed
  <2>2. Before(ys, i) # {} => ys[Greatest(Before(ys, i))] = xs[Greatest(Before(ys, i))]
    BY <1>10, <2>1
  <2>3. i \in Authed(xs) /\ ys[i] = xs[i] /\ Before(ys, i) = Before(xs, i)
    BY <1>4, <1>6, <1>7, <1>8
  <2> QED BY <2>2, <2>3 DEF LeftSnapshot
<1>13. new.snapshots = SnapshotsOf(ys)
  <2> DEFINE Snaps(zs) == {Snapshot(zs, i) : i \in LeftSnapshot(zs)}
  <2>1. SnapshotsOf(ys) = Snaps(ys) /\ d.snapshots = Snaps(xs)
    BY <1>1 DEF SnapshotsOf, Snapshot
  <2>2. new.snapshots = {s \in Snaps(xs) : s.key # key}
    BY <2>1 DEF Deleted
  <2>3. \A i : Snapshot(xs, i).key = xs[i].key
    BY DEF Snapshot
  <2>4. LeftSnapshot(ys) = {i \in LeftSnapshot(xs) : xs[i].key # key}
    <3>1. LeftSnapshot(ys) \in SUBSET Authed(ys) /\ LeftSnapshot(xs) \in SUBSET Authed(xs)
      BY DEF LeftSnapshot
    <3> QED BY <1>6, <1>12, <3>1
  <2>5. \A i \in LeftSnapshot(ys) : Snapshot(ys, i) = Snapshot(xs, i)
    <3>1. \A i \in LeftSnapshot(ys) : ys[i] = xs[i]
      BY <1>4, <1>6, <1>8 DEF LeftSnapshot
    <3> QED BY <3>1 DEF Snapshot
  <2>6. Snaps(ys) = {s \in Snaps(xs) : s.key # key}
    BY <2>3, <2>4, <2>5
  <2> HIDE DEF new
  <2> QED BY <2>1, <2>2, <2>6
<1>14. new = [services |-> new.services, endpoints |-> new.endpoints, snapshots |-> new.snapshots]
  BY DEF Deleted
<1> HIDE DEF new
<1> QED BY <1>3, <1>11, <1>13, <1>14 DEF Reference, new, d, ys

-----------------------------------------------------------------------------
(* The shape of the rows, and the examples.                                *)

\* Indexing keeps the shape of the tables and adds at most one to a count.
LEMMA IndexedShaped ==
    ASSUME NEW d, Shaped(d), NEW id \in Nat, NEW x, NEW n \in Nat, Within(d, n)
    PROVE  Shaped(Indexed(d, id, x)) /\ Within(Indexed(d, id, x), n + 1)
<1> DEFINE new == Indexed(d, id, x)
           e == <<x.key, x.endpoint>>
           row == EndpointRow(d, id, x, e)
           srow == ServiceRow(d, x, e \notin DOMAIN d.endpoints)
           ServiceRows1 == [count : Nat \ {0}, endpoints : Nat, auth : BOOLEAN]
           Good(r) == r.count \in Nat /\ r.ok \in 0 .. r.count /\ r.example \in Nat \cup {None}
<1>1. /\ new.services = [k \in DOMAIN d.services \cup {x.key} |-> IF k = x.key THEN srow ELSE d.services[k]]
      /\ new.endpoints = [f \in DOMAIN d.endpoints \cup {e} |-> IF f = e THEN row ELSE d.endpoints[f]]
      /\ new = [services |-> new.services, endpoints |-> new.endpoints, snapshots |-> new.snapshots]
  BY DEF Indexed, With
<1>2. srow \in ServiceRows1 /\ srow.count <= n + 1
  <2>1. CASE x.key \in DOMAIN d.services
    <3> DEFINE old == d.services[x.key]
    <3>1. old \in ServiceRows1 /\ old.count <= n
      BY <2>1 DEF Shaped, Within
    <3>2. srow = [count |-> old.count + 1, endpoints |-> old.endpoints + (IF e \notin DOMAIN d.endpoints THEN 1 ELSE 0),
                  auth |-> old.auth \/ x.auth # NoAuth]
      BY <2>1 DEF ServiceRow
    <3> HIDE DEF old, e
    <3>3. (old.auth \/ x.auth # NoAuth) \in BOOLEAN
      BY <3>1
    <3> HIDE DEF srow
    <3> QED BY <3>1, <3>2, <3>3
  <2>2. CASE x.key \notin DOMAIN d.services
    <3>1. srow = [count |-> 0 + 1, endpoints |-> 0 + (IF e \notin DOMAIN d.endpoints THEN 1 ELSE 0),
                  auth |-> FALSE \/ x.auth # NoAuth]
      BY <2>2 DEF ServiceRow
    <3> HIDE DEF srow, e
    <3> QED BY <3>1
  <2> QED BY <2>1, <2>2
<1>3. Good(row)
  <2>1. CASE e \in DOMAIN d.endpoints
    <3>1. Good(d.endpoints[e])
      BY <2>1 DEF Shaped
    <3> DEFINE old == d.endpoints[e]
    <3>2. /\ row.count = old.count + 1 /\ row.ok = old.ok + (IF Successful(x) THEN 1 ELSE 0)
          /\ row.example = IF old.example = None /\ Successful(x) THEN id ELSE old.example
      BY <2>1 DEF EndpointRow
    <3> HIDE DEF row, old
    <3> QED BY <3>1, <3>2 DEF old
  <2>2. CASE e \notin DOMAIN d.endpoints
    <3>1. /\ row.count = 0 + 1 /\ row.ok = 0 + (IF Successful(x) THEN 1 ELSE 0)
          /\ row.example = IF Successful(x) THEN id ELSE None
      BY <2>2 DEF EndpointRow
    <3> HIDE DEF row
    <3> QED BY <3>1
  <2> QED BY <2>1, <2>2
<1> HIDE DEF new, row, srow, e
<1>4. new.services \in [DOMAIN new.services -> ServiceRows1]
  <2>1. \A k \in DOMAIN d.services : d.services[k] \in ServiceRows1
    BY DEF Shaped
  <2> HIDE DEF ServiceRows1
  <2> QED BY <1>1, <1>2, <2>1
<1>5. Within(new, n + 1)
  <2>1. \A k \in DOMAIN d.services : d.services[k].count \in Nat /\ d.services[k].count <= n
    BY DEF Shaped, Within
  <2> QED BY <1>1, <1>2, <2>1 DEF Within
<1>6. \A f \in DOMAIN new.endpoints : Good(new.endpoints[f])
  <2>1. \A f \in DOMAIN d.endpoints : Good(d.endpoints[f])
    BY DEF Shaped
  <2> HIDE DEF Good
  <2> QED BY <1>1, <1>3, <2>1
<1>7. new.endpoints = [f \in DOMAIN new.endpoints |-> new.endpoints[f]]
  BY <1>1
<1> QED BY <1>1, <1>4, <1>5, <1>6, <1>7 DEF Shaped, new

\* Deleting keeps the shape and raises no count.
LEMMA DeletedShaped ==
    ASSUME NEW d, Shaped(d), NEW key, NEW n \in Nat, Within(d, n)
    PROVE  Shaped(Deleted(d, key)) /\ Within(Deleted(d, key), n)
<1> DEFINE new == Deleted(d, key)
<1>1. /\ new.services = [k \in DOMAIN d.services \ {key} |-> d.services[k]]
      /\ new.endpoints = [f \in DOMAIN d.endpoints \ {e \in DOMAIN d.endpoints : e[1] = key} |-> d.endpoints[f]]
      /\ new = [services |-> new.services, endpoints |-> new.endpoints, snapshots |-> new.snapshots]
  BY DEF Deleted, Without
<1> HIDE DEF new
<1> DEFINE ServiceRows1 == [count : Nat \ {0}, endpoints : Nat, auth : BOOLEAN]
<1>2. new.services \in [DOMAIN new.services -> ServiceRows1]
  <2>1. \A k \in DOMAIN d.services : d.services[k] \in ServiceRows1
    BY DEF Shaped
  <2> HIDE DEF ServiceRows1
  <2> QED BY <1>1, <2>1
<1>3. Within(new, n)
  BY <1>1 DEF Within
<1>4. /\ new.endpoints = [f \in DOMAIN new.endpoints |-> new.endpoints[f]]
      /\ DOMAIN new.endpoints \in SUBSET DOMAIN d.endpoints
      /\ \A f \in DOMAIN new.endpoints : new.endpoints[f] = d.endpoints[f]
  BY <1>1
<1> QED BY <1>1, <1>2, <1>3, <1>4 DEF Shaped, new

\* Empty tables have the shape.
LEMMA EmptyShaped == Shaped(Empty) /\ \A n : Within(Empty, n)
<1>1. DOMAIN Empty.services = {} /\ DOMAIN Empty.endpoints = {}
  BY DEF Empty
<1>2. Empty = [services |-> Empty.services, endpoints |-> Empty.endpoints, snapshots |-> Empty.snapshots]
  BY DEF Empty
<1>3. Empty.services = [k \in {} |-> 0] /\ Empty.endpoints = [k \in {} |-> 0]
  BY DEF Empty
<1> QED BY <1>1, <1>2, <1>3 DEF Shaped, Within

\* Indexing an exchange that is in the table keeps the examples good.
LEMMA ExamplesIndexed ==
    ASSUME NEW d, NEW xs, Examples(d, xs), NEW id \in DOMAIN xs
    PROVE  Examples(Indexed(d, id, xs[id]), xs)
<1> DEFINE x == xs[id]
           new == Indexed(d, id, x)
           e == <<x.key, x.endpoint>>
           row == EndpointRow(d, id, x, e)
           Good(i, f) == i # None => /\ i \in DOMAIN xs /\ Successful(xs[i])
                                     /\ <<xs[i].key, xs[i].endpoint>> = f
<1>1. new.endpoints = [f \in DOMAIN d.endpoints \cup {e} |-> IF f = e THEN row ELSE d.endpoints[f]]
  BY DEF Indexed, With
<1>2. \A f \in DOMAIN d.endpoints : Good(d.endpoints[f].example, f)
  BY DEF Examples
<1>3. Good(row.example, e)
  <2> DEFINE old == IF e \in DOMAIN d.endpoints THEN d.endpoints[e] ELSE NoEndpoint
  <2>1. row.example = IF old.example = None /\ Successful(x) THEN id ELSE old.example
    BY DEF EndpointRow, NoEndpoint
  <2>2. Good(old.example, e)
    <3>1. CASE e \in DOMAIN d.endpoints
      <4>1. old = d.endpoints[e]
        BY <3>1
      <4> HIDE DEF old, Good, e
      <4> QED BY <1>2, <3>1, <4>1
    <3>2. CASE e \notin DOMAIN d.endpoints
      BY <3>2 DEF NoEndpoint
    <3> QED BY <3>1, <3>2
  <2> HIDE DEF old, row
  <2>3. CASE old.example = None /\ Successful(x)
    BY <2>1, <2>3
  <2>4. CASE ~(old.example = None /\ Successful(x))
    <3>1. row.example = old.example
      BY <2>1, <2>4
    <3> HIDE DEF Good, e, x
    <3> QED BY <2>2, <3>1
  <2> QED BY <2>3, <2>4
<1> HIDE DEF new, row, e, x
<1>4. \A f \in DOMAIN new.endpoints : Good(new.endpoints[f].example, f)
  <2> HIDE DEF Good
  <2> QED BY <1>1, <1>2, <1>3
<1> QED BY <1>4 DEF Examples, new, x

\* Deleting a service leaves the examples of the others.
LEMMA ExamplesDeleted ==
    ASSUME NEW d, NEW xs, Examples(d, xs), NEW ys, NEW key, Removes(ys, xs, key)
    PROVE  Examples(Deleted(d, key), ys)
<1> DEFINE new == Deleted(d, key)
<1>1. /\ DOMAIN new.endpoints = {e \in DOMAIN d.endpoints : e[1] # key}
      /\ \A f \in DOMAIN new.endpoints : new.endpoints[f] = d.endpoints[f]
  BY DEF Deleted, Without
<1> HIDE DEF new
<1>2. SUFFICES ASSUME NEW e \in DOMAIN new.endpoints, NEW i, i = new.endpoints[e].example, i # None
               PROVE  i \in DOMAIN ys /\ Successful(ys[i]) /\ <<ys[i].key, ys[i].endpoint>> = e
  BY DEF Examples, new
<1>3. i \in DOMAIN xs /\ Successful(xs[i]) /\ <<xs[i].key, xs[i].endpoint>> = e
  BY <1>1, <1>2 DEF Examples
<1>4. xs[i].key # key
  BY <1>1, <1>2, <1>3
<1> QED BY <1>3, <1>4 DEF Removes

-----------------------------------------------------------------------------
(* A batch, row by row.                                                    *)

\* A set of numbers with 0 and the successors of its members has all of them.
LEMMA NumberInduction ==
    ASSUME NEW S \in SUBSET Nat, 0 \in S, \A n \in S : n + 1 \in S
    PROVE  S = Nat
<1> SUFFICES ASSUME S # Nat PROVE FALSE
  OBVIOUS
<1> DEFINE T == Nat \ S
           m == Least(T)
<1>1. T \in SUBSET Nat /\ T # {}
  OBVIOUS
<1>2. m \in T /\ \A j \in T : m <= j
  <2> HIDE DEF T
  <2> QED BY <1>1, LeastIs
<1> HIDE DEF m
<1>3. m \in Nat /\ m # 0 /\ m - 1 \in Nat /\ ~(m <= m - 1)
  BY <1>2
<1>4. m - 1 \in S
  BY <1>2, <1>3
<1>5. (m - 1) + 1 = m
  BY <1>3
<1> QED BY <1>2, <1>4, <1>5

\* g has the tables before the batch and after each of its rows.
Stages(g, d, n) == g = [i \in 0 .. n |-> IF i = 0 THEN d ELSE IndexRow(g[i - 1], rows[i])]

\* The recursive function in AfterRows() is defined, whatever the number of rows.
LEMMA AfterDefined ==
    ASSUME NEW d, NEW n \in Nat
    PROVE  \E g : Stages(g, d, n) /\ AfterRows(d, n) = g[n]
<1> DEFINE N == {m \in Nat : \E g : Stages(g, d, m)}
<1>1. 0 \in N
  <2>1. Stages([i \in 0 .. 0 |-> d], d, 0)
    BY DEF Stages
  <2> QED BY <2>1
<1>2. ASSUME NEW m \in N PROVE m + 1 \in N
  <2>1. PICK f : Stages(f, d, m)
    OBVIOUS
  <2> DEFINE h == [i \in 0 .. m + 1 |-> IF i \in 0 .. m THEN f[i] ELSE IndexRow(f[i - 1], rows[i])]
  <2>2. \A i \in 0 .. m : h[i] = f[i]
    OBVIOUS
  <2>3. ASSUME NEW i \in 0 .. m + 1
        PROVE  h[i] = IF i = 0 THEN d ELSE IndexRow(h[i - 1], rows[i])
    <3>1. CASE i = 0
      BY <2>1, <3>1 DEF Stages
    <3>2. CASE i \in 0 .. m /\ i # 0
      <4>1. h[i] = f[i] /\ h[i - 1] = f[i - 1]
        BY <3>2
      <4>2. f[i] = IndexRow(f[i - 1], rows[i])
        BY <2>1, <3>2 DEF Stages
      <4> QED BY <3>2, <4>1, <4>2
    <3>3. CASE i = m + 1
      <4>1. h[i] = IndexRow(f[i - 1], rows[i]) /\ h[i - 1] = f[i - 1]
        BY <3>3
      <4> QED BY <3>3, <4>1
    <3> QED BY <3>1, <3>2, <3>3
  <2>4. Stages(h, d, m + 1)
    <3> DEFINE k == [i \in 0 .. m + 1 |-> IF i = 0 THEN d ELSE IndexRow(h[i - 1], rows[i])]
    <3>1. DOMAIN h = DOMAIN k /\ \A i \in DOMAIN h : h[i] = k[i]
      BY <2>3
    <3>2. h = k
      BY <3>1
    <3> QED BY <3>2, Zenon DEF Stages
  <2> QED BY <2>4
<1>3. N = Nat
  <2> HIDE DEF N
  <2>1. N \in SUBSET Nat
    BY DEF N
  <2> QED BY <1>1, <1>2, <2>1, NumberInduction
<1>4. PICK g : Stages(g, d, n)
  BY <1>3
<1> DEFINE chosen == CHOOSE f : Stages(f, d, n)
<1>5. Stages(chosen, d, n)
  BY <1>4, Zenon
<1>6. AfterRows(d, n) = chosen[n]
  BY Zenon DEF AfterRows, Stages
<1> QED BY <1>5, <1>6

\* Each row in turn.
LEMMA StageSteps ==
    ASSUME NEW d, NEW n \in Nat, NEW g, Stages(g, d, n)
    PROVE  /\ g[0] = d
           /\ \A i \in Nat : i < n => g[i + 1] = IndexRow(g[i], rows[i + 1])
<1>1. g[0] = d
  BY DEF Stages
<1>2. ASSUME NEW i \in Nat, i < n PROVE g[i + 1] = IndexRow(g[i], rows[i + 1])
  <2>1. i + 1 \in 0 .. n /\ i + 1 # 0 /\ (i + 1) - 1 = i
    BY <1>2
  <2> QED BY <2>1 DEF Stages
<1> QED BY <1>1, <1>2

\* The exchanges that are indexed when i rows of a batch are.
CoveredAfter(i) == Without(exchanges, {rows[j][1] : j \in i + 1 .. Len(rows)})

\* Before the first row of a batch, that is what is covered.
LEMMA CoveredIsFirst ==
    ASSUME RawInv, RowsInv, rebuilder # "wiped"
    PROVE  Covered = CoveredAfter(0)
<1>1. DOMAIN rows = 1 .. Len(rows)
  BY LenProperties DEF RowsInv
<1>2. Waiting = {rows[j][1] : j \in 0 + 1 .. Len(rows)}
  BY <1>1 DEF Waiting
<1> QED BY <1>2, Zenon DEF Covered, CoveredAfter

\* The raw table is a log.
LEMMA RawLog ==
    ASSUME RawInv
    PROVE  Log(exchanges) /\ nextId \in Nat \ {0}
<1>1. nextId \in Nat \ {0} /\ MaxId \in Nat
  BY IndexAssumption DEF RawInv
<1>2. IsFiniteSet(1 .. nextId - 1)
  BY <1>1, FS_Interval
<1>3. IsFiniteSet(DOMAIN exchanges)
  BY <1>2, FS_Subset DEF RawInv
<1>4. DOMAIN exchanges \in SUBSET Nat
  BY <1>1 DEF RawInv
<1> QED BY <1>1, <1>3, <1>4 DEF RawInv, Log

\* The next row adds its exchange, which is later than those indexed before unless the
\* proxy overtook.
LEMMA CoveredNext ==
    ASSUME RawInv, RowsInv, ~slipped, rebuilder # "wiped", NEW i \in Nat, i < Len(rows)
    PROVE  /\ Row(rows[i + 1]) = exchanges[rows[i + 1][1]]
           /\ rows[i + 1][1] \in DOMAIN exchanges \ DOMAIN CoveredAfter(i)
           /\ CoveredAfter(i + 1) = With(CoveredAfter(i), rows[i + 1][1], exchanges[rows[i + 1][1]])
           /\ AheadInv /\ ~overtaken => Later(rows[i + 1][1], CoveredAfter(i))
<1> DEFINE id == rows[i + 1][1]
           L == Len(rows)
           left(k) == {rows[j][1] : j \in k + 1 .. L}
           C == CoveredAfter(i)
<1>1. L \in Nat /\ i + 1 \in 1 .. L
  BY LenProperties DEF RowsInv
<1>2. \A j \in 1 .. L : rows[j] \in (1 .. nextId - 1) \X Exchanges
  BY ElementOfSeq DEF RowsInv
<1>3. \A j, k \in 1 .. L : j < k => rows[j][1] < rows[k][1]
  BY DEF RowsInv
<1>4. \A j \in 1 .. L : rows[j][1] \in DOMAIN exchanges /\ rows[j][2] = exchanges[rows[j][1]]
  BY DEF RowsInv
<1>5. \A j \in 1 .. L : rows[j][1] \in Nat
  BY <1>2, RawLog
<1> HIDE DEF L
<1>6. Row(rows[i + 1]) = exchanges[id]
  <2> DEFINE x == exchanges[id]
  <2>1. id \in DOMAIN exchanges /\ rows[i + 1][2] = x
    BY <1>1, <1>4
  <2>2. x \in Exchanges
    BY <2>1 DEF RawInv
  <2>3. x = [key |-> x.key, endpoint |-> x.endpoint, status |-> x.status, auth |-> x.auth]
    BY <2>2, IndexAssumption
  <2>4. Row(rows[i + 1]) = [x EXCEPT !.auth = x.auth]
    BY <2>1 DEF Row
  <2> HIDE DEF x, id
  <2>5. [x EXCEPT !.auth = x.auth] = x
    BY <2>3
  <2> QED BY <2>4, <2>5 DEF x, id
<1>7. id \in left(i) /\ left(i) = left(i + 1) \cup {id} /\ id \notin left(i + 1)
  <2>1. \A j \in i + 1 .. L : j = i + 1 \/ j \in (i + 1) + 1 .. L
    BY <1>1
  <2>2. \A j \in (i + 1) + 1 .. L : j \in i + 1 .. L /\ j \in 1 .. L /\ i + 1 < j
    BY <1>1
  <2>3. \A j \in (i + 1) + 1 .. L : rows[j][1] # id
    BY <1>1, <1>3, <1>5, <2>2
  <2>4. i + 1 \in i + 1 .. L
    BY <1>1
  <2> QED BY <2>1, <2>2, <2>3, <2>4
<1>8. /\ C = [k \in DOMAIN exchanges \ left(i) |-> exchanges[k]]
      /\ CoveredAfter(i + 1) = [k \in DOMAIN exchanges \ left(i + 1) |-> exchanges[k]]
  BY DEF CoveredAfter, Without, L
<1>9. id \in DOMAIN exchanges
  BY <1>1, <1>4
<1> HIDE DEF id, left, C
<1>10. CoveredAfter(i + 1) = With(C, id, exchanges[id])
  <2>1. DOMAIN exchanges \ left(i + 1) = DOMAIN C \cup {id}
    BY <1>7, <1>8, <1>9
  <2>2. \A k \in DOMAIN C \cup {id} : exchanges[k] = IF k = id THEN exchanges[id] ELSE C[k]
    BY <1>8
  <2> QED BY <1>8, <2>1, <2>2 DEF With
<1>11. id \notin DOMAIN C
  BY <1>7, <1>8
<1>12. ASSUME AheadInv, ~overtaken PROVE Later(id, C)
  <2> SUFFICES ASSUME NEW k \in DOMAIN C PROVE k < id
    BY DEF Later
  <2>1. k \in DOMAIN exchanges /\ k \notin left(i)
    BY <1>8
  <2>2. CASE \E j \in 1 .. L : rows[j][1] = k
    <3>1. PICK j \in 1 .. L : rows[j][1] = k
      BY <2>2
    <3>2. j \notin i + 1 .. L
      BY <2>1, <3>1 DEF left
    <3>3. j < i + 1
      BY <1>1, <3>2
    <3> QED BY <1>1, <1>3, <3>1, <3>3 DEF id
  <2>3. CASE ~\E j \in 1 .. L : rows[j][1] = k
    <3>1. DOMAIN rows = 1 .. L
      BY LenProperties DEF RowsInv, L
    <3>2. Waiting = {rows[j][1] : j \in 1 .. L}
      BY <3>1 DEF Waiting
    <3>3. k \in DOMAIN Covered /\ id \in Waiting
      BY <1>1, <2>1, <2>3, <3>2 DEF Covered, Without, id
    <3> QED BY <1>12, <3>3 DEF AheadInv
  <2> QED BY <2>2, <2>3
<1> QED BY <1>6, <1>9, <1>10, <1>11, <1>12 DEF id, C

\* So is the part of it that is indexed.
LEMMA CoveredLog ==
    ASSUME RawInv, NEW i
    PROVE  Log(CoveredAfter(i))
<1> DEFINE left == {rows[j][1] : j \in i + 1 .. Len(rows)}
<1>1. Log(exchanges)
  BY RawLog
<1> HIDE DEF left
<1>2. Log(Without(exchanges, left))
  BY <1>1, WithoutLog
<1> QED BY <1>2 DEF CoveredAfter, left

\* What the tables are when i rows of a batch are indexed.
Staged(d, i) ==
    /\ Shaped(d) /\ Within(d, 2 * (nextId - 1) - Len(rows) + i)
    /\ ~slipped => Counts(d) = Counts(Reference(CoveredAfter(i))) /\ Examples(d, exchanges)
    /\ ~slipped /\ ~overtaken => d = Reference(CoveredAfter(i))

\* A batch starts from tables that stand for what is covered.
LEMMA StagedFirst ==
    ASSUME IInv, rebuilder \in {"read", "later"}
    PROVE  Staged(derived, 0)
<1>1. rebuilder # "wiped" /\ Covered = CoveredAfter(0)
  BY CoveredIsFirst DEF IInv
<1>2. Len(rows) \in Nat /\ nextId \in Nat
  BY LenProperties, RawLog DEF IInv, RowsInv
<1>3. Shaped(derived) /\ Within(derived, 2 * (nextId - 1) - Len(rows))
  BY <1>1 DEF IInv, CountInv
<1>4. Within(derived, 2 * (nextId - 1) - Len(rows) + 0)
  BY <1>2, <1>3 DEF Within
<1>5. ~slipped => Counts(derived) = Counts(Reference(CoveredAfter(0))) /\ Examples(derived, exchanges)
  BY <1>1 DEF IInv, CountsExact, ExampleExists, Examples
<1>6. ~slipped /\ ~overtaken => derived = Reference(CoveredAfter(0))
  BY <1>1 DEF IInv, OrderExact
<1> QED BY <1>3, <1>4, <1>5, <1>6 DEF Staged

\* Indexing the next row makes them stand for one exchange more.
LEMMA StagedNext ==
    ASSUME IInv, rebuilder \in {"read", "later"}, NEW i \in Nat, i < Len(rows), NEW d, Staged(d, i)
    PROVE  Staged(IndexRow(d, rows[i + 1]), i + 1)
<1> DEFINE r == rows[i + 1]
           id == r[1]
           new == IndexRow(d, r)
           C == CoveredAfter(i)
<1>1. RawInv /\ RowsInv /\ AheadInv /\ rebuilder # "wiped"
  BY DEF IInv
<1>2. Len(rows) \in Nat /\ nextId \in Nat \ {0} /\ Len(rows) <= nextId - 1 /\ i + 1 \in 1 .. Len(rows)
  BY <1>1, LenProperties, RawLog DEF IInv, RowsInv, CountInv
<1>3. id \in Nat
  <2>1. r \in (1 .. nextId - 1) \X Exchanges
    BY <1>1, <1>2, ElementOfSeq DEF RowsInv
  <2> QED BY <1>2, <2>1
<1>4. new = Indexed(d, id, Row(r))
  BY DEF IndexRow
<1>5. Shaped(new) /\ Within(new, 2 * (nextId - 1) - Len(rows) + (i + 1))
  <2> DEFINE n == 2 * (nextId - 1) - Len(rows) + i
  <2>1. n \in Nat /\ n + 1 = 2 * (nextId - 1) - Len(rows) + (i + 1)
    BY <1>2
  <2>2. Shaped(d) /\ Within(d, n)
    BY DEF Staged
  <2> HIDE DEF n, r, id, new
  <2>3. Shaped(new) /\ Within(new, n + 1)
    BY <1>3, <1>4, <2>1, <2>2, IndexedShaped
  <2> QED BY <2>1, <2>3
<1>6. ASSUME ~slipped
      PROVE  /\ Counts(new) = Counts(Reference(CoveredAfter(i + 1)))
             /\ Examples(new, exchanges)
             /\ ~overtaken => new = Reference(CoveredAfter(i + 1))
  <2> DEFINE x == exchanges[id]
  <2>1. /\ Row(r) = x
        /\ id \in DOMAIN exchanges \ DOMAIN C
        /\ CoveredAfter(i + 1) = With(C, id, x)
        /\ ~overtaken => Later(id, C)
    BY <1>1, <1>6, CoveredNext
  <2>2. Log(C) /\ x \in Exchanges /\ id \in Nat \ DOMAIN C
    BY <1>1, <1>3, <2>1, CoveredLog DEF RawInv
  <2>3. Counts(d) = Counts(Reference(C)) /\ Examples(d, exchanges) /\ (~overtaken => d = Reference(C))
    BY <1>6 DEF Staged
  <2> HIDE DEF C, id, r, new, x
  <2>4. Counts(new) = Counts(Reference(With(C, id, x)))
    BY <1>4, <2>1, <2>2, <2>3, CountsIndexed
  <2>5. Examples(new, exchanges)
    BY <1>4, <2>1, <2>3, ExamplesIndexed DEF x
  <2>6. ASSUME ~overtaken PROVE new = Reference(With(C, id, x))
    BY <1>4, <2>1, <2>2, <2>3, <2>6, OrderIndexed
  <2> QED BY <2>1, <2>4, <2>5, <2>6
<1> HIDE DEF new
<1> QED BY <1>5, <1>6 DEF Staged, new, r

\* After n rows they stand for n exchanges more.
LEMMA StagedAfter ==
    ASSUME IInv, rebuilder \in {"read", "later"}, NEW n \in Nat, n <= Len(rows)
    PROVE  Staged(AfterRows(derived, n), n)
<1>1. PICK g : Stages(g, derived, n) /\ AfterRows(derived, n) = g[n]
  BY AfterDefined
<1>2. g[0] = derived /\ \A i \in Nat : i < n => g[i + 1] = IndexRow(g[i], rows[i + 1])
  BY <1>1, StageSteps
<1>3. Len(rows) \in Nat
  BY LenProperties DEF IInv, RowsInv
<1> DEFINE N == {i \in Nat : i <= n => Staged(g[i], i)}
<1>4. 0 \in N
  BY <1>2, StagedFirst
<1>5. ASSUME NEW i \in N PROVE i + 1 \in N
  <2> SUFFICES ASSUME i + 1 <= n PROVE Staged(g[i + 1], i + 1)
    OBVIOUS
  <2>1. i \in Nat /\ i < n /\ i < Len(rows) /\ i <= n
    BY <1>3
  <2>2. Staged(g[i], i)
    BY <2>1
  <2> HIDE DEF N
  <2>3. Staged(IndexRow(g[i], rows[i + 1]), i + 1)
    BY <2>1, <2>2, StagedNext
  <2> QED BY <1>2, <2>1, <2>3
<1>6. N = Nat
  <2> HIDE DEF N
  <2>1. N \in SUBSET Nat
    BY DEF N
  <2> QED BY <1>4, <1>5, <2>1, NumberInduction
<1> QED BY <1>1, <1>6

-----------------------------------------------------------------------------
(* The invariant, step by step.                                            *)

\* What no exchanges mean is what the tables are created with.
LEMMA NothingCounted ==
    ASSUME NEW xs, DOMAIN xs = {}
    PROVE  Reference(xs) = Empty
<1>1. DOMAIN ServicesOf(xs) = {} /\ DOMAIN EndpointsOf(xs) = {} /\ SnapshotsOf(xs) = {}
  BY DEF ServicesOf, EndpointsOf, SnapshotsOf, LeftSnapshot, Authed
<1>2. ServicesOf(xs) = [k \in {} |-> 0] /\ EndpointsOf(xs) = [k \in {} |-> 0]
  BY <1>1 DEF ServicesOf, EndpointsOf
<1>3. Empty.services = [k \in {} |-> 0] /\ Empty.endpoints = [k \in {} |-> 0]
  BY DEF Empty
<1>4. Empty = [services |-> Empty.services, endpoints |-> Empty.endpoints, snapshots |-> {}]
  BY DEF Empty
<1> QED BY <1>1, <1>2, <1>3, <1>4 DEF Reference

\* Empty tables name no example.
LEMMA NoExamples == \A xs : Examples(Empty, xs)
<1>1. DOMAIN Empty.endpoints = {}
  BY DEF Empty
<1> QED BY <1>1 DEF Examples

\* Where nothing waits everything is covered.
LEMMA CoveredAll ==
    ASSUME RawInv, rebuilder # "wiped", rows = <<>>
    PROVE  Waiting = {} /\ Covered = exchanges
<1>1. Waiting = {}
  BY DEF Waiting
<1> QED BY <1>1 DEF Covered, Without, RawInv

\* A new database.
LEMMA InitInv == Init => IInv
<1> SUFFICES ASSUME Init PROVE IInv
  OBVIOUS
<1>1. exchanges = <<>> /\ nextId = 1 /\ derived = Empty /\ rebuilder = "idle" /\ rows = <<>>
      /\ snapshotOk = FALSE /\ slipped = FALSE /\ overtaken = FALSE
  BY DEF Init
<1>2. DOMAIN exchanges = {} /\ exchanges \in [{} -> Exchanges]
  BY <1>1
<1>3. RawInv
  <2>1. exchanges \in [DOMAIN exchanges -> Exchanges] /\ DOMAIN exchanges \subseteq 1 .. nextId - 1
    BY <1>2
  <2>2. nextId \in 1 .. MaxId + 1
    BY <1>1, IndexAssumption
  <2>3. {snapshotOk, slipped, overtaken} \subseteq BOOLEAN
    BY <1>1
  <2>4. rebuilder \in {"idle", "wiped", "read", "later"}
    BY <1>1
  <2> QED BY <2>1, <2>2, <2>3, <2>4 DEF RawInv
<1>4. RowsInv
  BY <1>1 DEF RowsInv
<1>5. CountInv
  BY <1>1, EmptyShaped DEF CountInv
<1>6. WipedInv
  BY <1>1 DEF WipedInv
<1>7. DOMAIN Covered = {} /\ Waiting = {}
  BY <1>1, <1>2, <1>3, CoveredAll
<1>8. derived = Reference(Covered)
  BY <1>1, <1>7, NothingCounted
<1>9. Examples(derived, exchanges)
  BY <1>1, NoExamples
<1>10. AheadInv /\ CountsExact /\ OrderExact /\ ExampleExists
  BY <1>7, <1>8, <1>9 DEF AheadInv, CountsExact, OrderExact, ExampleExists, Examples
<1> QED BY <1>3, <1>4, <1>5, <1>6, <1>10 DEF IInv

\* The proxy inserts and indexes an exchange.
LEMMA PutInv == \A x \in Exchanges : IInv /\ Put(x) => IInv'
<1> SUFFICES ASSUME NEW x \in Exchanges, IInv, Put(x) PROVE IInv'
  OBVIOUS
<1>1. RawInv /\ RowsInv /\ Log(exchanges) /\ nextId \in Nat \ {0} /\ MaxId \in Nat
  BY RawLog, IndexAssumption DEF IInv
<1>2. /\ nextId <= MaxId /\ nextId' = nextId + 1
      /\ exchanges' = With(exchanges, nextId, x) /\ derived' = Indexed(derived, nextId, x)
      /\ rebuilder' = rebuilder /\ rows' = rows /\ snapshotOk' = FALSE
  BY DEF Put, rebuild
<1>3. /\ slipped' \in BOOLEAN /\ overtaken' \in BOOLEAN
      /\ ~slipped' => ~slipped /\ rebuilder # "wiped"
      /\ ~overtaken' => ~overtaken /\ rebuilder = "idle"
  BY DEF Put
<1>4. nextId \in Nat \ DOMAIN exchanges /\ Later(nextId, exchanges)
  BY <1>1 DEF RawInv, Later
<1>5. Adds(exchanges', exchanges, nextId, x)
  BY <1>1, <1>2, <1>4, WithLog
<1>6. RawInv'
  <2>1. exchanges' \in [DOMAIN exchanges' -> Exchanges]
    BY <1>1, <1>2, <1>4, WithLog DEF Log
  <2>2. DOMAIN exchanges' \subseteq 1 .. nextId' - 1
    BY <1>1, <1>2, <1>5 DEF Adds, RawInv
  <2>3. {snapshotOk', slipped', overtaken'} \subseteq BOOLEAN
    BY <1>2, <1>3
  <2>4. nextId' \in 1 .. MaxId + 1
    BY <1>1, <1>2
  <2>5. rebuilder' \in {"idle", "wiped", "read", "later"}
    BY <1>1, <1>2 DEF RawInv
  <2> QED BY <2>1, <2>2, <2>3, <2>4, <2>5 DEF RawInv
<1>7. RowsInv'
  <2> DEFINE S == (1 .. nextId - 1) \X Exchanges
             T == (1 .. nextId' - 1) \X Exchanges
  <2>1. S \subseteq T
    BY <1>1, <1>2
  <2>2. rows \in Seq(T)
    <3> HIDE DEF S, T
    <3>1. rows \in Seq(S)
      BY <1>1 DEF RowsInv, S
    <3>2. rows \in [1 .. Len(rows) -> T] /\ Len(rows) \in Nat
      BY <2>1, <3>1, ElementOfSeq, LenProperties
    <3> QED BY <3>2, SeqDef
  <2>3. ASSUME ~slipped', NEW i \in 1 .. Len(rows)
        PROVE  rows[i][1] \in DOMAIN exchanges' /\ rows[i][2] = exchanges'[rows[i][1]]
    <3>1. rows[i][1] \in DOMAIN exchanges /\ rows[i][2] = exchanges[rows[i][1]]
      BY <1>1, <1>3, <2>3 DEF RowsInv
    <3> QED BY <1>5, <3>1 DEF Adds
  <2> QED BY <1>1, <1>2, <2>2, <2>3 DEF RowsInv
<1>8. CountInv'
  <2> DEFINE n == IF rebuilder = "wiped" THEN nextId - 1 ELSE 2 * (nextId - 1) - Len(rows)
             m == IF rebuilder' = "wiped" THEN nextId' - 1 ELSE 2 * (nextId' - 1) - Len(rows')
  <2>1. Len(rows) \in Nat /\ Len(rows) <= nextId - 1
    BY <1>1, LenProperties DEF IInv, CountInv, RowsInv
  <2>2. n \in Nat /\ m \in Nat /\ n + 1 <= m /\ Len(rows') <= nextId' - 1
    BY <1>1, <1>2, <2>1
  <2>3. Shaped(derived) /\ Within(derived, n)
    BY DEF IInv, CountInv
  <2> HIDE DEF n, m
  <2>4. Shaped(derived') /\ Within(derived', n + 1)
    BY <1>1, <1>2, <2>2, <2>3, IndexedShaped
  <2>5. Within(derived', m)
    <3>1. \A k \in DOMAIN derived'.services : derived'.services[k].count \in Nat
      BY <2>4 DEF Shaped
    <3> QED BY <2>2, <2>4, <3>1 DEF Within
  <2> QED BY <2>2, <2>4, <2>5 DEF CountInv, m
<1>9. WipedInv'
  BY <1>2, <1>3 DEF WipedInv
<1>10. ASSUME ~slipped'
       PROVE  /\ CountsExact' /\ ExampleExists'
              /\ ~overtaken' => Waiting' = {} /\ derived' = Reference(Covered')
  <2>1. ~slipped /\ rebuilder # "wiped"
    BY <1>3, <1>10
  <2>2. Waiting' = Waiting /\ nextId \notin Waiting
    <3>1. Waiting' = Waiting
      BY <1>2, <2>1 DEF Waiting
    <3>2. \A i \in DOMAIN rows : rows[i][1] # nextId
      <4>1. DOMAIN rows = 1 .. Len(rows)
        BY <1>1, LenProperties DEF RowsInv
      <4> QED BY <1>1, <2>1, <1>4, <4>1 DEF RowsInv
    <3> QED BY <2>1, <3>1, <3>2 DEF Waiting
  <2>3. Log(Covered) /\ nextId \in Nat \ DOMAIN Covered
    <3>1. Log(Covered)
      BY <1>1, WithoutLog DEF Covered
    <3> QED BY <1>4, <3>1 DEF Covered, Without
  <2>4. Covered' = With(Covered, nextId, x)
    <3> DEFINE W == Waiting
    <3>1. Covered' = Without(exchanges', W)
      BY <2>2 DEF Covered
    <3>2. Covered = Without(exchanges, W)
      BY DEF Covered
    <3> HIDE DEF W
    <3>3. /\ DOMAIN exchanges' \ W = (DOMAIN exchanges \ W) \cup {nextId}
          /\ exchanges'[nextId] = x
          /\ \A k \in DOMAIN exchanges \ W : exchanges'[k] = exchanges[k]
      BY <1>4, <1>5, <2>2 DEF Adds, W
    <3>4. nextId \notin DOMAIN exchanges
      BY <1>4
    <3> QED BY <3>1, <3>2, <3>3, <3>4 DEF With, Without
  <2>5. Counts(derived) = Counts(Reference(Covered)) /\ Examples(derived, exchanges)
    BY <2>1 DEF IInv, CountsExact, ExampleExists, Examples
  <2>6. Counts(derived') = Counts(Reference(Covered'))
    BY <1>2, <2>3, <2>4, <2>5, CountsIndexed
  <2>7. Examples(derived, exchanges')
    BY <1>5, <2>5 DEF Examples, Adds
  <2>8. Examples(derived', exchanges')
    <3>1. nextId \in DOMAIN exchanges' /\ exchanges'[nextId] = x
      BY <1>5 DEF Adds
    <3> QED BY <1>2, <2>7, <3>1, ExamplesIndexed
  <2>9. ASSUME ~overtaken' PROVE Waiting' = {} /\ derived' = Reference(Covered')
    <3>1. ~overtaken /\ rebuilder = "idle" /\ rows = <<>>
      BY <1>1, <1>3, <2>9 DEF RowsInv
    <3>2. Waiting = {} /\ Covered = exchanges
      BY <1>1, <3>1, CoveredAll
    <3>3. derived = Reference(Covered)
      BY <2>1, <3>1 DEF IInv, OrderExact
    <3> QED BY <1>2, <1>4, <2>2, <2>3, <2>4, <3>2, <3>3, OrderIndexed
  <2> QED BY <2>6, <2>8, <2>9 DEF CountsExact, ExampleExists, Examples
<1>11. CountsExact' /\ ExampleExists' /\ OrderExact' /\ AheadInv'
  BY <1>10 DEF CountsExact, ExampleExists, OrderExact, AheadInv
<1> QED BY <1>6, <1>7, <1>8, <1>9, <1>11 DEF IInv

\* The command line deletes a service.
LEMMA DeleteInv == \A key : IInv /\ Delete(key) => IInv'
<1> SUFFICES ASSUME NEW key, IInv, Delete(key) PROVE IInv'
  OBVIOUS
<1>1. RawInv /\ RowsInv /\ Log(exchanges) /\ nextId \in Nat \ {0}
  BY RawLog DEF IInv
<1>2. /\ exchanges' = Without(exchanges, OfKey(exchanges, key))
      /\ derived' = Deleted(derived, key)
      /\ nextId' = nextId /\ rebuilder' = rebuilder /\ rows' = rows
      /\ snapshotOk' = FALSE /\ overtaken' = overtaken
  BY DEF Delete, OfService, OfKey, Deleted, rebuild
<1>3. /\ slipped' \in BOOLEAN
      /\ ~slipped' => ~slipped /\ rebuilder \in {"idle", "wiped"} /\ rows = <<>>
  <2>1. slipped' = (slipped \/ rebuilder \in {"read", "later"})
    BY DEF Delete
  <2>2. slipped' \in BOOLEAN
    BY <2>1
  <2>3. ~slipped' => ~slipped /\ rebuilder \in {"idle", "wiped"}
    BY <1>1, <2>1 DEF RawInv
  <2> QED BY <1>1, <2>2, <2>3 DEF RowsInv
<1>4. Log(exchanges') /\ Removes(exchanges', exchanges, key)
  BY <1>1, <1>2, WithoutService
<1>5. RawInv'
  <2>1. exchanges' \in [DOMAIN exchanges' -> Exchanges]
    BY <1>4 DEF Log
  <2>2. DOMAIN exchanges' \subseteq 1 .. nextId - 1
    BY <1>1, <1>4 DEF Removes, RawInv
  <2>3. {snapshotOk', slipped', overtaken'} \subseteq BOOLEAN
    BY <1>1, <1>2, <1>3 DEF RawInv
  <2> QED BY <1>1, <1>2, <2>1, <2>2, <2>3 DEF RawInv
<1>6. RowsInv'
  <2>1. ASSUME ~slipped' PROVE 1 .. Len(rows) = {}
    BY <1>3, <2>1
  <2> QED BY <1>1, <1>2, <2>1 DEF RowsInv
<1>7. CountInv'
  <2> DEFINE n == IF rebuilder = "wiped" THEN nextId - 1 ELSE 2 * (nextId - 1) - Len(rows)
  <2>1. Len(rows) \in Nat /\ Len(rows) <= nextId - 1
    BY <1>1, LenProperties DEF IInv, CountInv, RowsInv
  <2>2. n \in Nat
    BY <1>1, <2>1
  <2>3. Shaped(derived) /\ Within(derived, n)
    BY DEF IInv, CountInv
  <2> HIDE DEF n
  <2>4. Shaped(derived') /\ Within(derived', n)
    BY <1>2, <2>2, <2>3, DeletedShaped
  <2> QED BY <1>2, <2>1, <2>4 DEF CountInv, n
<1>8. ASSUME ~slipped', rebuilder = "wiped"
      PROVE  derived' = Empty /\ DOMAIN Covered' = {}
  <2>1. derived = Empty
    BY <1>3, <1>8 DEF IInv, WipedInv
  <2>2. Deleted(Empty, key) = Empty
    <3> DEFINE xs == [i \in {} |-> 0]
    <3>1. DOMAIN xs = {} /\ DOMAIN Without(xs, OfKey(xs, key)) = {} /\ xs \in [DOMAIN xs -> Exchanges]
      BY DEF Without
    <3>2. Log(xs)
      BY <3>1, FS_EmptySet DEF Log
    <3> HIDE DEF xs
    <3> QED BY <3>1, <3>2, NothingCounted, OrderDeleted
  <2>3. Waiting' = DOMAIN exchanges'
    BY <1>2, <1>8 DEF Waiting
  <2> QED BY <1>2, <2>1, <2>2, <2>3 DEF Covered, Without
<1>9. ASSUME ~slipped', rebuilder = "idle"
      PROVE  /\ Waiting' = {} /\ Covered' = exchanges'
             /\ Counts(derived') = Counts(Reference(exchanges'))
             /\ Examples(derived', exchanges')
             /\ ~overtaken' => derived' = Reference(exchanges')
  <2>1. ~slipped /\ rows = <<>>
    BY <1>3, <1>9
  <2>2. Waiting = {} /\ Covered = exchanges
    BY <1>1, <1>9, <2>1, CoveredAll
  <2>3. Waiting' = {}
    BY <1>2, <1>9, <2>1 DEF Waiting
  <2>4. Covered' = exchanges'
    BY <1>4, <2>3 DEF Covered, Without, Log
  <2>5. /\ Counts(derived) = Counts(Reference(exchanges)) /\ Examples(derived, exchanges)
        /\ ~overtaken => derived = Reference(exchanges)
    BY <2>1, <2>2 DEF IInv, CountsExact, ExampleExists, OrderExact, Examples
  <2>6. Counts(derived') = Counts(Reference(exchanges'))
    BY <1>1, <1>2, <2>5, CountsDeleted
  <2>7. Examples(derived', exchanges')
    BY <1>2, <1>4, <2>5, ExamplesDeleted
  <2>8. ~overtaken' => derived' = Reference(exchanges')
    BY <1>1, <1>2, <2>5, OrderDeleted
  <2> QED BY <2>3, <2>4, <2>6, <2>7, <2>8
<1>10. ASSUME ~slipped'
       PROVE  /\ Counts(derived') = Counts(Reference(Covered')) /\ Examples(derived', exchanges')
              /\ ~overtaken' => derived' = Reference(Covered') /\ \A i \in DOMAIN Covered' : \A w \in Waiting' : i < w
  <2>1. CASE rebuilder = "wiped"
    BY <1>8, <1>10, <2>1, NothingCounted, NoExamples
  <2>2. CASE rebuilder = "idle"
    BY <1>9, <1>10, <2>2
  <2> QED BY <1>3, <1>10, <2>1, <2>2
<1>11. WipedInv'
  BY <1>2, <1>8 DEF WipedInv
<1>12. CountsExact' /\ ExampleExists' /\ OrderExact' /\ AheadInv'
  BY <1>10 DEF CountsExact, ExampleExists, OrderExact, AheadInv, Examples
<1> QED BY <1>5, <1>6, <1>7, <1>11, <1>12 DEF IInv

\* Tables that are emptied while nothing counts as indexed.
LEMMA EmptiedInv ==
    ASSUME IInv, [Next]_vars, RawInv', RowsInv', CountInv', derived' = Empty, DOMAIN Covered' = {}
    PROVE  IInv'
<1>1. derived' = Reference(Covered')
  BY NothingCounted
<1>2. Examples(derived', exchanges')
  BY NoExamples
<1>3. CountsExact' /\ ExampleExists' /\ OrderExact' /\ AheadInv'
  BY <1>1, <1>2 DEF CountsExact, ExampleExists, OrderExact, AheadInv, Examples
<1>4. WipedInv'
  BY DEF WipedInv
<1> QED BY <1>3, <1>4 DEF IInv

\* The command line clears the database.
LEMMA ClearInv == IInv /\ ClearAll => IInv'
<1> SUFFICES ASSUME IInv, ClearAll PROVE IInv'
  OBVIOUS
<1>1. RawInv /\ RowsInv /\ nextId \in Nat \ {0}
  BY RawLog DEF IInv
<1>2. /\ exchanges' = <<>> /\ derived' = Empty
      /\ nextId' = nextId /\ rebuilder' = rebuilder /\ rows' = rows
      /\ snapshotOk' = FALSE
      /\ slipped' \in BOOLEAN /\ overtaken' \in BOOLEAN
  BY DEF ClearAll, rebuild
<1>3. ~slipped' => rows = <<>>
  <2>1. slipped' = (rebuilder \in {"read", "later"})
    BY DEF ClearAll
  <2>2. ~slipped' => rebuilder \in {"idle", "wiped"}
    BY <1>1, <2>1 DEF RawInv
  <2> QED BY <1>1, <2>2 DEF RowsInv
<1>4. DOMAIN exchanges' = {} /\ exchanges' \in [{} -> Exchanges]
  BY <1>2
<1>5. RawInv'
  <2>1. {snapshotOk', slipped', overtaken'} \subseteq BOOLEAN
    BY <1>2
  <2>2. exchanges' \in [DOMAIN exchanges' -> Exchanges] /\ DOMAIN exchanges' \subseteq 1 .. nextId' - 1
    BY <1>4
  <2> QED BY <1>1, <1>2, <2>1, <2>2 DEF RawInv
<1>6. RowsInv'
  <2>1. ASSUME ~slipped' PROVE 1 .. Len(rows) = {}
    BY <1>3, <2>1
  <2> QED BY <1>1, <1>2, <2>1 DEF RowsInv
<1>7. CountInv'
  BY <1>2, EmptyShaped DEF IInv, CountInv
<1>8. DOMAIN Covered' = {}
  BY <1>4 DEF Covered, Without
<1> QED BY <1>2, <1>5, <1>6, <1>7, <1>8, EmptiedInv DEF Next

\* A rebuild begins: what is to be indexed again waits.
LEMMA WipesInv == IInv /\ RebuildWipes => IInv'
<1> SUFFICES ASSUME IInv, RebuildWipes PROVE IInv'
  OBVIOUS
<1>1. RawInv /\ RowsInv /\ rebuilder = "idle" /\ rows = <<>>
  BY DEF IInv, RowsInv, RebuildWipes
<1>2. /\ rebuilder' = "wiped" /\ derived' = Empty /\ slipped' = FALSE /\ overtaken' = FALSE
      /\ exchanges' = exchanges /\ nextId' = nextId /\ rows' = rows /\ snapshotOk' = snapshotOk
  BY DEF RebuildWipes
<1>3. RawInv'
  <2>1. {snapshotOk', slipped', overtaken'} \subseteq BOOLEAN
    BY <1>1, <1>2 DEF RawInv
  <2> QED BY <1>1, <1>2, <2>1 DEF RawInv
<1>4. RowsInv'
  <2>1. 1 .. Len(rows) = {}
    BY <1>1
  <2> QED BY <1>1, <1>2, <2>1 DEF RowsInv
<1>5. CountInv'
  BY <1>1, <1>2, EmptyShaped DEF IInv, CountInv
<1>6. DOMAIN Covered' = {}
  BY <1>2 DEF Covered, Without, Waiting
<1> QED BY <1>2, <1>3, <1>4, <1>5, <1>6, EmptiedInv DEF Next, Rebuild

\* The rows read are all the exchanges, in order.
LEMMA ReadsRows ==
    ASSUME IInv, RebuildReads
    PROVE  /\ RowsInv' /\ Len(rows') \in Nat /\ Len(rows') <= nextId - 1
           /\ Waiting' = DOMAIN exchanges
<1>1. RawInv /\ nextId \in Nat \ {0} /\ Log(exchanges)
  BY RawLog DEF IInv
<1>2. /\ rebuilder' = "read" /\ nextId' = nextId /\ exchanges' = exchanges /\ slipped' = slipped
  BY DEF RebuildReads
<1> DEFINE ids == DOMAIN exchanges
           N == Cardinality(ids)
<1>3. PICK list \in ById(ids) : rows' = [i \in 1 .. N |-> <<list[i], exchanges[list[i]]>>]
  BY DEF RebuildReads
<1>4. /\ list \in [1 .. N -> ids] /\ ids = {list[i] : i \in DOMAIN list}
      /\ \A i, j \in DOMAIN list : i < j => list[i] < list[j]
  BY DEF ById
<1>5. N \in Nat /\ N <= nextId - 1
  <2>1. IsFiniteSet(1 .. nextId - 1) /\ Cardinality(1 .. nextId - 1) = nextId - 1
    BY <1>1, FS_Interval
  <2>2. ids \subseteq 1 .. nextId - 1
    BY <1>1 DEF RawInv
  <2> HIDE DEF ids
  <2> QED BY <2>1, <2>2, FS_Subset, FS_CardinalityType
<1>6. ids \subseteq 1 .. nextId - 1 /\ \A k \in ids : exchanges[k] \in Exchanges
  BY <1>1 DEF RawInv
<1> HIDE DEF ids, N
<1>7. /\ DOMAIN rows' = 1 .. N
      /\ \A i \in 1 .. N : rows'[i] = <<list[i], exchanges[list[i]]>> /\ list[i] \in ids
  BY <1>3, <1>4
<1>8. rows' \in Seq((1 .. nextId - 1) \X Exchanges) /\ Len(rows') = N
  <2> DEFINE T == (1 .. nextId - 1) \X Exchanges
  <2>1. rows' \in [1 .. N -> T]
    <3>1. \A i \in 1 .. N : <<list[i], exchanges[list[i]]>> \in T
      BY <1>6, <1>7
    <3> HIDE DEF T
    <3> QED BY <1>3, <3>1
  <2> HIDE DEF T
  <2>2. rows' \in Seq(T)
    BY <1>5, <2>1, SeqDef
  <2>3. Len(rows') = N
    BY <1>5, <1>7, <2>2, LenProperties
  <2> QED BY <2>2, <2>3 DEF T
<1>9. \A i, j \in 1 .. N : i < j => rows'[i][1] < rows'[j][1]
  BY <1>4, <1>7
<1>10. \A i \in 1 .. N : rows'[i][1] \in DOMAIN exchanges /\ rows'[i][2] = exchanges[rows'[i][1]]
  BY <1>7 DEF ids
<1>11. RowsInv'
  BY <1>2, <1>8, <1>9, <1>10 DEF RowsInv
<1>12. Waiting' = ids
  <2>1. Waiting' = {rows'[i][1] : i \in DOMAIN rows'}
    BY <1>2 DEF Waiting
  <2>2. DOMAIN list = 1 .. N
    BY <1>4
  <2> QED BY <1>4, <1>7, <2>1, <2>2
<1> QED BY <1>5, <1>8, <1>11, <1>12 DEF ids

\* A rebuild reads.
LEMMA ReadsInv == IInv /\ RebuildReads => IInv'
<1> SUFFICES ASSUME IInv, RebuildReads PROVE IInv'
  OBVIOUS
<1>1. RawInv /\ nextId \in Nat \ {0}
  BY RawLog DEF IInv
<1>2. /\ rebuilder = "wiped" /\ rebuilder' = "read" /\ snapshotOk' = TRUE
      /\ exchanges' = exchanges /\ nextId' = nextId /\ derived' = derived
      /\ slipped' = slipped /\ overtaken' = overtaken
  BY DEF RebuildReads
<1>3. RowsInv' /\ Len(rows') \in Nat /\ Len(rows') <= nextId - 1 /\ Waiting' = DOMAIN exchanges
  BY ReadsRows
<1>4. RawInv'
  <2>1. {snapshotOk', slipped', overtaken'} \subseteq BOOLEAN
    BY <1>1, <1>2 DEF RawInv
  <2> QED BY <1>1, <1>2, <2>1 DEF RawInv
<1>5. CountInv'
  <2>1. Shaped(derived) /\ Within(derived, nextId - 1)
    BY <1>2 DEF IInv, CountInv
  <2>2. nextId - 1 <= 2 * (nextId - 1) - Len(rows')
    BY <1>1, <1>3
  <2>3. Within(derived, 2 * (nextId - 1) - Len(rows'))
    <3>1. \A k \in DOMAIN derived.services : derived.services[k].count \in Nat
      BY <2>1 DEF Shaped
    <3> QED BY <1>1, <1>3, <2>1, <2>2, <3>1 DEF Within
  <2> QED BY <1>2, <1>3, <2>1, <2>3 DEF CountInv
<1>6. DOMAIN Covered' = {}
  BY <1>2, <1>3 DEF Covered, Without
<1>7. CASE slipped
  BY <1>2, <1>3, <1>4, <1>5, <1>7
     DEF IInv, WipedInv, AheadInv, CountsExact, OrderExact, ExampleExists
<1>8. CASE ~slipped
  <2>1. derived' = Empty
    BY <1>2, <1>8 DEF IInv, WipedInv
  <2> QED BY <1>3, <1>4, <1>5, <1>6, <2>1, EmptiedInv DEF Next, Rebuild
<1> QED BY <1>7, <1>8

\* The rebuild is done with its rows: nothing changes but that it is idle.
LEMMA EndsInv == IInv /\ RebuildEnds => IInv'
<1> SUFFICES ASSUME IInv, RebuildEnds PROVE IInv'
  OBVIOUS
<1>1. /\ rebuilder # "wiped" /\ rebuilder' = "idle" /\ rows = <<>>
      /\ exchanges' = exchanges /\ nextId' = nextId /\ derived' = derived /\ rows' = rows
      /\ snapshotOk' = snapshotOk /\ slipped' = slipped /\ overtaken' = overtaken
  BY DEF RebuildEnds
<1>2. Waiting' = Waiting /\ Covered' = Covered
  BY <1>1 DEF Waiting, Covered
<1>3. RawInv' /\ RowsInv' /\ CountInv' /\ WipedInv'
  BY <1>1 DEF IInv, RawInv, RowsInv, CountInv, WipedInv
<1>4. AheadInv' /\ CountsExact' /\ OrderExact' /\ ExampleExists'
  BY <1>1, <1>2 DEF IInv, AheadInv, CountsExact, OrderExact, ExampleExists
<1> QED BY <1>3, <1>4 DEF IInv

\* The rebuild fails: what is left out is not counted any more.
LEMMA FailsInv == IInv /\ RebuildFails => IInv'
<1> SUFFICES ASSUME IInv, RebuildFails PROVE IInv'
  OBVIOUS
<1>1. RawInv /\ RowsInv /\ nextId \in Nat \ {0}
  BY RawLog DEF IInv
<1>2. /\ rebuilder' = "idle" /\ rows' = <<>> /\ slipped' = TRUE
      /\ exchanges' = exchanges /\ nextId' = nextId /\ derived' = derived
      /\ snapshotOk' = snapshotOk /\ overtaken' = overtaken
  BY DEF RebuildFails
<1>3. RawInv'
  <2>1. {snapshotOk', slipped', overtaken'} \subseteq BOOLEAN
    BY <1>1, <1>2 DEF RawInv
  <2> QED BY <1>1, <1>2, <2>1 DEF RawInv
<1>4. RowsInv'
  BY <1>2 DEF RowsInv
<1>5. CountInv'
  <2> DEFINE n == IF rebuilder = "wiped" THEN nextId - 1 ELSE 2 * (nextId - 1) - Len(rows)
  <2>1. Len(rows) \in Nat /\ Len(rows') = 0
    BY <1>1, <1>2, LenProperties DEF RowsInv
  <2>2. n \in Int /\ n <= 2 * (nextId - 1) - Len(rows')
    BY <1>1, <2>1
  <2>3. Shaped(derived) /\ Within(derived, n)
    BY DEF IInv, CountInv
  <2> HIDE DEF n
  <2>4. Within(derived, 2 * (nextId - 1) - Len(rows'))
    <3>1. \A k \in DOMAIN derived.services : derived.services[k].count \in Nat
      BY <2>3 DEF Shaped
    <3> QED BY <1>1, <2>1, <2>2, <2>3, <3>1 DEF Within
  <2> QED BY <1>1, <1>2, <2>1, <2>3, <2>4 DEF CountInv
<1> QED BY <1>2, <1>3, <1>4, <1>5
        DEF IInv, WipedInv, AheadInv, CountsExact, OrderExact, ExampleExists

\* What is left of the rows after a batch: those behind it.
LEMMA RowsLeft ==
    ASSUME RowsInv, NEW n \in Nat, n <= Len(rows), rows' = SubSeq(rows, n + 1, Len(rows))
    PROVE  /\ rows' \in Seq((1 .. nextId - 1) \X Exchanges) /\ Len(rows') = Len(rows) - n
           /\ \A i \in 1 .. Len(rows') : rows'[i] = rows[n + i] /\ n + i \in 1 .. Len(rows)
<1> DEFINE T == (1 .. nextId - 1) \X Exchanges
           L == Len(rows)
<1>1. rows \in Seq(T) /\ L \in Nat
  BY LenProperties DEF RowsInv
<1> HIDE DEF T
<1>2. \A i \in n + 1 .. L : i \in 1 .. L
  BY <1>1
<1>3. rows' \in Seq(T) /\ Len(rows') = IF n + 1 <= L THEN L - (n + 1) + 1 ELSE 0
  <2>1. \A i \in n + 1 .. L : rows[i] \in T
    BY <1>1, <1>2, ElementOfSeq
  <2> QED BY <1>1, <2>1, SubSeqProperties
<1>4. Len(rows') = L - n
  BY <1>1, <1>3
<1>5. ASSUME NEW i \in 1 .. Len(rows') PROVE rows'[i] = rows[n + i] /\ n + i \in 1 .. L
  <2>1. i \in 1 .. L - (n + 1) + 1 /\ n + i \in 1 .. L /\ n + i = (n + 1) + i - 1
    BY <1>1, <1>4
  <2> QED BY <1>1, <2>1, SubSeqProperties
<1> QED BY <1>3, <1>4, <1>5 DEF T

\* Then those before it are indexed.
LEMMA CoveredLeft ==
    ASSUME RowsInv, NEW n \in Nat, n <= Len(rows), rows' = SubSeq(rows, n + 1, Len(rows)),
           rebuilder' # "wiped", exchanges' = exchanges
    PROVE  /\ Waiting' = {rows[j][1] : j \in n + 1 .. Len(rows)}
           /\ Covered' = CoveredAfter(n)
<1>1. Len(rows) \in Nat
  BY LenProperties DEF RowsInv
<1>2. /\ rows' \in Seq((1 .. nextId - 1) \X Exchanges) /\ Len(rows') = Len(rows) - n
      /\ \A i \in 1 .. Len(rows') : rows'[i] = rows[n + i]
  BY RowsLeft
<1>3. DOMAIN rows' = 1 .. Len(rows) - n
  BY <1>2, LenProperties
<1>4. Waiting' = {rows'[i][1] : i \in 1 .. Len(rows) - n}
  BY <1>3 DEF Waiting
<1>5. Waiting' = {rows[j][1] : j \in n + 1 .. Len(rows)}
  <2>1. \A i \in 1 .. Len(rows) - n : n + i \in n + 1 .. Len(rows) /\ rows'[i] = rows[n + i]
    BY <1>1, <1>2
  <2>2. \A j \in n + 1 .. Len(rows) : j - n \in 1 .. Len(rows) - n /\ n + (j - n) = j
    BY <1>1
  <2>3. \A j \in n + 1 .. Len(rows) : rows'[j - n] = rows[j]
    BY <2>1, <2>2
  <2>4. {rows'[i][1] : i \in 1 .. Len(rows) - n} \subseteq {rows[j][1] : j \in n + 1 .. Len(rows)}
    BY <2>1
  <2>5. {rows[j][1] : j \in n + 1 .. Len(rows)} \subseteq {rows'[i][1] : i \in 1 .. Len(rows) - n}
    <3> SUFFICES ASSUME NEW j \in n + 1 .. Len(rows)
                 PROVE  rows[j][1] \in {rows'[i][1] : i \in 1 .. Len(rows) - n}
      OBVIOUS
    <3>1. j - n \in 1 .. Len(rows) - n /\ rows'[j - n][1] = rows[j][1]
      BY <2>2, <2>3
    <3> QED BY <3>1
  <2> QED BY <1>4, <2>4, <2>5
<1> QED BY <1>5 DEF Covered, CoveredAfter

\* A batch commits: its rows are indexed, one after the other.
LEMMA BatchInv == IInv /\ RebuildBatch => IInv'
<1> SUFFICES ASSUME IInv, RebuildBatch PROVE IInv'
  OBVIOUS
<1> DEFINE n == Smaller(BatchSize, Len(rows))
<1>1. /\ RawInv /\ RowsInv /\ nextId \in Nat \ {0}
      /\ Len(rows) \in Nat /\ Len(rows) <= nextId - 1
  BY RawLog, LenProperties DEF IInv, RowsInv, CountInv
<1>2. n \in Nat /\ n <= Len(rows)
  BY <1>1, IndexAssumption DEF Smaller
<1>3. /\ rebuilder \in {"read", "later"} /\ rebuilder' = "later"
      /\ derived' = AfterRows(derived, n) /\ rows' = SubSeq(rows, n + 1, Len(rows))
      /\ exchanges' = exchanges /\ nextId' = nextId /\ snapshotOk' = snapshotOk
      /\ slipped' = slipped /\ overtaken' = overtaken
  BY DEF RebuildBatch
<1> HIDE DEF n
<1>4. Staged(derived', n)
  BY <1>2, <1>3, StagedAfter
<1>5. /\ rows' \in Seq((1 .. nextId - 1) \X Exchanges) /\ Len(rows') = Len(rows) - n
      /\ \A i \in 1 .. Len(rows') : rows'[i] = rows[n + i] /\ n + i \in 1 .. Len(rows)
  BY <1>1, <1>2, <1>3, RowsLeft
<1>6. /\ Waiting' = {rows[j][1] : j \in n + 1 .. Len(rows)} /\ Covered' = CoveredAfter(n)
  BY <1>1, <1>2, <1>3, CoveredLeft
<1>7. RawInv'
  BY <1>1, <1>3 DEF RawInv
<1>8. RowsInv'
  <2>1. \A i, j \in 1 .. Len(rows') : i < j => rows'[i][1] < rows'[j][1]
    <3>1. \A i, j \in 1 .. Len(rows') : i < j => n + i < n + j
      BY <1>2
    <3>2. \A i, j \in 1 .. Len(rows) : i < j => rows[i][1] < rows[j][1]
      BY <1>1 DEF RowsInv
    <3> QED BY <1>5, <3>1, <3>2
  <2>2. ASSUME ~slipped, NEW i \in 1 .. Len(rows')
        PROVE  rows'[i][1] \in DOMAIN exchanges /\ rows'[i][2] = exchanges[rows'[i][1]]
    BY <1>1, <1>5, <2>2 DEF RowsInv
  <2> QED BY <1>3, <1>5, <2>1, <2>2 DEF RowsInv
<1>9. CountInv'
  <2>1. 2 * (nextId - 1) - Len(rows') = 2 * (nextId - 1) - Len(rows) + n
    BY <1>1, <1>2, <1>5
  <2>2. Shaped(derived') /\ Within(derived', 2 * (nextId - 1) - Len(rows) + n)
    BY <1>4 DEF Staged
  <2>3. Within(derived', 2 * (nextId - 1) - Len(rows'))
    BY <2>1, <2>2, Zenon
  <2>4. Len(rows') <= nextId' - 1
    BY <1>1, <1>2, <1>3, <1>5
  <2> QED BY <1>3, <2>2, <2>3, <2>4 DEF CountInv
<1>10. AheadInv'
  <2> SUFFICES ASSUME ~slipped, ~overtaken, NEW id \in DOMAIN CoveredAfter(n), NEW w \in Waiting'
               PROVE  id < w
    BY <1>3, <1>6 DEF AheadInv
  <2>1. PICK j \in n + 1 .. Len(rows) : w = rows[j][1]
    BY <1>6
  <2>2. j - 1 \in Nat /\ j - 1 < Len(rows) /\ (j - 1) + 1 = j /\ n <= j - 1
    BY <1>1, <1>2
  <2>3. Later(rows[(j - 1) + 1][1], CoveredAfter(j - 1))
    <3>1. AheadInv /\ rebuilder # "wiped"
      BY <1>3 DEF IInv
    <3> QED BY <1>1, <2>2, <3>1, CoveredNext
  <2>4. id \in DOMAIN CoveredAfter(j - 1)
    <3>1. \A k \in (j - 1) + 1 .. Len(rows) : k \in n + 1 .. Len(rows)
      BY <1>1, <1>2, <2>2
    <3>2. {rows[k][1] : k \in (j - 1) + 1 .. Len(rows)} \subseteq {rows[k][1] : k \in n + 1 .. Len(rows)}
      BY <3>1
    <3> QED BY <3>2 DEF CoveredAfter, Without
  <2> QED BY <2>1, <2>2, <2>3, <2>4 DEF Later
<1>11. WipedInv'
  BY <1>3 DEF WipedInv
<1>12. CountsExact' /\ OrderExact' /\ ExampleExists'
  BY <1>3, <1>4, <1>6 DEF Staged, CountsExact, OrderExact, ExampleExists, Examples
<1> QED BY <1>7, <1>8, <1>9, <1>10, <1>11, <1>12 DEF IInv

\* A step of none of these.
LEMMA StaysInv == IInv /\ UNCHANGED vars => IInv'
<1> SUFFICES ASSUME IInv, UNCHANGED vars PROVE IInv'
  OBVIOUS
<1>1. /\ exchanges' = exchanges /\ nextId' = nextId /\ derived' = derived
      /\ rebuilder' = rebuilder /\ rows' = rows
      /\ snapshotOk' = snapshotOk /\ slipped' = slipped /\ overtaken' = overtaken
  BY DEF vars, rebuild
<1>2. Waiting' = Waiting /\ Covered' = Covered
  BY <1>1 DEF Waiting, Covered
<1>3. RawInv' /\ RowsInv' /\ CountInv' /\ WipedInv'
  BY <1>1 DEF IInv, RawInv, RowsInv, CountInv, WipedInv
<1>4. AheadInv' /\ CountsExact' /\ OrderExact' /\ ExampleExists'
  BY <1>1, <1>2 DEF IInv, AheadInv, CountsExact, OrderExact, ExampleExists
<1> QED BY <1>3, <1>4 DEF IInv

-----------------------------------------------------------------------------
(* What holds of every behaviour.                                          *)

\* Nothing the proxy or the command line commits breaks the invariant.
THEOREM Inductive == Spec => []IInv
<1>1. Init => IInv
  BY InitInv
<1>2. IInv /\ [Next]_vars => IInv'
  <2> SUFFICES ASSUME IInv, [Next]_vars PROVE IInv'
    OBVIOUS
  <2>1. CASE \E x \in Exchanges : Put(x)
    BY <2>1, PutInv
  <2>2. CASE \E key \in Keys : Delete(key)
    BY <2>2, DeleteInv
  <2>3. CASE ClearAll
    BY <2>3, ClearInv
  <2>4. CASE RebuildWipes
    BY <2>4, WipesInv
  <2>5. CASE RebuildReads
    BY <2>5, ReadsInv
  <2>6. CASE RebuildBatch
    BY <2>6, BatchInv
  <2>7. CASE RebuildEnds
    BY <2>7, EndsInv
  <2>8. CASE RebuildFails
    BY <2>8, FailsInv
  <2>9. CASE UNCHANGED vars
    BY <2>9, StaysInv
  <2> QED BY <2>1, <2>2, <2>3, <2>4, <2>5, <2>6, <2>7, <2>8, <2>9 DEF Next, Rebuild
<1> QED BY <1>1, <1>2, PTL DEF Spec

\* The tables hold rows of the shape the schema gives them, and no count is more than
\* twice the exchanges that were ever inserted.
THEOREM TypeCorrect == Spec => []TypeOK
<1>1. IInv => TypeOK
  <2> SUFFICES ASSUME IInv PROVE TypeOK
    OBVIOUS
  <2>1. RawInv /\ RowsInv /\ Shaped(derived) /\ nextId \in Nat \ {0} /\ MaxId \in Nat
    BY RawLog, IndexAssumption DEF IInv, CountInv
  <2>2. Len(rows) \in Nat
    BY <2>1, LenProperties DEF RowsInv
  <2>3. \A id \in DOMAIN exchanges : id \in 1..(nextId - 1) /\ exchanges[id] \in Exchanges
    BY <2>1 DEF RawInv
  <2>4. ASSUME NEW key \in DOMAIN derived.services
        PROVE  derived.services[key].count \in 1..(2 * MaxId)
    <3> DEFINE n == IF rebuilder = "wiped" THEN nextId - 1 ELSE 2 * (nextId - 1) - Len(rows)
    <3>1. n \in Int /\ n <= 2 * MaxId
      BY <2>1, <2>2 DEF RawInv
    <3>2. Within(derived, n)
      BY DEF IInv, CountInv
    <3> HIDE DEF n
    <3>3. derived.services[key].count \in Nat \ {0} /\ derived.services[key].count <= n
      BY <2>1, <3>2 DEF Shaped, Within
    <3> QED BY <2>1, <3>1, <3>3
  <2>5. \A e \in DOMAIN derived.endpoints : derived.endpoints[e].ok \in 0..derived.endpoints[e].count
    BY <2>1 DEF Shaped
  <2> QED BY <2>1, <2>3, <2>4, <2>5 DEF RawInv, RowsInv, TypeOK
<1> QED BY <1>1, Inductive, PTL

\* Counting one exchange at a time is counting them all, through deletions and at every
\* step of a rebuild that nobody crossed.
THEOREM CountsExactAlways == Spec => []CountsExact
<1>1. IInv => CountsExact
  BY DEF IInv
<1> QED BY <1>1, Inductive, PTL

\* The columns that remember an order are those of a recount when nothing overtook the rebuild.
THEOREM OrderExactAlways == Spec => []OrderExact
<1>1. IInv => OrderExact
  BY DEF IInv
<1> QED BY <1>1, Inductive, PTL

\* The example of an endpoint can be opened, a rebuild overtaken or not.
THEOREM ExampleExistsAlways == Spec => []ExampleExists
<1>1. IInv => ExampleExists
  BY DEF IInv
<1> QED BY <1>1, Inductive, PTL

\* "Rebuild derived/index tables from raw exchanges": a rebuild that ends, and that no
\* insertion before its read nor deletion after it crossed, leaves the counts of all
\* the exchanges, and all the columns when no exchange was inserted meanwhile either.
\* That without this condition it does not is what the run index_rebuild_races shows.
THEOREM UncrossedRebuildIsExact ==
    Spec => [][RebuildEnds /\ ~slipped =>
                  /\ Counts(derived') = Counts(Reference(exchanges'))
                  /\ ~overtaken => derived' = Reference(exchanges')]_vars
<1>1. ASSUME IInv, RebuildEnds, ~slipped
      PROVE  /\ Counts(derived') = Counts(Reference(exchanges'))
             /\ ~overtaken => derived' = Reference(exchanges')
  <2>1. exchanges' = exchanges /\ derived' = derived /\ rows = <<>> /\ rebuilder # "wiped"
    BY <1>1 DEF RebuildEnds
  <2>2. Covered = exchanges
    BY <1>1, <2>1, CoveredAll DEF IInv
  <2> QED BY <1>1, <2>1, <2>2 DEF IInv, CountsExact, OrderExact
<1> QED BY <1>1, Inductive, PTL DEF Spec
=============================================================================
