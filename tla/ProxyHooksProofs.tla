-------------------------- MODULE ProxyHooksProofs --------------------------
(***************************************************************************)
(* The hooks and the samples of a spec for any number of flows, hosts,     *)
(* endpoints and requests and any limits: types, that samples are answers  *)
(* browsers got, and that update() keeps the newest distinct samples of    *)
(* each endpoint within the limits.                                        *)
(*                                                                         *)
(* What Select() does to a list is proved first, by induction over lists:  *)
(* a set of lists that has the empty one and is closed under Append has    *)
(* them all.                                                               *)
(***************************************************************************)
EXTENDS ProxyHooks, SequenceTheorems, FiniteSetTheorems, WellFoundedInduction, TLAPS

-----------------------------------------------------------------------------
(* Induction.                                                              *)

\* A set of numbers with 0 and the successors of its members has all of them: the
\* least number that is not in it would be neither 0 nor a successor.
LEMMA NumberInduction ==
    ASSUME NEW S \in SUBSET Nat, 0 \in S, \A n \in S : n + 1 \in S
    PROVE  S = Nat
<1> SUFFICES ASSUME S # Nat PROVE FALSE
  OBVIOUS
<1> DEFINE T == Nat \ S
<1>1. T \subseteq Nat /\ T # {}
  OBVIOUS
<1>2. PICK x \in T : \A y \in T : ~(<<y, x>> \in OpToRel(<, Nat))
  BY <1>1, NatLessThanWellFounded, WFMin, Zenon
<1>3. x \in Nat /\ x - 1 \in Nat /\ x - 1 < x
  OBVIOUS
<1>4. x - 1 \in T
  OBVIOUS
<1>5. <<x - 1, x>> \in OpToRel(<, Nat)
  BY <1>3, Zenon DEF OpToRel
<1> QED BY <1>2, <1>4, <1>5

\* The same for lists and Append.
LEMMA ListInduction ==
    ASSUME NEW T, NEW P \in SUBSET Seq(T), <<>> \in P,
           \A s \in P : \A x \in T : Append(s, x) \in P
    PROVE  P = Seq(T)
<1> DEFINE N == {n \in Nat : \A s \in Seq(T) : Len(s) = n => s \in P}
<1>1. 0 \in N
  BY EmptySeq
<1>2. ASSUME NEW n \in N PROVE n + 1 \in N
  <2> SUFFICES ASSUME NEW s \in Seq(T), Len(s) = n + 1 PROVE s \in P
    OBVIOUS
  <2>1. s # <<>>
    BY EmptySeq
  <2>2. PICK t \in Seq(T) : \E x \in T : s = Append(t, x)
    BY <2>1, SequenceEmptyOrAppend
  <2>3. PICK x \in T : s = Append(t, x)
    BY <2>2
  <2>4. Len(t) = n
    BY <2>3, AppendProperties, LenProperties
  <2>5. t \in P
    BY <2>4
  <2> QED BY <2>3, <2>5
<1>3. N = Nat
  <2> HIDE DEF N
  <2>1. N \in SUBSET Nat
    BY DEF N
  <2> QED BY <1>1, <1>2, <2>1, NumberInduction
<1>4. ASSUME NEW s \in Seq(T) PROVE s \in P
  <2>1. Len(s) \in N
    BY <1>3, LenProperties
  <2> QED BY <2>1
<1> QED BY <1>4

-----------------------------------------------------------------------------
(* Select().                                                               *)

Matches(x, endpoint, own) == (x.endpoint = endpoint) = own

\* g is the function that Select() builds.
Selecting(g, list, endpoint, own) ==
    g = [n \in 0 .. Len(list) |->
           IF n = 0 THEN <<>>
           ELSE IF Matches(list[n], endpoint, own) THEN Append(g[n - 1], list[n])
           ELSE g[n - 1]]

\* There is such a function, and Select() is its last value.
LEMMA SelectDefined ==
    ASSUME NEW T, NEW list \in Seq(T), NEW e, NEW own
    PROVE  \E g : Selecting(g, list, e, own) /\ Select(list, e, own) = g[Len(list)]
<1> DEFINE Step(g, n) == IF Matches(list[n], e, own) THEN Append(g[n - 1], list[n]) ELSE g[n - 1]
           Upto(g, m) == g = [n \in 0 .. m |-> IF n = 0 THEN <<>> ELSE Step(g, n)]
           N == {m \in Nat : \E g : Upto(g, m)}
<1>1. 0 \in N
  <2>1. Upto([n \in 0 .. 0 |-> <<>>], 0)
    OBVIOUS
  <2> QED BY <2>1
<1>2. ASSUME NEW m \in N PROVE m + 1 \in N
  <2>1. PICK f : Upto(f, m)
    OBVIOUS
  <2> DEFINE h == [n \in 0 .. m + 1 |-> IF n \in 0 .. m THEN f[n] ELSE Step(f, n)]
  <2>2. \A n \in 0 .. m : h[n] = f[n]
    OBVIOUS
  <2>3. ASSUME NEW n \in 0 .. m + 1
        PROVE  h[n] = IF n = 0 THEN <<>> ELSE Step(h, n)
    <3>1. CASE n = 0
      BY <2>1, <3>1
    <3>2. CASE n \in 0 .. m /\ n # 0
      <4>1. h[n] = f[n] /\ h[n - 1] = f[n - 1]
        BY <3>2
      <4>2. f[n] = Step(f, n)
        BY <2>1, <3>2
      <4> QED BY <3>2, <4>1, <4>2
    <3>3. CASE n = m + 1
      <4>1. h[n] = Step(f, n) /\ h[n - 1] = f[n - 1]
        BY <3>3
      <4> QED BY <3>3, <4>1
    <3> QED BY <3>1, <3>2, <3>3
  <2>4. Upto(h, m + 1)
    <3> DEFINE k == [n \in 0 .. m + 1 |-> IF n = 0 THEN <<>> ELSE Step(h, n)]
    <3>1. DOMAIN h = DOMAIN k /\ \A n \in DOMAIN h : h[n] = k[n]
      BY <2>3
    <3> QED BY <3>1
  <2> QED BY <2>4
<1>3. N = Nat
  <2> HIDE DEF N
  <2>1. N \in SUBSET Nat
    BY DEF N
  <2> QED BY <1>1, <1>2, <2>1, NumberInduction
<1>4. PICK g : Selecting(g, list, e, own)
  <2>1. Len(list) \in N
    BY <1>3, LenProperties
  <2> QED BY <2>1 DEF Selecting
<1> DEFINE chosen == CHOOSE f : Selecting(f, list, e, own)
<1>5. Selecting(chosen, list, e, own)
  BY <1>4, Zenon
<1>6. Select(list, e, own) = chosen[Len(list)]
  BY Zenon DEF Select, Selecting, Matches
<1> QED BY <1>5, <1>6

\* Nothing is selected of nothing.
LEMMA SelectEmpty ==
    ASSUME NEW e, NEW own
    PROVE  Select(<<>>, e, own) = <<>>
<1>1. <<>> \in Seq({}) /\ Len(<<>>) = 0
  OBVIOUS
<1>2. PICK g : Selecting(g, <<>>, e, own) /\ Select(<<>>, e, own) = g[0]
  BY <1>1, SelectDefined
<1>3. g[0] = <<>>
  BY <1>1, <1>2 DEF Selecting
<1> QED BY <1>2, <1>3

\* An item more is selected if it matches.
LEMMA SelectAppend ==
    ASSUME NEW T, NEW s \in Seq(T), NEW x \in T, NEW e, NEW own
    PROVE  Select(Append(s, x), e, own) = IF Matches(x, e, own) THEN Append(Select(s, e, own), x)
                                          ELSE Select(s, e, own)
<1> DEFINE t == Append(s, x)
<1>1. /\ Len(s) \in Nat /\ t \in Seq(T) /\ Len(t) = Len(s) + 1
      /\ \A i \in 1 .. Len(s) : t[i] = s[i]
      /\ t[Len(s) + 1] = x
  BY AppendProperties, LenProperties
<1>2. PICK g : Selecting(g, s, e, own) /\ Select(s, e, own) = g[Len(s)]
  BY SelectDefined
<1>3. PICK h : Selecting(h, t, e, own) /\ Select(t, e, own) = h[Len(t)]
  BY <1>1, SelectDefined
<1> HIDE DEF t
<1>4. \A n \in 0 .. Len(s) :
         g[n] = IF n = 0 THEN <<>> ELSE IF Matches(s[n], e, own) THEN Append(g[n - 1], s[n]) ELSE g[n - 1]
  BY <1>2 DEF Selecting
<1>5. \A n \in 0 .. Len(s) + 1 :
         h[n] = IF n = 0 THEN <<>> ELSE IF Matches(t[n], e, own) THEN Append(h[n - 1], t[n]) ELSE h[n - 1]
  BY <1>1, <1>3 DEF Selecting
<1> DEFINE N == {n \in Nat : n <= Len(s) => g[n] = h[n]}
<1>6. 0 \in N
  BY <1>1, <1>4, <1>5
<1>7. ASSUME NEW n \in N PROVE n + 1 \in N
  <2> SUFFICES ASSUME n + 1 <= Len(s) PROVE g[n + 1] = h[n + 1]
    OBVIOUS
  <2>1. n \in Nat /\ n + 1 \in 1 .. Len(s) /\ n + 1 # 0 /\ (n + 1) - 1 = n /\ g[n] = h[n]
    BY <1>1
  <2>2. t[n + 1] = s[n + 1]
    BY <1>1, <2>1
  <2>3. g[n + 1] = IF Matches(s[n + 1], e, own) THEN Append(g[n], s[n + 1]) ELSE g[n]
    BY <1>1, <1>4, <2>1
  <2>4. h[n + 1] = IF Matches(t[n + 1], e, own) THEN Append(h[n], t[n + 1]) ELSE h[n]
    BY <1>1, <1>5, <2>1
  <2> QED BY <2>1, <2>2, <2>3, <2>4
<1>8. N = Nat
  <2> HIDE DEF N
  <2>1. N \in SUBSET Nat
    BY DEF N
  <2> QED BY <1>6, <1>7, <2>1, NumberInduction
<1>9. g[Len(s)] = h[Len(s)]
  BY <1>1, <1>8
<1>10. h[Len(t)] = IF Matches(x, e, own) THEN Append(h[Len(s)], x) ELSE h[Len(s)]
  <2>1. Len(t) \in 0 .. Len(s) + 1 /\ Len(t) # 0 /\ Len(t) - 1 = Len(s) /\ t[Len(t)] = x
    BY <1>1
  <2> QED BY <1>5, <2>1
<1> QED BY <1>2, <1>3, <1>9, <1>10 DEF t

\* What is selected is a list of items of the list that match.
LEMMA SelectType ==
    ASSUME NEW T, NEW list \in Seq(T), NEW e, NEW own
    PROVE  /\ Select(list, e, own) \in Seq(T)
           /\ \A i \in 1 .. Len(Select(list, e, own)) :
                 /\ Matches(Select(list, e, own)[i], e, own)
                 /\ \E j \in 1 .. Len(list) : Select(list, e, own)[i] = list[j]
<1> DEFINE Good(s) == LET t == Select(s, e, own)
                      IN /\ t \in Seq(T)
                         /\ \A i \in 1 .. Len(t) : /\ Matches(t[i], e, own)
                                                   /\ \E j \in 1 .. Len(s) : t[i] = s[j]
           P == {s \in Seq(T) : Good(s)}
<1>1. <<>> \in P
  <2>1. <<>> \in Seq(T) /\ Len(<<>>) = 0
    OBVIOUS
  <2>2. Select(<<>>, e, own) = <<>>
    BY SelectEmpty
  <2>3. Good(<<>>)
    <3> DEFINE t == Select(<<>>, e, own)
    <3>1. t = <<>>
      BY <2>2
    <3> HIDE DEF t
    <3>2. t \in Seq(T) /\ Len(t) = 0
      BY <2>1, <3>1
    <3>3. \A i \in 1 .. Len(t) : FALSE
      BY <3>2
    <3> QED BY <3>2, <3>3 DEF t
  <2> QED BY <2>1, <2>3
<1>2. ASSUME NEW s \in P, NEW x \in T PROVE Append(s, x) \in P
  <2> DEFINE t == Select(s, e, own)
             u == Append(s, x)
             v == Select(u, e, own)
  <2>1. s \in Seq(T) /\ t \in Seq(T) /\ Len(s) \in Nat /\ Len(t) \in Nat
    BY LenProperties
  <2>2. u \in Seq(T) /\ Len(u) = Len(s) + 1 /\ (\A j \in 1 .. Len(s) : u[j] = s[j]) /\ u[Len(s) + 1] = x
    BY <2>1, AppendProperties
  <2>3. v = IF Matches(x, e, own) THEN Append(t, x) ELSE t
    BY <2>1, SelectAppend
  <2>4. \A i \in 1 .. Len(t) : Matches(t[i], e, own) /\ \E j \in 1 .. Len(s) : t[i] = s[j]
    OBVIOUS
  <2> HIDE DEF t, u, v, P
  <2>5. \A i \in 1 .. Len(t) : \E j \in 1 .. Len(u) : t[i] = u[j]
    BY <2>1, <2>2, <2>4
  <2>6. Good(u)
    <3>1. CASE ~Matches(x, e, own)
      BY <2>1, <2>3, <2>4, <2>5, <3>1 DEF v
    <3>2. CASE Matches(x, e, own)
      <4>1. /\ v = Append(t, x) /\ v \in Seq(T) /\ Len(v) = Len(t) + 1
            /\ (\A i \in 1 .. Len(t) : v[i] = t[i]) /\ v[Len(t) + 1] = x
        BY <2>1, <2>3, <3>2, AppendProperties
      <4>2. ASSUME NEW i \in 1 .. Len(v)
            PROVE  Matches(v[i], e, own) /\ \E j \in 1 .. Len(u) : v[i] = u[j]
        <5>1. CASE i \in 1 .. Len(t)
          BY <2>4, <2>5, <4>1, <5>1
        <5>2. CASE i = Len(t) + 1
          BY <2>1, <2>2, <3>2, <4>1, <5>2, SMTT(30)
        <5> QED BY <2>1, <4>1, <5>1, <5>2
      <4> QED BY <4>1, <4>2 DEF v
    <3> QED BY <3>1, <3>2
  <2> QED BY <2>2, <2>6 DEF P, u
<1>3. P = Seq(T)
  <2> HIDE DEF P
  <2>1. P \in SUBSET Seq(T)
    BY DEF P
  <2> QED BY <1>1, <1>2, <2>1, ListInduction
<1> QED BY <1>3

\* Selecting of two lists one after the other.
LEMMA SelectConcat ==
    ASSUME NEW T, NEW s \in Seq(T), NEW t \in Seq(T), NEW e, NEW own
    PROVE  Select(s \o t, e, own) = Select(s, e, own) \o Select(t, e, own)
<1> DEFINE Good(u) == Select(s \o u, e, own) = Select(s, e, own) \o Select(u, e, own)
           P == {u \in Seq(T) : Good(u)}
<1>1. <<>> \in P
  <2>1. <<>> \in Seq(T) /\ Select(s, e, own) \in Seq(T)
    BY SelectType
  <2>2. s \o <<>> = s /\ Select(s, e, own) \o <<>> = Select(s, e, own)
    BY <2>1, ConcatEmptySeq
  <2>3. Good(<<>>)
    BY <2>2, SelectEmpty
  <2> QED BY <2>1, <2>3
<1>2. ASSUME NEW u \in P, NEW x \in T PROVE Append(u, x) \in P
  <2> DEFINE a == Select(s, e, own)
             b == Select(u, e, own)
  <2>1. u \in Seq(T) /\ Append(u, x) \in Seq(T) /\ a \in Seq(T) /\ b \in Seq(T) /\ <<x>> \in Seq(T)
    BY SelectType, AppendProperties
  <2>2. s \o u \in Seq(T) /\ a \o b \in Seq(T)
    BY <2>1, ConcatProperties
  <2>3. s \o Append(u, x) = Append(s \o u, x) /\ a \o Append(b, x) = Append(a \o b, x)
    <3> HIDE DEF a, b, P
    <3>1. \A v \in Seq(T) : Append(v, x) = v \o <<x>>
      BY AppendIsConcat
    <3>2. (s \o u) \o <<x>> = s \o (u \o <<x>>) /\ (a \o b) \o <<x>> = a \o (b \o <<x>>)
      <4>1. \A f, g, h \in Seq(T) : (f \o g) \o h = f \o (g \o h)
        BY ConcatAssociative
      <4>2. (s \o u) \o <<x>> = s \o (u \o <<x>>)
        BY <2>1, <4>1, ZenonT(40)
      <4>3. (a \o b) \o <<x>> = a \o (b \o <<x>>)
        BY <2>1, <4>1, ZenonT(40)
      <4> QED BY <4>2, <4>3
    <3> QED BY <2>1, <2>2, <3>1, <3>2
  <2>4. Select(Append(s \o u, x), e, own) =
            IF Matches(x, e, own) THEN Append(Select(s \o u, e, own), x) ELSE Select(s \o u, e, own)
    <3>1. \A w \in Seq(T) : Select(Append(w, x), e, own) =
                IF Matches(x, e, own) THEN Append(Select(w, e, own), x) ELSE Select(w, e, own)
      BY SelectAppend
    <3> QED BY <2>2, <3>1, Zenon
  <2>5. Select(Append(u, x), e, own) = IF Matches(x, e, own) THEN Append(b, x) ELSE b
    BY <2>1, SelectAppend
  <2>6. Select(s \o u, e, own) = a \o b
    OBVIOUS
  <2>7. Good(Append(u, x))
    <3> HIDE DEF a, b, P
    <3> QED BY <2>3, <2>4, <2>5, <2>6 DEF a
  <2> QED BY <2>1, <2>7
<1>3. P = Seq(T)
  <2> HIDE DEF P
  <2>1. P \in SUBSET Seq(T)
    BY DEF P
  <2> QED BY <1>1, <1>2, <2>1, ListInduction
<1> QED BY <1>3

\* If all items match they are selected, and none if none does.
LEMMA SelectAll ==
    ASSUME NEW T, NEW list \in Seq(T), NEW e, NEW own,
           \A i \in 1 .. Len(list) : Matches(list[i], e, own)
    PROVE  Select(list, e, own) = list
<1> DEFINE Good(s) == (\A i \in 1 .. Len(s) : Matches(s[i], e, own)) => Select(s, e, own) = s
           P == {s \in Seq(T) : Good(s)}
<1>1. <<>> \in P
  <2>1. <<>> \in Seq(T) /\ Good(<<>>)
    BY SelectEmpty
  <2> QED BY <2>1
<1>2. ASSUME NEW s \in P, NEW x \in T PROVE Append(s, x) \in P
  <2> DEFINE u == Append(s, x)
  <2>1. s \in Seq(T) /\ Len(s) \in Nat /\ u \in Seq(T) /\ Len(u) = Len(s) + 1
        /\ (\A i \in 1 .. Len(s) : u[i] = s[i]) /\ u[Len(s) + 1] = x
    BY AppendProperties, LenProperties
  <2>2. Select(u, e, own) = IF Matches(x, e, own) THEN Append(Select(s, e, own), x) ELSE Select(s, e, own)
    BY <2>1, SelectAppend
  <2>3. ASSUME \A i \in 1 .. Len(u) : Matches(u[i], e, own) PROVE Select(u, e, own) = u
    <3> HIDE DEF u
    <3>1. Matches(x, e, own) /\ \A i \in 1 .. Len(s) : Matches(s[i], e, own)
      BY <2>1, <2>3
    <3> QED BY <2>2, <3>1 DEF u
  <2> QED BY <2>1, <2>3
<1>3. P = Seq(T)
  <2> HIDE DEF P
  <2>1. P \in SUBSET Seq(T)
    BY DEF P
  <2> QED BY <1>1, <1>2, <2>1, ListInduction
<1> QED BY <1>3

\* Nothing is selected when nothing passes.
LEMMA SelectNone ==
    ASSUME NEW T, NEW list \in Seq(T), NEW e, NEW own,
           \A i \in 1 .. Len(list) : ~Matches(list[i], e, own)
    PROVE  Select(list, e, own) = <<>>
<1> DEFINE s == Select(list, e, own)
<1>1. s \in Seq(T) /\ \A i \in 1 .. Len(s) : Matches(s[i], e, own) /\ \E j \in 1 .. Len(list) : s[i] = list[j]
  BY SelectType
<1>2. Len(s) \in Nat
  BY <1>1, LenProperties
<1> HIDE DEF s
<1>3. ~(1 \in 1 .. Len(s))
  BY <1>1
<1>4. s = <<>>
  BY <1>1, <1>2, <1>3, EmptySeq
<1> QED BY <1>4 DEF s

\* Leaving out the items of e leaves those of x.
LEMMA SelectOfOthers ==
    ASSUME NEW T, NEW list \in Seq(T), NEW e, NEW x, x # e
    PROVE  Select(Select(list, e, FALSE), x, TRUE) = Select(list, x, TRUE)
<1> DEFINE Good(s) == Select(Select(s, e, FALSE), x, TRUE) = Select(s, x, TRUE)
           P == {s \in Seq(T) : Good(s)}
<1>1. <<>> \in P
  <2>1. \A y, own : Select(<<>>, y, own) = <<>>
    BY SelectEmpty
  <2>2. Good(<<>>)
    BY <2>1, Zenon
  <2>3. <<>> \in Seq(T)
    OBVIOUS
  <2> QED BY <2>2, <2>3
<1>2. ASSUME NEW s \in P, NEW y \in T PROVE Append(s, y) \in P
  <2> DEFINE a == Select(s, e, FALSE)
  <2>1. s \in Seq(T) /\ Append(s, y) \in Seq(T) /\ a \in Seq(T)
    BY SelectType, AppendProperties
  <2>0. \A w \in Seq(T) : \A z, own :
            Select(Append(w, y), z, own) = IF Matches(y, z, own) THEN Append(Select(w, z, own), y)
                                           ELSE Select(w, z, own)
    BY SelectAppend
  <2>2. Select(Append(s, y), e, FALSE) = IF Matches(y, e, FALSE) THEN Append(a, y) ELSE a
    BY <2>0, <2>1, ZenonT(40)
  <2>3. Select(Append(s, y), x, TRUE) = IF Matches(y, x, TRUE) THEN Append(Select(s, x, TRUE), y)
                                        ELSE Select(s, x, TRUE)
    BY <2>0, <2>1, ZenonT(40)
  <2>4. Select(Append(a, y), x, TRUE) = IF Matches(y, x, TRUE) THEN Append(Select(a, x, TRUE), y)
                                        ELSE Select(a, x, TRUE)
    BY <2>0, <2>1, ZenonT(40)
  <2>5. Select(a, x, TRUE) = Select(s, x, TRUE)
    OBVIOUS
  <2>6. Matches(y, x, TRUE) => Matches(y, e, FALSE)
    BY DEF Matches
  <2>7. Good(Append(s, y))
    <3> HIDE DEF a, P
    <3> QED BY <2>2, <2>3, <2>4, <2>5, <2>6
  <2> QED BY <2>1, <2>7
<1>3. P = Seq(T)
  <2> HIDE DEF P
  <2>1. P \in SUBSET Seq(T)
    BY DEF P
  <2> QED BY <1>1, <1>2, <2>1, ListInduction
<1> QED BY <1>3

-----------------------------------------------------------------------------
(* The ends of lists.                                                      *)

\* A list is the end of any list with it at the end,
LEMMA SuffixOfConcat ==
    ASSUME NEW T, NEW u \in Seq(T), NEW s \in Seq(T)
    PROVE  IsSuffix(s, u \o s)
<1> DEFINE t == u \o s
           v == SubSeq(t, Len(t) - Len(s) + 1, Len(t))
<1>1. Len(s) \in Nat /\ Len(u) \in Nat
  BY LenProperties
<1>2. /\ t \in Seq(T) /\ Len(t) = Len(u) + Len(s)
      /\ \A i \in 1 .. Len(u) + Len(s) : t[i] = IF i <= Len(u) THEN u[i] ELSE s[i - Len(u)]
  BY ConcatProperties
<1> HIDE DEF t
<1>3. \A i \in Len(u) + 1 .. Len(t) : t[i] \in T
  BY <1>1, <1>2, ElementOfSeq
<1>4. v = SubSeq(t, Len(u) + 1, Len(t))
  BY <1>1, <1>2
<1>5. v \in Seq(T) /\ Len(v) = Len(s) /\ \A i \in 1 .. Len(s) : v[i] = t[Len(u) + i]
  <2> DEFINE m == Len(u) + 1
             n == Len(t)
  <2>1. m \in Int /\ n \in Int /\ (\A i \in m .. n : t[i] \in T)
    BY <1>1, <1>2, <1>3
  <2>2. n - m + 1 = Len(s) /\ (IF m <= n THEN n - m + 1 ELSE 0) = Len(s)
    BY <1>1, <1>2
  <2>3. /\ SubSeq(t, m, n) \in Seq(T)
        /\ Len(SubSeq(t, m, n)) = IF m <= n THEN n - m + 1 ELSE 0
        /\ \A i \in 1 .. n - m + 1 : SubSeq(t, m, n)[i] = t[m + i - 1]
    <3> HIDE DEF m, n
    <3> QED BY <2>1, SubSeqProperties
  <2>4. v = SubSeq(t, m, n)
    BY <1>4
  <2>5. \A i \in 1 .. Len(s) : m + i - 1 = Len(u) + i
    BY <1>1
  <2> HIDE DEF m, n, v
  <2> QED BY <2>2, <2>3, <2>4, <2>5
<1> HIDE DEF v
<1>6. ASSUME NEW i \in 1 .. Len(s) PROVE v[i] = s[i]
  <2>1. Len(u) + i \in 1 .. Len(u) + Len(s) /\ ~(Len(u) + i <= Len(u)) /\ (Len(u) + i) - Len(u) = i
    BY <1>1
  <2>2. t[Len(u) + i] = s[i]
    BY <1>2, <2>1
  <2> QED BY <1>5, <2>2
<1>7. v = s
  BY <1>5, <1>6, SeqEqual
<1> QED BY <1>1, <1>2, <1>7 DEF IsSuffix, t, v

\* and of no other.
LEMMA SuffixSplits ==
    ASSUME NEW T, NEW s \in Seq(T), NEW t \in Seq(T), IsSuffix(s, t)
    PROVE  \E u \in Seq(T) : t = u \o s
<1> DEFINE k == Len(t) - Len(s)
           u == SubSeq(t, 1, k)
<1>1. Len(s) \in Nat /\ Len(t) \in Nat /\ Len(s) <= Len(t)
  BY LenProperties DEF IsSuffix
<1>2. k \in 0 .. Len(t) /\ 1 \in 1 .. Len(t) + 1 /\ Len(t) \in k .. Len(t) /\ k \in 1 - 1 .. Len(t)
  BY <1>1
<1>3. s = SubSeq(t, k + 1, Len(t))
  BY DEF IsSuffix
<1>4. \A i \in 1 .. k : t[i] \in T
  BY <1>2, ElementOfSeq
<1>5. u \in Seq(T)
  <2> HIDE DEF k
  <2> QED BY <1>2, <1>4, SubSeqProperties
<1>6. u \o s = SubSeq(t, 1, Len(t))
  <2> HIDE DEF k
  <2> QED BY <1>2, <1>3, ConcatAdjacentSubSeq
<1>7. u \o s = t
  BY <1>6, SubSeqFull
<1> QED BY <1>5, <1>7

\* The end of an end is an end.
LEMMA SuffixTransitive ==
    ASSUME NEW T, NEW s \in Seq(T), NEW t \in Seq(T), NEW w \in Seq(T),
           IsSuffix(s, t), IsSuffix(t, w)
    PROVE  IsSuffix(s, w)
<1>1. PICK u \in Seq(T) : t = u \o s
  BY SuffixSplits
<1>2. PICK v \in Seq(T) : w = v \o t
  BY SuffixSplits
<1>3. w = (v \o u) \o s /\ v \o u \in Seq(T)
  BY <1>1, <1>2, ConcatAssociative, ConcatProperties
<1> QED BY <1>3, SuffixOfConcat

\* Ends stay ends with the same item behind both.
LEMMA SuffixAppend ==
    ASSUME NEW T, NEW s \in Seq(T), NEW t \in Seq(T), NEW x \in T, IsSuffix(s, t)
    PROVE  IsSuffix(Append(s, x), Append(t, x))
<1>1. PICK u \in Seq(T) : t = u \o s
  BY SuffixSplits
<1>2. <<x>> \in Seq(T) /\ s \o <<x>> = Append(s, x) /\ t \o <<x>> = Append(t, x)
  BY AppendIsConcat
<1>3. Append(t, x) = u \o Append(s, x)
  BY <1>1, <1>2, ConcatAssociative
<1>4. Append(s, x) \in Seq(T)
  BY AppendProperties
<1> QED BY <1>3, <1>4, SuffixOfConcat

\* What is selected of a suffix is a suffix of what is selected.
LEMMA SuffixSelect ==
    ASSUME NEW T, NEW s \in Seq(T), NEW t \in Seq(T), NEW e, NEW own, IsSuffix(s, t)
    PROVE  IsSuffix(Select(s, e, own), Select(t, e, own))
<1>1. PICK u \in Seq(T) : t = u \o s
  BY SuffixSplits
<1>2. Select(t, e, own) = Select(u, e, own) \o Select(s, e, own)
  BY <1>1, SelectConcat
<1>3. Select(u, e, own) \in Seq(T) /\ Select(s, e, own) \in Seq(T)
  BY SelectType
<1> HIDE DEF Select
<1> QED BY <1>2, <1>3, SuffixOfConcat

\* The slice list[-n:] is a suffix, of n items at most if n is not 0.
LEMMA LastOfIsSuffix ==
    ASSUME NEW T, NEW list \in Seq(T), NEW n \in Nat
    PROVE  /\ LastOf(list, n) \in Seq(T)
           /\ IsSuffix(LastOf(list, n), list)
           /\ Len(LastOf(list, n)) = IF n = 0 \/ n >= Len(list) THEN Len(list) ELSE n
<1>1. Len(list) \in Nat
  BY LenProperties
<1>2. CASE n = 0 \/ n >= Len(list)
  <2>1. LastOf(list, n) = list
    BY <1>2 DEF LastOf
  <2>2. list = SubSeq(list, Len(list) - Len(list) + 1, Len(list))
    <3>1. Len(list) - Len(list) + 1 = 1
      BY <1>1
    <3> QED BY <3>1, SubSeqFull
  <2>3. IsSuffix(list, list)
    BY <1>1, <2>2 DEF IsSuffix
  <2> QED BY <1>2, <2>1, <2>3
<1>3. CASE ~(n = 0 \/ n >= Len(list))
  <2> DEFINE m == Len(list) - n + 1
             k == Len(list)
             l == LastOf(list, n)
  <2>1. l = SubSeq(list, m, k)
    BY <1>3 DEF LastOf
  <2>2. m \in Int /\ k \in Int /\ m \in 1 .. k /\ k - m + 1 = n /\ m <= k /\ n \in Nat /\ n <= k
    BY <1>1, <1>3
  <2>3. \A i \in m .. k : list[i] \in T
    BY <2>2, ElementOfSeq
  <2>4. l \in Seq(T) /\ Len(l) = n
    <3> HIDE DEF m, k, l
    <3> QED BY <2>1, <2>2, <2>3, SubSeqProperties
  <2>5. l = SubSeq(list, Len(list) - Len(l) + 1, Len(list))
    BY <2>1, <2>4
  <2>6. IsSuffix(l, list)
    <3> HIDE DEF l
    <3> QED BY <2>2, <2>4, <2>5 DEF IsSuffix, k
  <2> QED BY <1>3, <2>4, <2>6
<1> QED BY <1>2, <1>3

\* A list with another behind it ends as that one does.
LEMMA LastOfKeepsLast ==
    ASSUME NEW T, NEW s \in Seq(T), NEW t \in Seq(T), IsSuffix(s, t), s # <<>>
    PROVE  s[Len(s)] = t[Len(t)]
<1>1. PICK u \in Seq(T) : t = u \o s
  BY SuffixSplits
<1>2. Len(s) \in Nat \ {0} /\ Len(u) \in Nat
  BY EmptySeq, LenProperties
<1>3. /\ Len(t) = Len(u) + Len(s)
      /\ \A i \in 1 .. Len(u) + Len(s) : t[i] = IF i <= Len(u) THEN u[i] ELSE s[i - Len(u)]
  BY <1>1, ConcatProperties
<1> QED BY <1>2, <1>3

-----------------------------------------------------------------------------
(* Distinct samples.                                                       *)

Differ(x, y) == x.endpoint # y.endpoint \/ x.body # y.body
Absent(x, list) == \A i \in 1 .. Len(list) : Differ(x, list[i])

\* A list stays distinct with one item more if the item is new.
LEMMA DistinctAppend ==
    ASSUME NEW T, NEW s \in Seq(T), NEW x \in T
    PROVE  Distinct(Append(s, x)) <=> Distinct(s) /\ Absent(x, s)
<1> DEFINE t == Append(s, x)
<1>1. Len(s) \in Nat /\ DOMAIN s = 1 .. Len(s)
  BY LenProperties
<1>2. /\ t \in Seq(T) /\ Len(t) = Len(s) + 1
      /\ (\A i \in 1 .. Len(s) : t[i] = s[i]) /\ t[Len(s) + 1] = x
  BY AppendProperties
<1>3. DOMAIN t = 1 .. Len(s) + 1
  BY <1>2, LenProperties
<1> HIDE DEF t
<1>4. ASSUME Distinct(t) PROVE Distinct(s) /\ Absent(x, s)
  <2>1. \A i, j \in 1 .. Len(s) + 1 : i # j => t[i].endpoint # t[j].endpoint \/ t[i].body # t[j].body
    BY <1>3, <1>4 DEF Distinct
  <2>2. ASSUME NEW i \in 1 .. Len(s), NEW j \in 1 .. Len(s), i # j
        PROVE  s[i].endpoint # s[j].endpoint \/ s[i].body # s[j].body
    BY <1>1, <1>2, <2>1, <2>2
  <2>3. ASSUME NEW i \in 1 .. Len(s) PROVE Differ(x, s[i])
    <3>1. i # Len(s) + 1 /\ i \in 1 .. Len(s) + 1 /\ Len(s) + 1 \in 1 .. Len(s) + 1
      BY <1>1
    <3> QED BY <1>2, <2>1, <3>1 DEF Differ
  <2> QED BY <1>1, <2>2, <2>3 DEF Distinct, Absent
<1>5. ASSUME Distinct(s), Absent(x, s) PROVE Distinct(t)
  <2>1. \A i, j \in 1 .. Len(s) : i # j => s[i].endpoint # s[j].endpoint \/ s[i].body # s[j].body
    BY <1>1, <1>5 DEF Distinct
  <2>2. \A i \in 1 .. Len(s) : x.endpoint # s[i].endpoint \/ x.body # s[i].body
    BY <1>5 DEF Absent, Differ
  <2>3. ASSUME NEW i \in 1 .. Len(s) + 1, NEW j \in 1 .. Len(s) + 1, i # j
        PROVE  t[i].endpoint # t[j].endpoint \/ t[i].body # t[j].body
    <3>1. CASE i \in 1 .. Len(s) /\ j \in 1 .. Len(s)
      BY <1>2, <2>1, <2>3, <3>1
    <3>2. CASE i \in 1 .. Len(s) /\ j = Len(s) + 1
      BY <1>2, <2>2, <3>2
    <3>3. CASE i = Len(s) + 1 /\ j \in 1 .. Len(s)
      BY <1>2, <2>2, <3>3
    <3> QED BY <1>1, <2>3, <3>1, <3>2, <3>3
  <2> QED BY <1>3, <2>3 DEF Distinct
<1> QED BY <1>4, <1>5 DEF t

\* Two lists make a distinct one if each is and they share no item.
LEMMA DistinctConcat ==
    ASSUME NEW T, NEW s \in Seq(T), NEW t \in Seq(T)
    PROVE  Distinct(s \o t) <=> /\ Distinct(s) /\ Distinct(t)
                                /\ \A i \in 1 .. Len(s) : Absent(s[i], t)
<1> DEFINE u == s \o t
<1>1. Len(s) \in Nat /\ Len(t) \in Nat /\ DOMAIN s = 1 .. Len(s) /\ DOMAIN t = 1 .. Len(t)
  BY LenProperties
<1>2. /\ u \in Seq(T) /\ Len(u) = Len(s) + Len(t)
      /\ \A i \in 1 .. Len(s) + Len(t) : u[i] = IF i <= Len(s) THEN s[i] ELSE t[i - Len(s)]
  BY ConcatProperties
<1>3. DOMAIN u = 1 .. Len(s) + Len(t)
  BY <1>2, LenProperties
<1> HIDE DEF u
<1>4. \A i \in 1 .. Len(s) : i \in 1 .. Len(s) + Len(t) /\ u[i] = s[i]
  BY <1>1, <1>2
<1>5. ASSUME NEW i \in 1 .. Len(t)
      PROVE  Len(s) + i \in 1 .. Len(s) + Len(t) /\ u[Len(s) + i] = t[i]
  <2>1. Len(s) + i \in 1 .. Len(s) + Len(t) /\ ~(Len(s) + i <= Len(s)) /\ (Len(s) + i) - Len(s) = i
    BY <1>1
  <2> QED BY <1>2, <2>1
<1>6. ASSUME Distinct(u)
      PROVE  Distinct(s) /\ Distinct(t) /\ \A i \in 1 .. Len(s) : Absent(s[i], t)
  <2>1. \A i, j \in 1 .. Len(s) + Len(t) : i # j => Differ(u[i], u[j])
    BY <1>3, <1>6 DEF Distinct, Differ
  <2>2. ASSUME NEW i \in 1 .. Len(s), NEW j \in 1 .. Len(s), i # j PROVE Differ(s[i], s[j])
    BY <1>4, <2>1, <2>2
  <2>3. ASSUME NEW i \in 1 .. Len(t), NEW j \in 1 .. Len(t), i # j PROVE Differ(t[i], t[j])
    <3>1. Len(s) + i # Len(s) + j
      BY <1>1, <2>3
    <3> QED BY <1>5, <2>1, <3>1
  <2>4. ASSUME NEW i \in 1 .. Len(s), NEW j \in 1 .. Len(t) PROVE Differ(s[i], t[j])
    <3>1. i # Len(s) + j
      BY <1>1
    <3> QED BY <1>4, <1>5, <2>1, <3>1
  <2> QED BY <1>1, <2>2, <2>3, <2>4 DEF Distinct, Absent, Differ
<1>7. ASSUME Distinct(s), Distinct(t), \A i \in 1 .. Len(s) : Absent(s[i], t)
      PROVE  Distinct(u)
  <2>1. \A i, j \in 1 .. Len(s) : i # j => Differ(s[i], s[j])
    BY <1>1, <1>7 DEF Distinct, Differ
  <2>2. \A i, j \in 1 .. Len(t) : i # j => Differ(t[i], t[j])
    BY <1>1, <1>7 DEF Distinct, Differ
  <2>3. \A i \in 1 .. Len(s), j \in 1 .. Len(t) : Differ(s[i], t[j]) /\ Differ(t[j], s[i])
    BY <1>7 DEF Absent, Differ
  <2>4. ASSUME NEW i \in 1 .. Len(s) + Len(t), NEW j \in 1 .. Len(s) + Len(t), i # j
        PROVE  Differ(u[i], u[j])
    <3> DEFINE k == i - Len(s)
               l == j - Len(s)
    <3>1. i \in 1 .. Len(s) \/ (k \in 1 .. Len(t) /\ u[i] = t[k])
      BY <1>1, <1>2
    <3>2. j \in 1 .. Len(s) \/ (l \in 1 .. Len(t) /\ u[j] = t[l])
      BY <1>1, <1>2
    <3>3. k # l
      BY <1>1, <2>4
    <3> HIDE DEF k, l
    <3> QED BY <1>4, <2>1, <2>2, <2>3, <2>4, <3>1, <3>2, <3>3
  <2> QED BY <1>3, <2>4 DEF Distinct, Differ
<1> QED BY <1>6, <1>7 DEF u

\* Part of a list of distinct samples has distinct samples.
LEMMA DistinctParts ==
    ASSUME NEW T, NEW list \in Seq(T), Distinct(list)
    PROVE  /\ \A s \in Seq(T) : IsSuffix(s, list) => Distinct(s)
           /\ \A e, own : Distinct(Select(list, e, own))
<1>1. ASSUME NEW s \in Seq(T), IsSuffix(s, list) PROVE Distinct(s)
  <2>1. PICK u \in Seq(T) : list = u \o s
    BY <1>1, SuffixSplits
  <2> QED BY <2>1, DistinctConcat
<1>2. ASSUME NEW e, NEW own PROVE Distinct(Select(list, e, own))
  <2> DEFINE Good(s) == Distinct(s) => Distinct(Select(s, e, own))
             P == {s \in Seq(T) : Good(s)}
  <2>1. <<>> \in P
    <3>1. Good(<<>>)
      BY SelectEmpty
    <3> QED BY <3>1
  <2>2. ASSUME NEW s \in P, NEW x \in T PROVE Append(s, x) \in P
    <3> DEFINE a == Select(s, e, own)
    <3>1. s \in Seq(T) /\ a \in Seq(T) /\ Append(s, x) \in Seq(T)
      BY SelectType, AppendProperties
    <3>2. Select(Append(s, x), e, own) = IF Matches(x, e, own) THEN Append(a, x) ELSE a
      BY <3>1, SelectAppend
    <3>3. ASSUME Distinct(Append(s, x)) PROVE Distinct(Select(Append(s, x), e, own))
      <4>1. Distinct(s) /\ Absent(x, s)
        BY <3>1, <3>3, DistinctAppend
      <4>2. Distinct(a)
        BY <4>1
      <4>3. \A i \in 1 .. Len(a) : \E j \in 1 .. Len(s) : a[i] = s[j]
        BY <3>1, SelectType
      <4> HIDE DEF a, P
      <4>4. Absent(x, a)
        BY <4>1, <4>3 DEF Absent
      <4>5. Distinct(Append(a, x))
        BY <3>1, <4>2, <4>4, DistinctAppend
      <4> QED BY <3>2, <4>2, <4>5
    <3> QED BY <3>1, <3>3
  <2>3. P = Seq(T)
    <3> HIDE DEF P
    <3>1. P \in SUBSET Seq(T)
      BY DEF P
    <3> QED BY <2>1, <2>2, <3>1, ListInduction
  <2> QED BY <2>3
<1> QED BY <1>1, <1>2

-----------------------------------------------------------------------------
(* Numbers of samples, and samples without their times.                    *)

\* The samples of an endpoint are as many as Select() finds.
LEMMA CountIsLength ==
    ASSUME NEW T, NEW list \in Seq(T), NEW e
    PROVE  Cardinality({i \in DOMAIN list : list[i].endpoint = e}) = Len(Select(list, e, TRUE))
<1> DEFINE Own(s) == {i \in DOMAIN s : s[i].endpoint = e}
           Good(s) == IsFiniteSet(Own(s)) /\ Cardinality(Own(s)) = Len(Select(s, e, TRUE))
           P == {s \in Seq(T) : Good(s)}
<1>1. <<>> \in P
  <2>1. Own(<<>>) = {}
    BY EmptySeq, LenProperties
  <2>2. Select(<<>>, e, TRUE) = <<>>
    <3>1. \A own : Select(<<>>, e, own) = <<>>
      BY SelectEmpty
    <3> QED BY <3>1, Zenon
  <2>3. Len(<<>>) = 0
    OBVIOUS
  <2> HIDE DEF Own
  <2>4. Good(<<>>)
    BY <2>1, <2>2, <2>3, FS_EmptySet
  <2> QED BY <2>4, EmptySeq
<1>2. ASSUME NEW s \in P, NEW x \in T PROVE Append(s, x) \in P
  <2> DEFINE t == Append(s, x)
             a == Select(s, e, TRUE)
             b == Select(t, e, TRUE)
  <2>1. s \in Seq(T) /\ Len(s) \in Nat /\ DOMAIN s = 1 .. Len(s)
    BY LenProperties
  <2>2. /\ t \in Seq(T) /\ Len(t) = Len(s) + 1
        /\ (\A i \in 1 .. Len(s) : t[i] = s[i]) /\ t[Len(s) + 1] = x
    BY <2>1, AppendProperties
  <2>3. DOMAIN t = 1 .. Len(s) + 1
    BY <2>2, LenProperties
  <2>4. b = IF Matches(x, e, TRUE) THEN Append(a, x) ELSE a
    <3>1. \A own : Select(t, e, own) = IF Matches(x, e, own) THEN Append(Select(s, e, own), x)
                                       ELSE Select(s, e, own)
      BY <2>1, SelectAppend
    <3> QED BY <3>1, Zenon
  <2>5. Matches(x, e, TRUE) <=> x.endpoint = e
    BY DEF Matches
  <2>6. a \in Seq(T)
    <3>1. \A own : Select(s, e, own) \in Seq(T)
      BY <2>1, SelectType
    <3> QED BY <3>1, Zenon
  <2>7. IsFiniteSet(Own(s)) /\ Cardinality(Own(s)) = Len(a)
    OBVIOUS
  <2> HIDE DEF t, a, b, P
  <2>8. Own(t) = IF x.endpoint = e THEN Own(s) \cup {Len(s) + 1} ELSE Own(s)
    BY <2>1, <2>2, <2>3
  <2>9. Len(s) + 1 \notin Own(s)
    BY <2>1
  <2> HIDE DEF Own
  <2>10. Good(t)
    <3>1. CASE x.endpoint = e
      <4>1. b = Append(a, x) /\ Len(b) = Len(a) + 1
        BY <2>4, <2>5, <2>6, <3>1, AppendProperties
      <4>2. IsFiniteSet(Own(t)) /\ Cardinality(Own(t)) = Cardinality(Own(s)) + 1
        BY <2>7, <2>8, <2>9, <3>1, FS_AddElement
      <4> QED BY <2>7, <4>1, <4>2 DEF b
    <3>2. CASE x.endpoint # e
      BY <2>4, <2>5, <2>7, <2>8, <3>2 DEF b
    <3> QED BY <3>1, <3>2
  <2> QED BY <2>2, <2>10 DEF P, t
<1>3. P = Seq(T)
  <2> HIDE DEF P
  <2>1. P \in SUBSET Seq(T)
    BY DEF P
  <2> QED BY <1>1, <1>2, <2>1, ListInduction
<1> QED BY <1>3

\* A sample without its time, and the samples of a spec with theirs.
Kept == [endpoint : Endpoints, body : Contents]
Samples == [endpoint : Endpoints, body : Contents, seen : Nat \ {0}]
Bare(s) == [endpoint |-> s.endpoint, body |-> s.body]

\* Untimed() goes item by item,
LEMMA UntimedType ==
    ASSUME NEW s \in Seq(Samples)
    PROVE  /\ Untimed(s) \in Seq(Kept) /\ Len(Untimed(s)) = Len(s)
           /\ DOMAIN Untimed(s) = DOMAIN s
           /\ \A i \in 1 .. Len(s) : Untimed(s)[i] = Bare(s[i])
<1>1. Len(s) \in Nat /\ DOMAIN s = 1 .. Len(s)
  BY LenProperties
<1>2. \A i \in 1 .. Len(s) : s[i] \in Samples
  BY ElementOfSeq
<1>3. \A i \in 1 .. Len(s) : Bare(s[i]) \in Kept
  BY <1>2 DEF Samples, Kept, Bare
<1> DEFINE u == Untimed(s)
<1>4. u = [i \in 1 .. Len(s) |-> Bare(s[i])]
  BY <1>1 DEF Untimed, Bare
<1>5. u \in [1 .. Len(s) -> Kept]
  BY <1>3, <1>4
<1> HIDE DEF u
<1>6. u \in Seq(Kept)
  BY <1>1, <1>5, SeqDef
<1>7. Len(u) = Len(s) /\ DOMAIN u = DOMAIN s
  BY <1>1, <1>5, <1>6, LenProperties
<1> QED BY <1>4, <1>6, <1>7 DEF u

\* so that it does not matter whether the times go before two lists are joined,
LEMMA UntimedConcat ==
    ASSUME NEW s \in Seq(Samples), NEW t \in Seq(Samples)
    PROVE  Untimed(s \o t) = Untimed(s) \o Untimed(t)
<1> DEFINE u == Untimed(s)
           v == Untimed(t)
           w == Untimed(s \o t)
<1>1. Len(s) \in Nat /\ Len(t) \in Nat
  BY LenProperties
<1>2. /\ s \o t \in Seq(Samples) /\ Len(s \o t) = Len(s) + Len(t)
      /\ \A i \in 1 .. Len(s) + Len(t) : (s \o t)[i] = IF i <= Len(s) THEN s[i] ELSE t[i - Len(s)]
  BY ConcatProperties
<1>3. /\ u \in Seq(Kept) /\ Len(u) = Len(s) /\ \A i \in 1 .. Len(s) : u[i] = Bare(s[i])
      /\ v \in Seq(Kept) /\ Len(v) = Len(t) /\ \A i \in 1 .. Len(t) : v[i] = Bare(t[i])
  BY UntimedType
<1>4. w \in Seq(Kept) /\ Len(w) = Len(s) + Len(t) /\ \A i \in 1 .. Len(s) + Len(t) : w[i] = Bare((s \o t)[i])
  BY <1>2, UntimedType
<1>5. /\ u \o v \in Seq(Kept) /\ Len(u \o v) = Len(s) + Len(t)
      /\ \A i \in 1 .. Len(s) + Len(t) : (u \o v)[i] = IF i <= Len(s) THEN u[i] ELSE v[i - Len(s)]
  <2> HIDE DEF u, v
  <2>0. u \in Seq(Kept) /\ v \in Seq(Kept)
    BY <1>3
  <2>1. /\ u \o v \in Seq(Kept) /\ Len(u \o v) = Len(u) + Len(v)
        /\ \A i \in 1 .. Len(u) + Len(v) : (u \o v)[i] = IF i <= Len(u) THEN u[i] ELSE v[i - Len(u)]
    BY <2>0, ConcatProperties
  <2> QED BY <1>3, <2>1
<1> HIDE DEF u, v, w
<1>6. ASSUME NEW i \in 1 .. Len(s) + Len(t) PROVE w[i] = (u \o v)[i]
  <2>1. CASE i <= Len(s)
    <3>1. i \in 1 .. Len(s)
      BY <1>1, <2>1
    <3> QED BY <1>2, <1>3, <1>4, <1>5, <2>1, <3>1
  <2>2. CASE ~(i <= Len(s))
    <3>1. i - Len(s) \in 1 .. Len(t)
      BY <1>1, <2>2
    <3> QED BY <1>2, <1>3, <1>4, <1>5, <2>2, <3>1
  <2> QED BY <2>1, <2>2
<1> QED BY <1>4, <1>5, <1>6, SeqEqual DEF u, v, w

\* items are selected
LEMMA UntimedSelect ==
    ASSUME NEW list \in Seq(Samples), NEW e, NEW own
    PROVE  Untimed(Select(list, e, own)) = Select(Untimed(list), e, own)
<1> DEFINE Good(s) == Untimed(Select(s, e, own)) = Select(Untimed(s), e, own)
           P == {s \in Seq(Samples) : Good(s)}
<1>1. <<>> \in P
  <2>1. <<>> \in Seq(Samples)
    OBVIOUS
  <2>2. Untimed(<<>>) = <<>>
    BY <2>1, UntimedType, EmptySeq
  <2>3. Good(<<>>)
    BY <2>2, SelectEmpty
  <2> QED BY <2>1, <2>3
<1>2. ASSUME NEW s \in P, NEW x \in Samples PROVE Append(s, x) \in P
  <2> DEFINE a == Select(s, e, own)
             one == <<x>>
  <2>1. s \in Seq(Samples) /\ Append(s, x) \in Seq(Samples) /\ a \in Seq(Samples) /\ one \in Seq(Samples)
    BY SelectType, AppendProperties
  <2>2. Untimed(one) = <<Bare(x)>> /\ Bare(x) \in Kept
    <3>1. one[1] = x /\ Len(one) = 1
      OBVIOUS
    <3> HIDE DEF one
    <3>2. Untimed(one) \in Seq(Kept) /\ Len(Untimed(one)) = 1 /\ Untimed(one)[1] = Bare(x)
      BY <2>1, <3>1, UntimedType
    <3>3. Bare(x) \in Kept
      BY DEF Samples, Kept, Bare
    <3>4. <<Bare(x)>> \in Seq(Kept) /\ Len(<<Bare(x)>>) = 1 /\ <<Bare(x)>>[1] = Bare(x)
      BY <3>3
    <3>5. Untimed(one) = <<Bare(x)>>
      BY <3>2, <3>4, SeqEqual
    <3> QED BY <3>3, <3>5
  <2>3. ASSUME NEW l \in Seq(Samples) PROVE Untimed(Append(l, x)) = Append(Untimed(l), Bare(x))
    <3>1. Append(l, x) = l \o one
      BY AppendIsConcat
    <3>2. Untimed(l) \in Seq(Kept)
      BY UntimedType
    <3>3. Untimed(l \o one) = Untimed(l) \o Untimed(one)
      BY <2>1, UntimedConcat
    <3>4. Append(Untimed(l), Bare(x)) = Untimed(l) \o <<Bare(x)>>
      BY <2>2, <3>2, AppendIsConcat
    <3> QED BY <2>2, <3>1, <3>3, <3>4
  <2>4. Select(Append(s, x), e, own) = IF Matches(x, e, own) THEN Append(a, x) ELSE a
    BY <2>1, SelectAppend
  <2>5. Select(Append(Untimed(s), Bare(x)), e, own) =
            IF Matches(Bare(x), e, own) THEN Append(Select(Untimed(s), e, own), Bare(x))
            ELSE Select(Untimed(s), e, own)
    <3>1. Untimed(s) \in Seq(Kept)
      BY <2>1, UntimedType
    <3>2. \A l \in Seq(Kept) : \A y \in Kept :
             Select(Append(l, y), e, own) = IF Matches(y, e, own) THEN Append(Select(l, e, own), y)
                                            ELSE Select(l, e, own)
      BY SelectAppend
    <3> QED BY <2>2, <3>1, <3>2, Zenon
  <2>6. Matches(Bare(x), e, own) = Matches(x, e, own)
    BY DEF Matches, Bare
  <2>7. Untimed(a) = Select(Untimed(s), e, own)
    OBVIOUS
  <2>8. Good(Append(s, x))
    <3>1. Untimed(Append(a, x)) = Append(Untimed(a), Bare(x)) /\ Untimed(Append(s, x)) = Append(Untimed(s), Bare(x))
      BY <2>1, <2>3
    <3> HIDE DEF a, P
    <3> QED BY <2>4, <2>5, <2>6, <2>7, <3>1
  <2> QED BY <2>1, <2>8
<1>3. P = Seq(Samples)
  <2> HIDE DEF P
  <2>1. P \in SUBSET Seq(Samples)
    BY DEF P
  <2> QED BY <1>1, <1>2, <2>1, ListInduction
<1> QED BY <1>3

\* or the front is cut off.
LEMMA UntimedLastOf ==
    ASSUME NEW list \in Seq(Samples), NEW n \in Nat
    PROVE  Untimed(LastOf(list, n)) = LastOf(Untimed(list), n)
<1>1. LastOf(list, n) \in Seq(Samples) /\ IsSuffix(LastOf(list, n), list)
  BY LastOfIsSuffix
<1>2. Untimed(list) \in Seq(Kept) /\ Len(Untimed(list)) = Len(list)
  BY UntimedType
<1>3. CASE n = 0 \/ n >= Len(list)
  BY <1>2, <1>3 DEF LastOf
<1>4. CASE ~(n = 0 \/ n >= Len(list))
  <2> DEFINE l == LastOf(list, n)
             v == Untimed(list)
             w == LastOf(v, n)
             x == Untimed(l)
  <2>1. Len(l) = n
    BY <1>4, LastOfIsSuffix
  <2>2. PICK u \in Seq(Samples) : list = u \o l
    BY <1>1, SuffixSplits
  <2>3. v = Untimed(u) \o x
    BY <1>1, <2>2, UntimedConcat
  <2>4. Untimed(u) \in Seq(Kept) /\ x \in Seq(Kept) /\ Len(x) = n
    BY <1>1, <2>1, UntimedType
  <2>5. IsSuffix(x, v)
    <3> HIDE DEF x, v
    <3>1. Untimed(u) \in Seq(Kept) /\ x \in Seq(Kept)
      BY <2>4
    <3> QED BY <2>3, <3>1, SuffixOfConcat
  <2>6. x = SubSeq(v, Len(v) - n + 1, Len(v))
    <3> HIDE DEF x, v
    <3> QED BY <2>4, <2>5 DEF IsSuffix
  <2>7. w = SubSeq(v, Len(v) - n + 1, Len(v))
    BY <1>2, <1>4 DEF LastOf
  <2> QED BY <2>6, <2>7
<1> QED BY <1>3, <1>4

-----------------------------------------------------------------------------
(* Inserted() and Refreshed().                                             *)

\* What Inserted() does to the samples without their times.
Before(list, item) ==
    Select(list, item.endpoint, FALSE) \o LastOf(Select(list, item.endpoint, TRUE), MaxPerEndpoint - 1)
Replaced(list, item) == LastOf(Before(list, item) \o <<item>>, MaxTotal)

\* What comes before the new sample is a list of samples there were.
LEMMA BeforeType ==
    ASSUME NEW T, NEW list \in Seq(T), NEW item
    PROVE  /\ Select(list, item.endpoint, FALSE) \in Seq(T)
           /\ Select(list, item.endpoint, TRUE) \in Seq(T)
           /\ LastOf(Select(list, item.endpoint, TRUE), MaxPerEndpoint - 1) \in Seq(T)
           /\ IsSuffix(LastOf(Select(list, item.endpoint, TRUE), MaxPerEndpoint - 1),
                       Select(list, item.endpoint, TRUE))
           /\ Before(list, item) \in Seq(T)
<1> DEFINE a == Select(list, item.endpoint, FALSE)
           b == Select(list, item.endpoint, TRUE)
           c == LastOf(b, MaxPerEndpoint - 1)
<1>1. a \in Seq(T) /\ b \in Seq(T)
  <2>1. \A own : Select(list, item.endpoint, own) \in Seq(T)
    BY SelectType
  <2> QED BY <2>1, Zenon
<1>2. MaxPerEndpoint - 1 \in Nat
  BY SamplesAssumption
<1>3. c \in Seq(T) /\ IsSuffix(c, b)
  <2> HIDE DEF a, b
  <2> QED BY <1>1, <1>2, LastOfIsSuffix
<1>4. Before(list, item) = a \o c
  BY DEF Before
<1>5. a \o c \in Seq(T)
  <2> HIDE DEF a, c
  <2> QED BY <1>1, <1>3, ConcatProperties
<1> QED BY <1>1, <1>3, <1>4, <1>5

\* Replaced() is Inserted() of a sample made into a record.
LEMMA InsertedIsReplaced ==
    ASSUME NEW samples, NEW endpoint, NEW body, NEW time
    PROVE  Inserted(samples, endpoint, body, time) = Replaced(samples, Sample(endpoint, body, time))
<1>1. Sample(endpoint, body, time).endpoint = endpoint
  BY DEF Sample
<1> QED BY <1>1 DEF Inserted, Replaced, Before

\* The end of the list is the new item, and there are MaxTotal at most.
LEMMA ReplacedType ==
    ASSUME NEW T, NEW list \in Seq(T), NEW item \in T
    PROVE  LET w == Before(list, item) \o <<item>>
               r == Replaced(list, item)
           IN /\ w \in Seq(T) /\ r \in Seq(T) /\ IsSuffix(r, w)
              /\ Len(r) \in 1 .. MaxTotal /\ r[Len(r)] = item
<1> DEFINE b == Before(list, item)
           w == b \o <<item>>
           r == LastOf(w, MaxTotal)
<1>1. b \in Seq(T) /\ Len(b) \in Nat
  BY BeforeType, LenProperties
<1>2. w = Append(b, item)
  <2> HIDE DEF b
  <2> QED BY <1>1, AppendIsConcat
<1>3. w \in Seq(T) /\ Len(w) = Len(b) + 1 /\ w[Len(w)] = item
  <2> HIDE DEF b, w
  <2> QED BY <1>1, <1>2, AppendProperties
<1>4. MaxTotal \in Nat /\ MaxTotal # 0
  BY SamplesAssumption
<1>5. r \in Seq(T) /\ IsSuffix(r, w) /\ Len(r) = IF MaxTotal = 0 \/ MaxTotal >= Len(w) THEN Len(w) ELSE MaxTotal
  <2> HIDE DEF w
  <2> QED BY <1>3, <1>4, LastOfIsSuffix
<1>6. Len(r) \in 1 .. MaxTotal
  <2> HIDE DEF r, w, b
  <2> QED BY <1>1, <1>3, <1>4, <1>5
<1>7. r # <<>>
  <2> HIDE DEF r
  <2> QED BY <1>6, EmptySeq
<1>8. r[Len(r)] = item
  <2> HIDE DEF r, w
  <2> QED BY <1>3, <1>5, <1>7, LastOfKeepsLast
<1> QED BY <1>3, <1>5, <1>6, <1>8 DEF Replaced

\* Nor does it matter for inserting a sample.
LEMMA UntimedReplaced ==
    ASSUME NEW list \in Seq(Samples), NEW item \in Samples
    PROVE  Untimed(Replaced(list, item)) = Replaced(Untimed(list), Bare(item))
<1> DEFINE e == item.endpoint
           a == Select(list, e, FALSE)
           b == Select(list, e, TRUE)
           c == LastOf(b, MaxPerEndpoint - 1)
           u == Untimed(list)
           one == <<item>>
<1>1. a \in Seq(Samples) /\ b \in Seq(Samples) /\ c \in Seq(Samples) /\ one \in Seq(Samples)
      /\ Before(list, item) = a \o c /\ a \o c \in Seq(Samples)
  <2>1. a \in Seq(Samples) /\ b \in Seq(Samples) /\ c \in Seq(Samples) /\ Before(list, item) \in Seq(Samples)
    BY BeforeType
  <2>2. Before(list, item) = a \o c
    BY DEF Before
  <2>3. one \in Seq(Samples)
    OBVIOUS
  <2> HIDE DEF a, b, c, one
  <2> QED BY <2>1, <2>2, <2>3
<1>2. Untimed(a) = Select(u, e, FALSE) /\ Untimed(b) = Select(u, e, TRUE)
  <2>1. \A own : Untimed(Select(list, e, own)) = Select(u, e, own)
    BY UntimedSelect
  <2> QED BY <2>1, Zenon
<1>3. MaxPerEndpoint - 1 \in Nat /\ MaxTotal \in Nat
  BY SamplesAssumption
<1>4. Untimed(c) = LastOf(Select(u, e, TRUE), MaxPerEndpoint - 1)
  <2>1. Untimed(c) = LastOf(Untimed(b), MaxPerEndpoint - 1)
    BY <1>1, <1>3, UntimedLastOf
  <2> QED BY <1>2, <2>1
<1>5. Untimed(one) = <<Bare(item)>>
  <2>1. one[1] = item /\ Len(one) = 1
    OBVIOUS
  <2>2. Untimed(one) \in Seq(Kept) /\ Len(Untimed(one)) = 1 /\ Untimed(one)[1] = Bare(item)
    <3> HIDE DEF one
    <3> QED BY <1>1, <2>1, UntimedType
  <2>3. Bare(item) \in Kept
    BY DEF Samples, Kept, Bare
  <2>4. <<Bare(item)>> \in Seq(Kept) /\ Len(<<Bare(item)>>) = 1 /\ <<Bare(item)>>[1] = Bare(item)
    BY <2>3
  <2> HIDE DEF one
  <2> QED BY <2>2, <2>4, SeqEqual
<1>6. Untimed(Before(list, item)) = Before(u, Bare(item))
  <2>1. Untimed(a \o c) = Untimed(a) \o Untimed(c)
    <3> HIDE DEF a, c
    <3> QED BY <1>1, UntimedConcat
  <2>2. Bare(item).endpoint = e
    BY DEF Bare
  <2> HIDE DEF a, c, e
  <2> QED BY <1>1, <1>2, <1>4, <2>1, <2>2 DEF Before
<1>7. Untimed(Before(list, item) \o one) = Before(u, Bare(item)) \o <<Bare(item)>>
  <2>1. Untimed((a \o c) \o one) = Untimed(a \o c) \o Untimed(one)
    <3> HIDE DEF a, c, one
    <3> QED BY <1>1, UntimedConcat
  <2> QED BY <1>1, <1>5, <1>6, <2>1
<1>8. Before(list, item) \o one \in Seq(Samples)
  <2> HIDE DEF one, a, c
  <2> QED BY <1>1, ConcatProperties
<1>9. Untimed(Replaced(list, item)) = LastOf(Untimed(Before(list, item) \o one), MaxTotal)
  BY <1>3, <1>8, UntimedLastOf DEF Replaced
<1> QED BY <1>7, <1>9 DEF Replaced

\* The items of an endpoint are of that endpoint, the others are not.
LEMMA SelectsOwnAndOthers ==
    ASSUME NEW T, NEW list \in Seq(T), NEW e
    PROVE  /\ Select(list, e, TRUE) \in Seq({x \in T : x.endpoint = e})
           /\ Select(list, e, FALSE) \in Seq({x \in T : x.endpoint # e})
<1> DEFINE S(own) == {x \in T : Matches(x, e, own)}
<1>1. ASSUME NEW own PROVE Select(list, e, own) \in Seq(S(own))
  <2> DEFINE s == Select(list, e, own)
  <2>1. s \in Seq(T) /\ \A i \in 1 .. Len(s) : Matches(s[i], e, own)
    BY SelectType
  <2> HIDE DEF s
  <2>2. Len(s) \in Nat /\ s \in [1 .. Len(s) -> T]
    BY <2>1, LenProperties
  <2>3. s \in [1 .. Len(s) -> S(own)]
    BY <2>1, <2>2
  <2>4. s \in Seq(S(own))
    <3> HIDE DEF S
    <3> QED BY <2>2, <2>3, SeqDef
  <2> QED BY <2>4 DEF s
<1>2. S(TRUE) = {x \in T : x.endpoint = e} /\ S(FALSE) = {x \in T : x.endpoint # e}
  BY DEF Matches
<1>3. Select(list, e, TRUE) \in Seq(S(TRUE)) /\ Select(list, e, FALSE) \in Seq(S(FALSE))
  <2> HIDE DEF S
  <2> QED BY <1>1, Zenon
<1> QED BY <1>2, <1>3, Zenon

\* What the list that Inserted() cuts has of each endpoint.
LEMMA SelectsOfReplaced ==
    ASSUME NEW T, NEW list \in Seq(T), NEW item \in T
    PROVE  LET w == Before(list, item) \o <<item>>
               e == item.endpoint
           IN /\ Select(w, e, TRUE) = Append(LastOf(Select(list, e, TRUE), MaxPerEndpoint - 1), item)
              /\ \A x : x # e => Select(w, x, TRUE) = Select(list, x, TRUE)
<1> DEFINE e == item.endpoint
           a == Select(list, e, FALSE)
           b == Select(list, e, TRUE)
           c == LastOf(b, MaxPerEndpoint - 1)
           one == <<item>>
           E == {x \in T : x.endpoint = e}
           O == {x \in T : x.endpoint # e}
           w == Before(list, item) \o one
<1>1. a \in Seq(O) /\ b \in Seq(E)
  <2> HIDE DEF e
  <2> QED BY SelectsOwnAndOthers, ZenonT(60)
<1>2. c \in Seq(E)
  <2>1. MaxPerEndpoint - 1 \in Nat
    BY SamplesAssumption
  <2> HIDE DEF b, E
  <2> QED BY <1>1, <2>1, LastOfIsSuffix
<1>3. one \in Seq(E)
  OBVIOUS
<1>4. a \in Seq(T) /\ c \in Seq(T) /\ one \in Seq(T) /\ a \o c \in Seq(T) /\ w = (a \o c) \o one
  <2>1. a \in Seq(T) /\ c \in Seq(T) /\ Before(list, item) \in Seq(T)
    BY BeforeType
  <2>2. Before(list, item) = a \o c
    BY DEF Before
  <2>3. one \in Seq(T)
    OBVIOUS
  <2> HIDE DEF a, c, one
  <2> QED BY <2>1, <2>2, <2>3
<1>5. ASSUME NEW l \in Seq(E) PROVE Select(l, e, TRUE) = l /\ \A x : x # e => Select(l, x, TRUE) = <<>>
  <2>1. \A i \in 1 .. Len(l) : l[i] \in E
    BY ElementOfSeq
  <2>2. \A i \in 1 .. Len(l) : Matches(l[i], e, TRUE) /\ \A x : x # e => ~Matches(l[i], x, TRUE)
    BY <2>1 DEF Matches
  <2>3. \A y, own : (\A i \in 1 .. Len(l) : Matches(l[i], y, own)) => Select(l, y, own) = l
    <3> HIDE DEF E
    <3> QED BY SelectAll
  <2>4. \A y, own : (\A i \in 1 .. Len(l) : ~Matches(l[i], y, own)) => Select(l, y, own) = <<>>
    <3> HIDE DEF E
    <3> QED BY SelectNone
  <2> HIDE DEF e, E
  <2> QED BY <2>2, <2>3, <2>4, Zenon
<1>6. Select(a, e, TRUE) = <<>> /\ \A x : x # e => Select(a, x, TRUE) = Select(list, x, TRUE)
  <2>1. \A i \in 1 .. Len(a) : a[i] \in O
    <3> HIDE DEF a, O
    <3> QED BY <1>1, ElementOfSeq
  <2>2. \A i \in 1 .. Len(a) : ~Matches(a[i], e, TRUE)
    BY <2>1 DEF Matches
  <2>3. \A y, own : (\A i \in 1 .. Len(a) : ~Matches(a[i], y, own)) => Select(a, y, own) = <<>>
    <3> HIDE DEF a
    <3> QED BY <1>4, SelectNone
  <2>4. Select(a, e, TRUE) = <<>>
    <3> HIDE DEF a, e
    <3> QED BY <2>2, <2>3, Zenon
  <2>5. \A x : x # e => Select(a, x, TRUE) = Select(list, x, TRUE)
    <3> HIDE DEF e
    <3> QED BY SelectOfOthers
  <2> QED BY <2>4, <2>5
<1>7. ASSUME NEW x PROVE Select(w, x, TRUE) = (Select(a, x, TRUE) \o Select(c, x, TRUE)) \o Select(one, x, TRUE)
  <2>1. \A l, m \in Seq(T) : Select(l \o m, x, TRUE) = Select(l, x, TRUE) \o Select(m, x, TRUE)
    <3>1. \A own : \A l, m \in Seq(T) : Select(l \o m, x, own) = Select(l, x, own) \o Select(m, x, own)
      BY SelectConcat
    <3> QED BY <3>1, Zenon
  <2> HIDE DEF a, c, one, w
  <2> DEFINE ac == a \o c
  <2>0. ac \in Seq(T) /\ one \in Seq(T) /\ a \in Seq(T) /\ c \in Seq(T)
    BY <1>4
  <2> HIDE DEF ac
  <2>2. Select(ac \o one, x, TRUE) = Select(ac, x, TRUE) \o Select(one, x, TRUE)
    BY <2>0, <2>1, ZenonT(40)
  <2>3. Select(a \o c, x, TRUE) = Select(a, x, TRUE) \o Select(c, x, TRUE)
    BY <2>0, <2>1, ZenonT(40)
  <2> QED BY <1>4, <2>2, <2>3 DEF ac
<1>8. Select(w, e, TRUE) = Append(c, item)
  <2>1. Select(c, e, TRUE) = c /\ Select(one, e, TRUE) = one
    <3> HIDE DEF c, one, E
    <3> QED BY <1>2, <1>3, <1>5
  <2>2. <<>> \o c = c /\ c \o one = Append(c, item)
    <3> HIDE DEF c
    <3> QED BY <1>4, ConcatEmptySeq, AppendIsConcat
  <2> HIDE DEF a, c, one, w, e
  <2> QED BY <1>6, <1>7, <2>1, <2>2
<1>9. ASSUME NEW x, x # e PROVE Select(w, x, TRUE) = Select(list, x, TRUE)
  <2>1. Select(c, x, TRUE) = <<>> /\ Select(one, x, TRUE) = <<>> /\ Select(a, x, TRUE) = Select(list, x, TRUE)
    <3> HIDE DEF c, one, E, a, e
    <3> QED BY <1>2, <1>3, <1>5, <1>6, <1>9
  <2> DEFINE s == Select(list, x, TRUE)
  <2>2. s \in Seq(T)
    <3>1. \A own : Select(list, x, own) \in Seq(T)
      BY SelectType
    <3> QED BY <3>1, Zenon
  <2>3. (s \o <<>>) \o <<>> = s
    <3> HIDE DEF s
    <3> QED BY <2>2, ConcatEmptySeq
  <2> HIDE DEF a, c, one, w, e
  <2> QED BY <1>7, <2>1, <2>3
<1> QED BY <1>8, <1>9

\* Inserting a sample that is not there keeps the samples distinct.
LEMMA ReplacedDistinct ==
    ASSUME NEW T, NEW list \in Seq(T), NEW item \in T, Distinct(list), Absent(item, list)
    PROVE  Distinct(Replaced(list, item))
<1> DEFINE e == item.endpoint
           a == Select(list, e, FALSE)
           b == Select(list, e, TRUE)
           c == LastOf(b, MaxPerEndpoint - 1)
           w == Before(list, item) \o <<item>>
           E == {x \in T : x.endpoint = e}
           O == {x \in T : x.endpoint # e}
           A == {x \in T : Differ(item, x)}
<1>1. a \in Seq(T) /\ b \in Seq(T) /\ c \in Seq(T) /\ IsSuffix(c, b)
      /\ Before(list, item) = a \o c /\ Before(list, item) \in Seq(T)
  <2>1. a \in Seq(T) /\ b \in Seq(T) /\ c \in Seq(T) /\ IsSuffix(c, b) /\ Before(list, item) \in Seq(T)
    BY BeforeType
  <2>2. Before(list, item) = a \o c
    BY DEF Before
  <2> HIDE DEF a, b, c
  <2> QED BY <2>1, <2>2
<1>2. MaxPerEndpoint - 1 \in Nat
  BY SamplesAssumption
<1>3. a \in Seq(O) /\ b \in Seq(E)
  <2> HIDE DEF e
  <2> QED BY SelectsOwnAndOthers, ZenonT(60)
<1>4. list \in Seq(A)
  <2>1. Len(list) \in Nat /\ list \in [1 .. Len(list) -> T]
    BY LenProperties
  <2>2. list \in [1 .. Len(list) -> A]
    BY <2>1 DEF Absent
  <2> HIDE DEF A
  <2> QED BY <2>1, <2>2, SeqDef
<1>5. a \in Seq(A) /\ b \in Seq(A)
  <2>1. \A own : Select(list, e, own) \in Seq(A)
    <3> HIDE DEF A
    <3> QED BY <1>4, SelectType
  <2> QED BY <2>1, Zenon
<1>6. c \in Seq(E) /\ c \in Seq(A)
  <2> HIDE DEF b, E, A
  <2> QED BY <1>2, <1>3, <1>5, LastOfIsSuffix
<1>7. \A i \in 1 .. Len(a) : Absent(a[i], c)
  <2>1. \A i \in 1 .. Len(a) : a[i] \in O
    <3> HIDE DEF a, O
    <3> QED BY <1>3, ElementOfSeq
  <2>2. \A i \in 1 .. Len(c) : c[i] \in E
    <3> HIDE DEF c, E
    <3> QED BY <1>6, ElementOfSeq
  <2> HIDE DEF a, c
  <2> QED BY <2>1, <2>2 DEF Absent, Differ
<1>8. Distinct(a) /\ Distinct(b)
  <2>1. \A own : Distinct(Select(list, e, own))
    BY DistinctParts
  <2> QED BY <2>1, Zenon
<1>9. Distinct(c)
  <2> HIDE DEF b, c
  <2> QED BY <1>1, <1>8, DistinctParts
<1>10. Distinct(Before(list, item))
  <2> HIDE DEF a, c
  <2> QED BY <1>1, <1>7, <1>8, <1>9, DistinctConcat
<1>11. Before(list, item) \in Seq(A)
  <2> HIDE DEF a, c, A
  <2> QED BY <1>1, <1>5, <1>6, ConcatProperties
<1>12. Absent(item, Before(list, item))
  <2>1. \A i \in 1 .. Len(Before(list, item)) : Before(list, item)[i] \in A
    <3> HIDE DEF A
    <3> QED BY <1>11, ElementOfSeq
  <2> QED BY <2>1 DEF Absent
<1>13. w = Append(Before(list, item), item)
  BY <1>1, AppendIsConcat
<1>14. Distinct(w)
  BY <1>1, <1>10, <1>12, <1>13, DistinctAppend
<1>15. w \in Seq(T) /\ Replaced(list, item) \in Seq(T) /\ IsSuffix(Replaced(list, item), w)
  BY ReplacedType
<1> HIDE DEF w
<1> QED BY <1>14, <1>15, DistinctParts

\* What is kept of each endpoint, and how much: the newest items, MaxPerEndpoint
\* at most, and the new one is there.
LEMMA ReplacedKeepsNewest ==
    ASSUME NEW T, NEW list \in Seq(T), NEW item \in T, NEW taken \in Seq(T), NEW x
    PROVE  LET r == Select(Replaced(list, item), x, TRUE)
               s == Select(list, x, TRUE)
           IN /\ MaxPerEndpoint > 1 /\ Len(s) <= MaxPerEndpoint => Len(r) <= MaxPerEndpoint
              /\ IsSuffix(s, Select(taken, x, TRUE))
                   => IsSuffix(r, Select(Append(taken, item), x, TRUE))
<1> DEFINE e == item.endpoint
           w == Before(list, item) \o <<item>>
           r == Select(Replaced(list, item), x, TRUE)
           s == Select(list, x, TRUE)
           v == Select(w, x, TRUE)
           t == Select(taken, x, TRUE)
           n == Select(Append(taken, item), x, TRUE)
           c == LastOf(s, MaxPerEndpoint - 1)
<1>1. w \in Seq(T) /\ Replaced(list, item) \in Seq(T) /\ IsSuffix(Replaced(list, item), w)
      /\ Append(taken, item) \in Seq(T)
  BY ReplacedType, AppendProperties
<1>2. \A l \in Seq(T) : Select(l, x, TRUE) \in Seq(T)
  <2>1. \A own : \A l \in Seq(T) : Select(l, x, own) \in Seq(T)
    BY SelectType
  <2> QED BY <2>1, Zenon
<1>3. r \in Seq(T) /\ s \in Seq(T) /\ v \in Seq(T) /\ t \in Seq(T) /\ n \in Seq(T)
  <2> HIDE DEF w
  <2> QED BY <1>1, <1>2
<1>4. IsSuffix(r, v)
  <2>1. \A own : IsSuffix(Select(Replaced(list, item), x, own), Select(w, x, own))
    <3> HIDE DEF w
    <3> QED BY <1>1, SuffixSelect
  <2> QED BY <2>1, Zenon
<1>5. Len(r) \in Nat /\ Len(v) \in Nat /\ Len(r) <= Len(v) /\ Len(s) \in Nat
  <2> HIDE DEF r, v, s
  <2> QED BY <1>3, <1>4, LenProperties DEF IsSuffix
<1>6. n = IF Matches(item, x, TRUE) THEN Append(t, item) ELSE t
  <2>1. \A own : Select(Append(taken, item), x, own) =
                   IF Matches(item, x, own) THEN Append(Select(taken, x, own), item) ELSE Select(taken, x, own)
    BY SelectAppend
  <2> QED BY <2>1, Zenon
<1>7. CASE x = e
  <2>1. v = Append(c, item)
    BY <1>7, SelectsOfReplaced
  <2>2. n = Append(t, item)
    BY <1>6, <1>7 DEF Matches
  <2>3. MaxPerEndpoint - 1 \in Nat /\ MaxPerEndpoint \in Nat
    BY SamplesAssumption
  <2>4. c \in Seq(T) /\ IsSuffix(c, s)
        /\ Len(c) = IF MaxPerEndpoint - 1 = 0 \/ MaxPerEndpoint - 1 >= Len(s) THEN Len(s) ELSE MaxPerEndpoint - 1
    <3> HIDE DEF s
    <3> QED BY <1>3, <2>3, LastOfIsSuffix
  <2>5. Len(v) = Len(c) + 1
    <3> HIDE DEF c, v
    <3> QED BY <2>1, <2>4, AppendProperties
  <2>6. MaxPerEndpoint > 1 => Len(r) <= MaxPerEndpoint
    <3> HIDE DEF c, v, r, s
    <3> QED BY <1>5, <2>3, <2>4, <2>5
  <2>7. ASSUME IsSuffix(s, t) PROVE IsSuffix(r, n)
    <3> HIDE DEF c, v, r, s, t, n
    <3>1. IsSuffix(c, t)
      BY <1>3, <2>4, <2>7, SuffixTransitive
    <3>2. IsSuffix(v, n)
      BY <1>3, <2>1, <2>2, <2>4, <3>1, SuffixAppend
    <3> QED BY <1>3, <1>4, <3>2, SuffixTransitive
  <2> HIDE DEF r, s, t, n
  <2>8. /\ MaxPerEndpoint > 1 /\ Len(s) <= MaxPerEndpoint => Len(r) <= MaxPerEndpoint
        /\ IsSuffix(s, t) => IsSuffix(r, n)
    BY <2>6, <2>7
  <2> QED BY <2>8 DEF r, s, t, n
<1>8. CASE x # e
  <2>1. v = s
    BY <1>8, SelectsOfReplaced
  <2>2. n = t
    BY <1>6, <1>8 DEF Matches
  <2>3. MaxPerEndpoint \in Nat
    BY SamplesAssumption
  <2> HIDE DEF v, r, s, t, n
  <2>4. IsSuffix(s, t) => IsSuffix(r, n)
    BY <1>3, <1>4, <2>1, <2>2, SuffixTransitive
  <2>5. /\ MaxPerEndpoint > 1 /\ Len(s) <= MaxPerEndpoint => Len(r) <= MaxPerEndpoint
        /\ IsSuffix(s, t) => IsSuffix(r, n)
    BY <1>5, <2>1, <2>3, <2>4
  <2> QED BY <2>5 DEF r, s, t, n
<1> QED BY <1>7, <1>8

\* A set of numbers that is not empty has a least one.
LEMMA LeastNumber ==
    ASSUME NEW S \in SUBSET Nat, S # {}
    PROVE  \E k \in S : \A j \in S : k <= j
<1>1. PICK x \in S : \A y \in S : ~(<<y, x>> \in OpToRel(<, Nat))
  BY NatLessThanWellFounded, WFMin, Zenon
<1>2. ASSUME NEW y \in S PROVE x <= y
  <2>1. SUFFICES ASSUME y < x PROVE FALSE
    OBVIOUS
  <2>2. x \in Nat /\ y \in Nat
    OBVIOUS
  <2>3. <<y, x>> \in OpToRel(<, Nat)
    BY <2>1, <2>2, Zenon DEF OpToRel
  <2> QED BY <1>1, <2>3
<1> QED BY <1>2

\* A sample that is seen again only gets a new time.
LEMMA RefreshedSound ==
    ASSUME NEW samples \in Seq(Samples), NEW endpoint, NEW body, NEW time \in Nat \ {0},
           Same(samples, endpoint, body) # {}
    PROVE  LET r == Refreshed(samples, endpoint, body, time)
           IN /\ r \in Seq(Samples) /\ Untimed(r) = Untimed(samples)
              /\ \A i \in 1 .. Len(r) : r[i].seen \in {samples[i].seen, time}
              /\ \E i \in 1 .. Len(r) : r[i].seen = time
<1> DEFINE S == Same(samples, endpoint, body)
           k == CHOOSE i \in S : \A j \in S : i <= j
           new == [samples[k] EXCEPT !.seen = time]
           r == Refreshed(samples, endpoint, body, time)
<1>1. Len(samples) \in Nat /\ DOMAIN samples = 1 .. Len(samples)
  BY LenProperties
<1>2. S \subseteq 1 .. Len(samples) /\ S \in SUBSET Nat /\ S # {}
  BY <1>1 DEF Same
<1>3. \E i \in S : \A j \in S : i <= j
  <2> HIDE DEF S
  <2> QED BY <1>2, LeastNumber
<1>4. k \in 1 .. Len(samples)
  <2> HIDE DEF S
  <2>1. k \in S
    BY <1>3, Zenon
  <2> QED BY <1>2, <2>1
<1>5. r = [samples EXCEPT ![k] = new]
  BY DEF Refreshed
<1> HIDE DEF k, r, S
<1>6. samples[k] \in Samples
  BY <1>4, ElementOfSeq
<1>7. new \in Samples /\ new.seen = time /\ Bare(new) = Bare(samples[k])
  BY <1>6 DEF Samples, Bare
<1> HIDE DEF new
<1>8. /\ r \in Seq(Samples) /\ Len(r) = Len(samples)
      /\ \A i \in 1 .. Len(samples) : r[i] = IF i = k THEN new ELSE samples[i]
  BY <1>4, <1>5, <1>7, ExceptSeq
<1>9. Untimed(r) = Untimed(samples)
  <2> DEFINE u == Untimed(r)
             v == Untimed(samples)
  <2>1. /\ u \in Seq(Kept) /\ Len(u) = Len(r) /\ \A i \in 1 .. Len(r) : u[i] = Bare(r[i])
        /\ v \in Seq(Kept) /\ Len(v) = Len(samples) /\ \A i \in 1 .. Len(samples) : v[i] = Bare(samples[i])
    BY <1>8, UntimedType
  <2> HIDE DEF u, v
  <2>2. \A i \in 1 .. Len(u) : u[i] = v[i]
    BY <1>7, <1>8, <2>1
  <2>3. u = v
    BY <1>8, <2>1, <2>2, SeqEqual
  <2> QED BY <2>3 DEF u, v
<1>10. \A i \in 1 .. Len(r) : r[i].seen \in {samples[i].seen, time}
  BY <1>7, <1>8
<1>11. \E i \in 1 .. Len(r) : r[i].seen = time
  BY <1>4, <1>7, <1>8
<1> QED BY <1>8, <1>9, <1>10, <1>11 DEF r

\* Untimed() keeps what Distinct() and the count of an endpoint look at.
LEMMA UntimedKeeps ==
    ASSUME NEW s \in Seq(Samples)
    PROVE  /\ Distinct(s) <=> Distinct(Untimed(s))
           /\ \A e : {i \in DOMAIN s : s[i].endpoint = e}
                       = {i \in DOMAIN Untimed(s) : Untimed(s)[i].endpoint = e}
<1> DEFINE u == Untimed(s)
<1>1. DOMAIN s = 1 .. Len(s) /\ DOMAIN u = 1 .. Len(s) /\ \A i \in 1 .. Len(s) : u[i] = Bare(s[i])
  BY UntimedType, LenProperties
<1> HIDE DEF u
<1>2. \A i \in 1 .. Len(s) : u[i].endpoint = s[i].endpoint /\ u[i].body = s[i].body
  BY <1>1 DEF Bare
<1>3. Distinct(s) <=> Distinct(u)
  BY <1>1, <1>2 DEF Distinct
<1>4. \A e : {i \in DOMAIN s : s[i].endpoint = e} = {i \in DOMAIN u : u[i].endpoint = e}
  BY <1>1, <1>2
<1> QED BY <1>3, <1>4 DEF u

-----------------------------------------------------------------------------
(* A spec and what was taken into it.                                      *)

Specs == [samples : Seq(Samples), endpoints : SUBSET Endpoints, messages : Seq(Nat)]

\* The samples are of endpoints that the spec lists, and seen by the time t.
Listed(s, t) ==
    \A i \in 1 .. Len(s.samples) : s.samples[i].endpoint \in s.endpoints /\ s.samples[i].seen <= t

\* The limits, and that what is kept is the newest of what was taken in.
Limited(s) ==
    /\ Distinct(s.samples)
    /\ Len(s.samples) <= MaxTotal /\ Len(s.messages) <= MaxMessages
    /\ MaxPerEndpoint > 1 => \A e \in Endpoints :
          Len(Select(Untimed(s.samples), e, TRUE)) <= MaxPerEndpoint
Newest(s, taken) ==
    \A e \in Endpoints : IsSuffix(Select(Untimed(s.samples), e, TRUE), Select(taken, e, TRUE))

\* The samples without their times are in A.
From(s, A) == Untimed(s.samples) \in Seq(A)

Grown(s, taken, endpoint, body) ==
    IF Known(s, endpoint, body) THEN taken
    ELSE Append(taken, [endpoint |-> endpoint, body |-> body])

\* A sample that is new keeps a spec sound.
LEMMA InsertedSound ==
    ASSUME NEW s \in Specs, NEW taken \in Seq(Kept), NEW t \in Nat, NEW A \in SUBSET Kept,
           Listed(s, t), Limited(s), Newest(s, taken), From(s, A),
           NEW endpoint \in Endpoints, NEW body \in Contents,
           [endpoint |-> endpoint, body |-> body] \in A, ~Known(s, endpoint, body)
    PROVE  LET n == WithSample(s, endpoint, body, t + 1)
               g == Grown(s, taken, endpoint, body)
           IN /\ n \in Specs /\ g \in Seq(Kept)
              /\ Listed(n, t + 1) /\ Limited(n) /\ Newest(n, g) /\ From(n, A)
              /\ \E i \in 1 .. Len(n.samples) : n.samples[i].seen = t + 1
<1> DEFINE item == Sample(endpoint, body, t + 1)
           bare == [endpoint |-> endpoint, body |-> body]
           u == Untimed(s.samples)
           r == Replaced(s.samples, item)
           v == Replaced(u, bare)
           n == WithSample(s, endpoint, body, t + 1)
           g == Grown(s, taken, endpoint, body)
<1>1. /\ s.samples \in Seq(Samples) /\ s.endpoints \in SUBSET Endpoints /\ s.messages \in Seq(Nat)
      /\ s = [samples |-> s.samples, endpoints |-> s.endpoints, messages |-> s.messages]
  BY DEF Specs
<1>2. item \in Samples /\ Bare(item) = bare /\ bare \in Kept
  BY DEF Samples, Kept, Bare, Sample
<1>3. n = [samples |-> r, endpoints |-> s.endpoints \cup {endpoint}, messages |-> s.messages]
  <2>1. n = [s EXCEPT !.endpoints = @ \cup {endpoint}, !.samples = Inserted(@, endpoint, body, t + 1)]
    BY DEF WithSample
  <2>2. Inserted(s.samples, endpoint, body, t + 1) = r
    BY InsertedIsReplaced
  <2> HIDE DEF n, r
  <2> QED BY <1>1, <2>1, <2>2
<1>4. g = Append(taken, bare) /\ g \in Seq(Kept)
  <2>1. g = Append(taken, bare)
    BY DEF Grown
  <2> HIDE DEF g, bare
  <2> QED BY <1>2, <2>1, AppendProperties
<1>5. r \in Seq(Samples) /\ Len(r) \in 1 .. MaxTotal /\ r[Len(r)] = item
  <2> HIDE DEF item
  <2> QED BY <1>1, <1>2, ReplacedType
<1>6. Untimed(r) = v
  <2> HIDE DEF item, bare
  <2> QED BY <1>1, <1>2, UntimedReplaced
<1>7. u \in Seq(Kept) /\ u \in Seq(A)
  BY <1>1, UntimedType DEF From
<1>8. n \in Specs
  <2> HIDE DEF n, r
  <2> QED BY <1>1, <1>3, <1>5 DEF Specs
<1>9. From(n, A)
  <2>1. v \in Seq(A)
    <3> HIDE DEF u, bare
    <3>1. bare \in A
      BY DEF bare
    <3> QED BY <1>7, <3>1, ReplacedType
  <2> HIDE DEF n, r, v
  <2> QED BY <1>3, <1>6, <2>1 DEF From
<1>10. Listed(n, t + 1)
  <2> DEFINE G == {x \in Samples : x.endpoint \in s.endpoints \cup {endpoint} /\ x.seen <= t + 1}
  <2>1. item \in G
    BY <1>2 DEF Sample
  <2>2. s.samples \in Seq(G)
    <3>1. Len(s.samples) \in Nat /\ s.samples \in [1 .. Len(s.samples) -> Samples]
      BY <1>1, LenProperties
    <3>2. \A i \in 1 .. Len(s.samples) : s.samples[i] \in G
      BY <3>1 DEF Listed, Samples
    <3>3. s.samples \in [1 .. Len(s.samples) -> G]
      <4> HIDE DEF G
      <4> QED BY <3>1, <3>2
    <3> HIDE DEF G
    <3> QED BY <3>1, <3>3, SeqDef
  <2>3. r \in Seq(G)
    <3> HIDE DEF G, item
    <3> QED BY <2>1, <2>2, ReplacedType
  <2>4. \A i \in 1 .. Len(r) : r[i] \in G
    <3> HIDE DEF G, r
    <3> QED BY <2>3, ElementOfSeq
  <2> HIDE DEF n, r
  <2> QED BY <1>3, <2>4 DEF Listed
<1>11. Limited(n)
  <2>1. Distinct(u)
    BY <1>1, UntimedKeeps DEF Limited
  <2>2. Absent(bare, u)
    <3>1. DOMAIN s.samples = 1 .. Len(s.samples) /\ Len(u) = Len(s.samples)
          /\ \A i \in 1 .. Len(s.samples) : u[i] = Bare(s.samples[i])
      BY <1>1, LenProperties, UntimedType
    <3>2. \A i \in 1 .. Len(s.samples) : s.samples[i].endpoint # endpoint \/ s.samples[i].body # body
      BY <3>1 DEF Known, Same
    <3>3. \A i \in 1 .. Len(s.samples) : Bare(s.samples[i]).endpoint = s.samples[i].endpoint
                                         /\ Bare(s.samples[i]).body = s.samples[i].body
      BY DEF Bare
    <3>4. bare.endpoint = endpoint /\ bare.body = body
      OBVIOUS
    <3> HIDE DEF u, bare
    <3> QED BY <3>1, <3>2, <3>3, <3>4 DEF Absent, Differ
  <2>3. Distinct(v)
    <3> HIDE DEF u, bare
    <3> QED BY <1>2, <1>7, <2>1, <2>2, ReplacedDistinct
  <2>4. Distinct(r)
    <3> HIDE DEF r, v
    <3> QED BY <1>5, <1>6, <2>3, UntimedKeeps
  <2>5. ASSUME NEW e \in Endpoints, MaxPerEndpoint > 1
        PROVE  Len(Select(v, e, TRUE)) <= MaxPerEndpoint
    <3>1. Len(Select(u, e, TRUE)) <= MaxPerEndpoint
      BY <2>5 DEF Limited
    <3> HIDE DEF u, bare
    <3> QED BY <1>2, <1>7, <2>5, <3>1, ReplacedKeepsNewest
  <2>6. Len(r) <= MaxTotal /\ Len(s.messages) <= MaxMessages
    <3> HIDE DEF r
    <3> QED BY <1>5, SamplesAssumption DEF Limited
  <2> HIDE DEF n, r, v
  <2> QED BY <1>3, <1>6, <2>4, <2>5, <2>6 DEF Limited
<1>12. Newest(n, g)
  <2>1. ASSUME NEW e \in Endpoints
        PROVE  IsSuffix(Select(v, e, TRUE), Select(g, e, TRUE))
    <3>1. IsSuffix(Select(u, e, TRUE), Select(taken, e, TRUE))
      BY DEF Newest
    <3> HIDE DEF u, bare, g
    <3> QED BY <1>2, <1>4, <1>7, <3>1, ReplacedKeepsNewest
  <2> HIDE DEF n, r, v, g
  <2> QED BY <1>3, <1>6, <2>1 DEF Newest
<1>13. \E i \in 1 .. Len(n.samples) : n.samples[i].seen = t + 1
  <2>1. item.seen = t + 1
    BY DEF Sample
  <2> HIDE DEF n, r, item
  <2> QED BY <1>3, <1>5, <2>1
<1> QED BY <1>4, <1>8, <1>9, <1>10, <1>11, <1>12, <1>13

\* So does one that is known,
LEMMA RefreshingSound ==
    ASSUME NEW s \in Specs, NEW taken \in Seq(Kept), NEW t \in Nat, NEW A \in SUBSET Kept,
           Listed(s, t), Limited(s), Newest(s, taken), From(s, A),
           NEW endpoint \in Endpoints, NEW body \in Contents, Known(s, endpoint, body)
    PROVE  LET n == WithSample(s, endpoint, body, t + 1)
               g == Grown(s, taken, endpoint, body)
           IN /\ n \in Specs /\ g \in Seq(Kept)
              /\ Listed(n, t + 1) /\ Limited(n) /\ Newest(n, g) /\ From(n, A)
              /\ \E i \in 1 .. Len(n.samples) : n.samples[i].seen = t + 1
<1> DEFINE r == Refreshed(s.samples, endpoint, body, t + 1)
           n == WithSample(s, endpoint, body, t + 1)
           g == Grown(s, taken, endpoint, body)
<1>1. /\ s.samples \in Seq(Samples) /\ s.endpoints \in SUBSET Endpoints /\ s.messages \in Seq(Nat)
      /\ s = [samples |-> s.samples, endpoints |-> s.endpoints, messages |-> s.messages]
  BY DEF Specs
<1>2. n = [samples |-> r, endpoints |-> s.endpoints \cup {endpoint}, messages |-> s.messages]
  <2>1. n = [s EXCEPT !.endpoints = @ \cup {endpoint}, !.samples = r]
    BY DEF WithSample
  <2> HIDE DEF n, r
  <2> QED BY <1>1, <2>1
<1>3. g = taken
  BY DEF Grown
<1>4. /\ r \in Seq(Samples) /\ Untimed(r) = Untimed(s.samples)
      /\ \A i \in 1 .. Len(r) : r[i].seen \in {s.samples[i].seen, t + 1}
      /\ \E i \in 1 .. Len(r) : r[i].seen = t + 1
  <2>1. Same(s.samples, endpoint, body) # {}
    BY DEF Known
  <2>2. t + 1 \in Nat \ {0}
    OBVIOUS
  <2> QED BY <1>1, <2>1, <2>2, RefreshedSound, SMTT(30)
<1> HIDE DEF r
<1>5. Len(r) = Len(s.samples) /\ \A i \in 1 .. Len(r) : Bare(r[i]) = Bare(s.samples[i])
  <2>1. Len(r) = Len(s.samples)
    BY <1>1, <1>4, UntimedType
  <2>2. \A i \in 1 .. Len(r) : Untimed(r)[i] = Bare(r[i]) /\ Untimed(s.samples)[i] = Bare(s.samples[i])
    BY <1>1, <1>4, <2>1, UntimedType
  <2> QED BY <1>4, <2>1, <2>2
<1>6. n \in Specs
  <2> HIDE DEF n
  <2> QED BY <1>1, <1>2, <1>4 DEF Specs
<1>7. From(n, A)
  BY <1>2, <1>4 DEF From
<1>8. Listed(n, t + 1)
  <2>1. ASSUME NEW i \in 1 .. Len(r)
        PROVE  r[i].endpoint \in s.endpoints /\ r[i].seen <= t + 1
    <3>1. s.samples[i].endpoint \in s.endpoints /\ s.samples[i].seen <= t
      BY <1>5 DEF Listed
    <3>2. r[i].endpoint = s.samples[i].endpoint
      BY <1>5 DEF Bare
    <3>3. s.samples[i] \in Samples
      BY <1>1, <1>5, ElementOfSeq
    <3>4. s.samples[i].seen \in Nat
      BY <3>3 DEF Samples
    <3> QED BY <1>4, <3>1, <3>2, <3>4
  <2> HIDE DEF n
  <2> QED BY <1>2, <2>1 DEF Listed
<1>9. Limited(n)
  <2>1. Distinct(r)
    BY <1>1, <1>4, UntimedKeeps DEF Limited
  <2> HIDE DEF n
  <2> QED BY <1>2, <1>4, <1>5, <2>1 DEF Limited
<1>10. Newest(n, g)
  <2> HIDE DEF n, g
  <2> QED BY <1>2, <1>3, <1>4 DEF Newest
<1>11. \E i \in 1 .. Len(n.samples) : n.samples[i].seen = t + 1
  <2> HIDE DEF n
  <2> QED BY <1>2, <1>4
<1> QED BY <1>3, <1>6, <1>7, <1>8, <1>9, <1>10, <1>11

\* and a WebSocket message.
LEMMA WithMessageSound ==
    ASSUME NEW s \in Specs, NEW taken \in Seq(Kept), NEW t \in Nat, NEW A \in SUBSET Kept,
           Listed(s, t), Limited(s), Newest(s, taken), From(s, A), NEW m \in Nat
    PROVE  LET n == WithMessage(s, m)
           IN /\ n \in Specs /\ n.samples = s.samples
              /\ Listed(n, t) /\ Limited(n) /\ Newest(n, taken) /\ From(n, A)
<1> DEFINE n == WithMessage(s, m)
           l == LastOf(s.messages, MaxMessages - 1)
           new == l \o <<m>>
<1>1. /\ s.samples \in Seq(Samples) /\ s.endpoints \in SUBSET Endpoints /\ s.messages \in Seq(Nat)
      /\ s = [samples |-> s.samples, endpoints |-> s.endpoints, messages |-> s.messages]
  BY DEF Specs
<1>2. n = [samples |-> s.samples, endpoints |-> s.endpoints, messages |-> new]
  <2>1. n = [s EXCEPT !.messages = new]
    BY DEF WithMessage
  <2> HIDE DEF n, new
  <2> QED BY <1>1, <2>1
<1>3. MaxMessages \in Nat /\ MaxMessages - 1 \in Nat /\ MaxMessages - 1 # 0
  BY SamplesAssumption
<1>4. l \in Seq(Nat) /\ Len(l) = IF MaxMessages - 1 = 0 \/ MaxMessages - 1 >= Len(s.messages)
                                 THEN Len(s.messages) ELSE MaxMessages - 1
  BY <1>1, <1>3, LastOfIsSuffix
<1>5. new \in Seq(Nat) /\ Len(new) = Len(l) + 1
  <2> HIDE DEF l
  <2>1. new = Append(l, m)
    BY <1>4, AppendIsConcat
  <2> HIDE DEF new
  <2> QED BY <1>4, <2>1, AppendProperties
<1>6. Len(new) <= MaxMessages
  <2>1. Len(s.messages) \in Nat
    BY <1>1, LenProperties
  <2> HIDE DEF new, l
  <2> QED BY <1>3, <1>4, <1>5, <2>1
<1> HIDE DEF n, new
<1>7. n \in Specs
  BY <1>1, <1>2, <1>5 DEF Specs
<1>8. Listed(n, t)
  BY <1>2 DEF Listed
<1>9. Limited(n)
  BY <1>2, <1>6 DEF Limited
<1>10. Newest(n, taken) /\ From(n, A)
  BY <1>2 DEF Newest, From
<1> QED BY <1>2, <1>7, <1>8, <1>9, <1>10 DEF n

-----------------------------------------------------------------------------
(* The inductive invariant.                                                *)

\* A flow that has asked has a request, one that was answered a response.
Tunnels == [host : Hosts, endpoint : {Nothing}]
FlowsInv ==
    /\ stage \in [Flows -> Stages]
    /\ request \in [Flows -> Requests \cup Tunnels \cup {Nothing}]
    /\ response \in [Flows -> Responses \cup {Nothing}]
    /\ \A f \in Flows : /\ stage[f] \in {"asked", "answered", "open"} => request[f] \in Requests
                        /\ stage[f] = "answered" => response[f] \in Responses

CountsInv ==
    /\ pipelineEnabled \in BOOLEAN
    /\ captured \in Nat /\ skipped \in Nat /\ requests \in Nat /\ frames \in Nat

\* The queue has events of answers that the filter passed and browsers got.
Passed == [host : Hosts \ SkippedHosts, endpoint : Endpoints \ AssetEndpoints, content : Contents]
HttpEvents(got) ==
    {[kind |-> "http", host |-> d.host, endpoint |-> d.endpoint, content |-> d.content] :
        d \in got \cap Passed}
WsEvents == [kind : {"ws"}, host : Hosts, message : Nat]
QueueInv == queue \in Seq(HttpEvents(delivered) \cup WsEvents)

\* What a spec may keep of the answers that browsers got: without the pipeline
\* the body is left out.
Answers(h, got, whole) ==
    {k \in Kept : /\ h \notin SkippedHosts /\ k.endpoint \notin AssetEndpoints
                  /\ \E d \in got : /\ d.host = h /\ d.endpoint = k.endpoint
                                    /\ d.content.status = k.body.status
                                    /\ whole => d.content = k.body}

SpecInv(h) ==
    /\ Listed(spec[h], now) /\ Limited(spec[h]) /\ Newest(spec[h], inserted[h])
    /\ From(spec[h], Answers(h, delivered, pipelineEnabled))
LatestSeen == now > 0 => \E h \in Hosts : \E i \in 1 .. Len(spec[h].samples) :
                              spec[h].samples[i].seen = now
StoreInv ==
    /\ spec \in [Hosts -> Specs] /\ inserted \in [Hosts -> Seq(Kept)] /\ now \in Nat
    /\ \A h \in Hosts : SpecInv(h)
    /\ LatestSeen

IInv == FlowsInv /\ CountsInv /\ QueueInv /\ StoreInv

\* The invariant has what the runs check.
LEMMA InvTypes ==
    ASSUME IInv
    PROVE  HooksTypeOK
<1>1. stage \in [Flows -> Stages]
  BY DEF IInv, FlowsInv
<1>2. ASSUME NEW f \in Flows
      PROVE  /\ stage[f] = "answered" => response[f] \in Responses
             /\ request[f] = Nothing \/ request[f].host \in Hosts
  <2>1. request[f] \in Requests \cup Tunnels \cup {Nothing}
    BY DEF IInv, FlowsInv
  <2>2. request[f] = Nothing \/ request[f].host \in Hosts
    BY <2>1 DEF Requests, Tunnels
  <2> QED BY <2>2 DEF IInv, FlowsInv
<1>3. {captured, skipped, now, requests, frames} \subseteq Nat
  BY DEF IInv, CountsInv, StoreInv
<1>4. ASSUME NEW h \in Hosts, NEW i \in DOMAIN spec[h].samples
      PROVE  LET s == spec[h].samples[i]
             IN s.endpoint \in spec[h].endpoints /\ s.body \in Contents /\ s.seen \in 1..now
  <2>1. spec[h] \in Specs /\ Listed(spec[h], now) /\ now \in Nat
    BY DEF IInv, StoreInv, SpecInv
  <2>2. spec[h].samples \in Seq(Samples)
    BY <2>1 DEF Specs
  <2>3. i \in 1 .. Len(spec[h].samples)
    BY <2>2, LenProperties
  <2>4. spec[h].samples[i] \in Samples
    BY <2>2, <2>3, ElementOfSeq
  <2>5. spec[h].samples[i].body \in Contents /\ spec[h].samples[i].seen \in Nat \ {0}
    BY <2>4 DEF Samples
  <2>6. spec[h].samples[i].endpoint \in spec[h].endpoints /\ spec[h].samples[i].seen <= now
    BY <2>1, <2>3 DEF Listed
  <2> QED BY <2>1, <2>5, <2>6
<1> QED BY <1>1, <1>2, <1>3, <1>4 DEF HooksTypeOK

\* The samples without their times are answers, so the samples are.
LEMMA InvAnswers ==
    ASSUME IInv
    PROVE  SamplesAreAnswers
<1> SUFFICES ASSUME NEW h \in Hosts, NEW i \in DOMAIN spec[h].samples
             PROVE  LET s == spec[h].samples[i]
                    IN /\ h \notin SkippedHosts /\ s.endpoint \notin AssetEndpoints
                       /\ \E d \in delivered :
                             /\ d.host = h /\ d.endpoint = s.endpoint /\ d.content.status = s.body.status
                             /\ pipelineEnabled => d.content = s.body
  BY DEF SamplesAreAnswers
<1> DEFINE A == Answers(h, delivered, pipelineEnabled)
           u == Untimed(spec[h].samples)
<1>1. spec[h] \in Specs /\ u \in Seq(A)
  BY DEF IInv, StoreInv, SpecInv, From
<1>2. spec[h].samples \in Seq(Samples)
  BY <1>1 DEF Specs
<1>3. i \in 1 .. Len(u) /\ u[i] = Bare(spec[h].samples[i])
  BY <1>2, LenProperties, UntimedType
<1>4. u[i] \in A
  <2> HIDE DEF u, A
  <2> QED BY <1>1, <1>3, ElementOfSeq
<1>5. Bare(spec[h].samples[i]).endpoint = spec[h].samples[i].endpoint
      /\ Bare(spec[h].samples[i]).body = spec[h].samples[i].body
  BY DEF Bare
<1>6. Bare(spec[h].samples[i]) \in A
  <2> HIDE DEF u, A
  <2> QED BY <1>3, <1>4
<1> HIDE DEF u
<1> QED BY <1>5, <1>6 DEF Answers

\* What Limited() and Newest() say of lists without times holds with them.
LEMMA InvSamples ==
    ASSUME IInv
    PROVE  SamplesSound
<1>1. ASSUME NEW h \in Hosts PROVE Distinct(spec[h].samples) /\ WithinLimits(h) /\ NewestKept(h)
  <2>1. spec[h] \in Specs /\ Limited(spec[h]) /\ Newest(spec[h], inserted[h])
    BY DEF IInv, StoreInv, SpecInv
  <2>2. spec[h].samples \in Seq(Samples)
    BY <2>1 DEF Specs
  <2>3. NewestKept(h)
    BY <2>1 DEF NewestKept, Newest
  <2>4. ASSUME MaxPerEndpoint > 1, NEW e \in Endpoints
        PROVE  Cardinality({i \in DOMAIN spec[h].samples : spec[h].samples[i].endpoint = e}) <= MaxPerEndpoint
    <3> DEFINE u == Untimed(spec[h].samples)
    <3>1. u \in Seq(Kept)
      BY <2>2, UntimedType
    <3>2. {i \in DOMAIN spec[h].samples : spec[h].samples[i].endpoint = e} = {i \in DOMAIN u : u[i].endpoint = e}
      BY <2>2, UntimedKeeps
    <3>3. Len(Select(u, e, TRUE)) <= MaxPerEndpoint
      BY <2>1, <2>4 DEF Limited
    <3>4. Cardinality({i \in DOMAIN u : u[i].endpoint = e}) = Len(Select(u, e, TRUE))
      <4> HIDE DEF u
      <4> QED BY <3>1, CountIsLength
    <3> HIDE DEF u
    <3> QED BY <3>2, <3>3, <3>4
  <2>5. WithinLimits(h)
    BY <2>1, <2>4 DEF WithinLimits, Limited
  <2> QED BY <2>1, <2>3, <2>5 DEF Limited
<1>2. LatestKept
  <2>1. ASSUME now > 0
        PROVE  \E h \in Hosts : \E i \in DOMAIN spec[h].samples : spec[h].samples[i].seen = now
    <3>1. PICK h \in Hosts : \E i \in 1 .. Len(spec[h].samples) : spec[h].samples[i].seen = now
      BY <2>1 DEF IInv, StoreInv, LatestSeen
    <3>2. spec[h].samples \in Seq(Samples)
      BY DEF IInv, StoreInv, Specs
    <3>3. DOMAIN spec[h].samples = 1 .. Len(spec[h].samples)
      BY <3>2, LenProperties
    <3> QED BY <3>1, <3>3
  <2> QED BY <2>1 DEF LatestKept
<1> QED BY <1>1, <1>2 DEF SamplesSound

-----------------------------------------------------------------------------
(* The initial state, and parts of the invariant that a step leaves.       *)

\* The initial states satisfy the invariant.
LEMMA InitInv ==
    ASSUME Init
    PROVE  IInv
<1>1. FlowsInv
  BY DEF Init, FlowsInv, Stages
<1>2. CountsInv /\ QueueInv
  BY DEF Init, CountsInv, QueueInv
<1>3. ASSUME NEW h \in Hosts PROVE spec[h] = EmptySpec /\ inserted[h] = <<>>
  BY DEF Init
<1>4. EmptySpec \in Specs /\ <<>> \in Seq(Samples) /\ <<>> \in Seq(Kept)
  BY DEF EmptySpec, Specs
<1>5. Untimed(<<>>) = <<>>
  BY <1>4, UntimedType, EmptySeq
<1>6. Len(<<>>) = 0
  OBVIOUS
<1>7. ASSUME NEW h \in Hosts PROVE SpecInv(h)
  <2>1. spec[h].samples = <<>> /\ spec[h].messages = <<>> /\ inserted[h] = <<>>
    BY <1>3 DEF EmptySpec
  <2>2. Listed(spec[h], now)
    BY <1>6, <2>1 DEF Listed
  <2>3. Distinct(<<>>)
    BY <1>4, <1>6, LenProperties DEF Distinct
  <2>4. \A e : Select(<<>>, e, TRUE) = <<>>
    <3>1. \A own : \A e : Select(<<>>, e, own) = <<>>
      BY SelectEmpty
    <3> QED BY <3>1, Zenon
  <2>5. Limited(spec[h])
    <3>1. 0 <= MaxTotal /\ 0 <= MaxMessages /\ (MaxPerEndpoint > 1 => 0 <= MaxPerEndpoint)
      BY SamplesAssumption
    <3>2. \A e : Len(Select(Untimed(spec[h].samples), e, TRUE)) = 0
      BY <1>5, <1>6, <2>1, <2>4
    <3>3. Distinct(spec[h].samples) /\ Len(spec[h].samples) = 0 /\ Len(spec[h].messages) = 0
      BY <1>6, <2>1, <2>3
    <3> QED BY <3>1, <3>2, <3>3 DEF Limited
  <2>6. IsSuffix(<<>>, <<>>)
    BY <1>6, SubSeqFull, <1>4 DEF IsSuffix
  <2>7. Newest(spec[h], inserted[h])
    BY <1>5, <2>1, <2>4, <2>6 DEF Newest
  <2>8. From(spec[h], Answers(h, delivered, pipelineEnabled))
    <3>1. <<>> \in Seq(Answers(h, delivered, pipelineEnabled))
      BY EmptySeq
    <3> QED BY <1>5, <2>1, <3>1 DEF From
  <2> QED BY <2>2, <2>5, <2>7, <2>8 DEF SpecInv
<1>8. StoreInv
  <2>1. spec \in [Hosts -> Specs] /\ inserted \in [Hosts -> Seq(Kept)] /\ now = 0
    BY <1>4 DEF Init
  <2> QED BY <1>7, <2>1 DEF StoreInv, LatestSeen
<1> QED BY <1>1, <1>2, <1>8 DEF IInv

\* More answers, more that the queue and the specs may have.
LEMMA MoreDelivered ==
    ASSUME NEW got, NEW more, got \subseteq more, NEW h, NEW whole
    PROVE  HttpEvents(got) \subseteq HttpEvents(more) /\ Answers(h, got, whole) \subseteq Answers(h, more, whole)
<1>1. HttpEvents(got) \subseteq HttpEvents(more)
  BY DEF HttpEvents
<1>2. Answers(h, got, whole) \subseteq Answers(h, more, whole)
  BY DEF Answers
<1> QED BY <1>1, <1>2

\* The queue as it is, with an event more, and without its first.
LEMMA QueueKept ==
    ASSUME QueueInv, delivered \subseteq delivered', UNCHANGED queue
    PROVE  QueueInv'
<1>1. HttpEvents(delivered) \subseteq HttpEvents(delivered')
  BY MoreDelivered
<1>2. HttpEvents(delivered) \cup WsEvents \subseteq HttpEvents(delivered') \cup WsEvents
  BY <1>1
<1>3. queue \in Seq(HttpEvents(delivered') \cup WsEvents)
  BY <1>2, SeqMonotonic DEF QueueInv
<1> QED BY <1>3 DEF QueueInv

\* An event that is an answer may join the queue.
LEMMA QueueAppended ==
    ASSUME QueueInv, delivered \subseteq delivered', NEW e \in HttpEvents(delivered') \cup WsEvents,
           queue' = Append(queue, e)
    PROVE  QueueInv'
<1>1. HttpEvents(delivered) \subseteq HttpEvents(delivered')
  BY MoreDelivered
<1>2. HttpEvents(delivered) \cup WsEvents \subseteq HttpEvents(delivered') \cup WsEvents
  BY <1>1
<1>3. queue \in Seq(HttpEvents(delivered') \cup WsEvents)
  BY <1>2, SeqMonotonic DEF QueueInv
<1>4. queue' \in Seq(HttpEvents(delivered') \cup WsEvents)
  BY <1>3, AppendProperties
<1> QED BY <1>4 DEF QueueInv

\* The worker may take one.
LEMMA QueueTaken ==
    ASSUME QueueInv, delivered' = delivered, queue # <<>>, queue' = Tail(queue)
    PROVE  QueueInv' /\ Head(queue) \in HttpEvents(delivered) \cup WsEvents
<1> DEFINE E == HttpEvents(delivered) \cup WsEvents
<1>1. queue \in Seq(E)
  BY DEF QueueInv
<1>2. Tail(queue) \in Seq(E) /\ Head(queue) \in E
  <2> HIDE DEF E
  <2> QED BY <1>1, HeadTailProperties
<1> QED BY <1>2 DEF QueueInv

\* A set that has more has what a spec keeps.
LEMMA FromMore ==
    ASSUME NEW s \in Specs, NEW A, NEW B, A \subseteq B, From(s, A)
    PROVE  From(s, B)
BY SeqMonotonic DEF From

\* The specs as they are.
LEMMA StoreKept ==
    ASSUME StoreInv, delivered \subseteq delivered', UNCHANGED <<spec, now, inserted, pipelineEnabled>>
    PROVE  StoreInv'
<1>1. ASSUME NEW h \in Hosts PROVE SpecInv(h)'
  <2>1. Answers(h, delivered, pipelineEnabled) \subseteq Answers(h, delivered', pipelineEnabled)
    BY MoreDelivered
  <2>2. spec[h] \in Specs /\ SpecInv(h)
    BY DEF StoreInv
  <2>3. From(spec[h], Answers(h, delivered', pipelineEnabled))
    BY <2>1, <2>2, FromMore DEF SpecInv
  <2>4. From(spec'[h], Answers(h, delivered', pipelineEnabled'))
    BY <2>3
  <2>5. Listed(spec'[h], now') /\ Limited(spec'[h]) /\ Newest(spec'[h], inserted'[h])
    BY <2>2 DEF SpecInv
  <2>6. SpecInv(h)' <=> (/\ Listed(spec'[h], now') /\ Limited(spec'[h]) /\ Newest(spec'[h], inserted'[h])
                         /\ From(spec'[h], Answers(h, delivered', pipelineEnabled')))
    BY DEF SpecInv
  <2> QED BY <2>4, <2>5, <2>6
<1>2. LatestSeen'
  BY DEF StoreInv, LatestSeen
<1> QED BY <1>1, <1>2 DEF StoreInv

\* update() of a request and its response.
LEMMA UpdatesInv ==
    ASSUME StoreInv, delivered \subseteq delivered', UNCHANGED pipelineEnabled,
           NEW e, e.host \in Hosts, e.endpoint \in Endpoints, e.content \in Contents, Updates(e),
           [endpoint |-> e.endpoint, body |-> e.content] \in Answers(e.host, delivered', pipelineEnabled)
    PROVE  StoreInv'
<1> DEFINE k == e.host
           A(h) == Answers(h, delivered', pipelineEnabled)
           bare == [endpoint |-> e.endpoint, body |-> e.content]
           n == WithSample(spec[k], e.endpoint, e.content, now + 1)
           grown == Grown(spec[k], inserted[k], e.endpoint, e.content)
<1>1. spec \in [Hosts -> Specs] /\ inserted \in [Hosts -> Seq(Kept)] /\ now \in Nat
      /\ k \in Hosts /\ spec[k] \in Specs /\ inserted[k] \in Seq(Kept)
  BY DEF StoreInv
<1>2. ASSUME NEW h \in Hosts
      PROVE  /\ Listed(spec[h], now) /\ Limited(spec[h]) /\ Newest(spec[h], inserted[h])
             /\ From(spec[h], A(h)) /\ A(h) \in SUBSET Kept
  <2>1. Answers(h, delivered, pipelineEnabled) \subseteq A(h)
    BY MoreDelivered
  <2>2. spec[h] \in Specs /\ SpecInv(h)
    BY DEF StoreInv
  <2>3. A(h) \in SUBSET Kept
    BY DEF Answers
  <2>4. From(spec[h], A(h))
    <3> HIDE DEF A
    <3> QED BY <2>1, <2>2, FromMore DEF SpecInv
  <2> QED BY <2>2, <2>3, <2>4 DEF SpecInv
<1>3. bare \in A(k)
  OBVIOUS
<1>4. /\ n \in Specs /\ grown \in Seq(Kept)
      /\ Listed(n, now + 1) /\ Limited(n) /\ Newest(n, grown) /\ From(n, A(k))
      /\ \E i \in 1 .. Len(n.samples) : n.samples[i].seen = now + 1
  <2> DEFINE B == A(k)
  <2>1. /\ Listed(spec[k], now) /\ Limited(spec[k]) /\ Newest(spec[k], inserted[k])
        /\ From(spec[k], B) /\ B \in SUBSET Kept
    <3> HIDE DEF A
    <3> QED BY <1>1, <1>2
  <2>2. bare \in B
    BY <1>3
  <2> DEFINE s == spec[k]
             taken == inserted[k]
             a == e.endpoint
             b == e.content
             Sound(m, l) == /\ m \in Specs /\ l \in Seq(Kept)
                            /\ Listed(m, now + 1) /\ Limited(m) /\ Newest(m, l) /\ From(m, B)
                            /\ \E i \in 1 .. Len(m.samples) : m.samples[i].seen = now + 1
  <2>3. /\ s \in Specs /\ taken \in Seq(Kept) /\ now \in Nat /\ B \in SUBSET Kept
        /\ Listed(s, now) /\ Limited(s) /\ Newest(s, taken) /\ From(s, B)
        /\ a \in Endpoints /\ b \in Contents /\ [endpoint |-> a, body |-> b] \in B
    <3> HIDE DEF B
    <3> QED BY <1>1, <2>1, <2>2
  <2>4. Sound(WithSample(s, a, b, now + 1), Grown(s, taken, a, b))
    <3> HIDE DEF s, taken, a, b, B
    <3>1. CASE Known(s, a, b)
      BY <2>3, <3>1, RefreshingSound, ZenonT(60)
    <3>2. CASE ~Known(s, a, b)
      BY <2>3, <3>2, InsertedSound
    <3> QED BY <3>1, <3>2
  <2> QED BY <2>4
<1> HIDE DEF n, grown, A
<1>5. spec' = [spec EXCEPT ![k] = n] /\ now' = now + 1
  BY DEF Updates, n
<1>6. inserted' = [inserted EXCEPT ![k] = grown]
  <2>1. CASE Known(spec[k], e.endpoint, e.content)
    <3>1. inserted' = inserted /\ grown = inserted[k]
      BY <2>1 DEF Updates, grown, Grown
    <3>2. [inserted EXCEPT ![k] = inserted[k]] = inserted
      BY <1>1
    <3> QED BY <3>1, <3>2
  <2>2. CASE ~Known(spec[k], e.endpoint, e.content)
    BY <2>2 DEF Updates, grown, Grown
  <2> QED BY <2>1, <2>2
<1>7. spec' \in [Hosts -> Specs] /\ inserted' \in [Hosts -> Seq(Kept)] /\ now' \in Nat
  BY <1>1, <1>4, <1>5, <1>6
<1>8. ASSUME NEW h \in Hosts PROVE SpecInv(h)'
  <2>1. CASE h = k
    <3>1. spec'[h] = n /\ inserted'[h] = grown
      BY <1>1, <1>5, <1>6, <2>1
    <3> QED BY <1>4, <1>5, <2>1, <3>1 DEF SpecInv, A
  <2>2. CASE h # k
    <3>1. spec'[h] = spec[h] /\ inserted'[h] = inserted[h]
      BY <1>1, <1>5, <1>6, <2>2
    <3>2. Listed(spec[h], now')
      <4>1. spec[h].samples \in Seq(Samples)
        BY <1>1 DEF Specs
      <4>2. \A i \in 1 .. Len(spec[h].samples) : spec[h].samples[i].seen \in Nat
        <5> SUFFICES ASSUME NEW i \in 1 .. Len(spec[h].samples) PROVE spec[h].samples[i].seen \in Nat
          OBVIOUS
        <5>1. spec[h].samples[i] \in Samples
          BY <4>1, ElementOfSeq
        <5> QED BY <5>1 DEF Samples
      <4> QED BY <1>1, <1>2, <1>5, <4>2 DEF Listed
    <3> QED BY <1>2, <3>1, <3>2 DEF SpecInv, A
  <2> QED BY <2>1, <2>2
<1>9. LatestSeen'
  <2>1. spec'[k] = n
    BY <1>1, <1>5
  <2> QED BY <1>1, <1>4, <1>5, <2>1 DEF LatestSeen
<1> QED BY <1>7, <1>8, <1>9 DEF StoreInv

-----------------------------------------------------------------------------
(* What the hooks do to a flow.                                            *)

\* A flow that is over is ready for the next one.
LEMMA EndsInv ==
    ASSUME FlowsInv, NEW f \in Flows, NEW from, Ends(f, from)
    PROVE  FlowsInv'
<1>1. stage' \in [Flows -> Stages]
  BY DEF Ends, Goes, FlowsInv, Stages
<1>2. request' \in [Flows -> Requests \cup Tunnels \cup {Nothing}] /\ response' \in [Flows -> Responses \cup {Nothing}]
  BY DEF Ends, FlowsInv
<1>3. ASSUME NEW g \in Flows
      PROVE  /\ stage'[g] \in {"asked", "answered", "open"} => request'[g] \in Requests
             /\ stage'[g] = "answered" => response'[g] \in Responses
  <2>1. CASE g = f
    BY <2>1 DEF Ends, Goes, FlowsInv
  <2>2. CASE g # f
    BY <2>2 DEF Ends, Goes, FlowsInv
  <2> QED BY <2>1, <2>2
<1> QED BY <1>1, <1>2, <1>3 DEF FlowsInv

\* A tunnel, a request and an answer keep the flows sound.
LEMMA ConnectInv ==
    ASSUME FlowsInv, NEW f \in Flows, NEW h \in Hosts, Connect(f, h)
    PROVE  FlowsInv' /\ UNCHANGED <<delivered, queue, countVars, storeVars, requests, frames>>
<1>1. UNCHANGED <<delivered, queue, countVars, storeVars, requests, frames>>
  BY DEF Connect
<1>2. CASE Ends(f, "new")
  BY <1>1, <1>2, EndsInv
<1>3. CASE /\ Goes(f, "new", "tunnel") /\ UNCHANGED response
           /\ request' = [request EXCEPT ![f] = [host |-> h, endpoint |-> Nothing]]
  <2>1. [host |-> h, endpoint |-> Nothing] \in Tunnels
    BY DEF Tunnels
  <2>2. stage' \in [Flows -> Stages] /\ request' \in [Flows -> Requests \cup Tunnels \cup {Nothing}]
    BY <1>3, <2>1 DEF Goes, FlowsInv, Stages
  <2>3. ASSUME NEW g \in Flows
        PROVE  /\ stage'[g] \in {"asked", "answered", "open"} => request'[g] \in Requests
               /\ stage'[g] = "answered" => response'[g] \in Responses
    <3>1. CASE g = f
      BY <1>3, <3>1 DEF Goes, FlowsInv
    <3>2. CASE g # f
      BY <1>3, <3>2 DEF Goes, FlowsInv
    <3> QED BY <3>1, <3>2
  <2>4. response' = response
    BY <1>3
  <2> QED BY <1>1, <2>2, <2>3, <2>4 DEF FlowsInv
<1> QED BY <1>2, <1>3 DEF Connect

\* request() of a flow.
LEMMA RequestInv ==
    ASSUME FlowsInv, CountsInv, NEW f \in Flows, NEW r \in Requests, Request(f, r)
    PROVE  FlowsInv' /\ requests' \in Nat
<1>1. requests' \in Nat
  BY DEF Request, CountsInv
<1>2. request' = [request EXCEPT ![f] = r]
  BY DEF Request
<1>3. request' \in [Flows -> Requests \cup Tunnels \cup {Nothing}]
  BY <1>2 DEF FlowsInv
<1>4. Refusal \in Responses
  BY DEF Refusal, Responses, Contents, Statuses
<1>5. PICK to \in {"asked", "answered"} :
         /\ stage' = [stage EXCEPT ![f] = to]
         /\ \/ to = "asked" /\ response' = response
            \/ to = "answered" /\ response' = [response EXCEPT ![f] = Refusal]
  <2>1. PICK resolves \in BOOLEAN :
            IF Allowed(r.host, resolves)
            THEN Goes(f, stage[f], "asked") /\ UNCHANGED response
            ELSE Goes(f, stage[f], "answered") /\ response' = [response EXCEPT ![f] = Refusal]
    BY DEF Request
  <2> QED BY <2>1 DEF Goes
<1>6. stage' \in [Flows -> Stages] /\ response' \in [Flows -> Responses \cup {Nothing}]
  BY <1>4, <1>5 DEF FlowsInv, Stages
<1>7. ASSUME NEW g \in Flows
      PROVE  /\ stage'[g] \in {"asked", "answered", "open"} => request'[g] \in Requests
             /\ stage'[g] = "answered" => response'[g] \in Responses
  <2>1. CASE g = f
    BY <1>2, <1>4, <1>5, <2>1 DEF FlowsInv
  <2>2. CASE g # f
    BY <1>2, <1>5, <2>2 DEF FlowsInv
  <2> QED BY <2>1, <2>2
<1> QED BY <1>1, <1>3, <1>6, <1>7 DEF FlowsInv

\* The answer of the service to a flow.
LEMMA AnswerInv ==
    ASSUME FlowsInv, NEW f \in Flows, Answer(f)
    PROVE  FlowsInv' /\ UNCHANGED <<delivered, queue, countVars, storeVars, requests, frames>>
<1>1. UNCHANGED <<delivered, queue, countVars, storeVars, requests, frames>>
  BY DEF Answer
<1>2. CASE Ends(f, "asked")
  BY <1>1, <1>2, EndsInv
<1>3. CASE ~Ends(f, "asked")
  <2>1. Goes(f, "asked", "answered") /\ UNCHANGED request
    BY <1>3 DEF Answer
  <2>2. PICK r \in Responses : response' = [response EXCEPT ![f] = r]
    BY <1>3 DEF Answer
  <2>3. stage' \in [Flows -> Stages] /\ response' \in [Flows -> Responses \cup {Nothing}]
    BY <2>1, <2>2 DEF Goes, FlowsInv, Stages
  <2>4. ASSUME NEW g \in Flows
        PROVE  /\ stage'[g] \in {"asked", "answered", "open"} => request'[g] \in Requests
               /\ stage'[g] = "answered" => response'[g] \in Responses
    <3>1. CASE g = f
      BY <2>1, <2>2, <3>1 DEF Goes, FlowsInv
    <3>2. CASE g # f
      BY <2>1, <2>2, <3>2 DEF Goes, FlowsInv
    <3> QED BY <3>1, <3>2
  <2> QED BY <1>1, <2>1, <2>3, <2>4 DEF FlowsInv
<1> QED BY <1>2, <1>3

\* A response that passes was asked for, and the browser has it.
LEMMA PassesInv ==
    ASSUME FlowsInv, NEW f \in Flows, Passes(f)
    PROVE  /\ FlowsInv' /\ delivered \subseteq delivered'
           /\ request[f] \in Requests /\ response[f] \in Responses
           /\ [host |-> request[f].host, endpoint |-> request[f].endpoint,
               content |-> response[f].content] \in delivered'
<1>1. stage[f] = "answered"
  BY DEF Passes, Ends, Goes
<1>2. request[f] \in Requests /\ response[f] \in Responses
  BY <1>1 DEF FlowsInv
<1>3. /\ delivered \subseteq delivered'
      /\ [host |-> request[f].host, endpoint |-> request[f].endpoint,
          content |-> response[f].content] \in delivered'
  BY DEF Passes
<1>4. CASE Ends(f, "answered")
  BY <1>2, <1>3, <1>4, EndsInv
<1>5. CASE Goes(f, "answered", "open") /\ UNCHANGED <<request, response>>
  <2>1. stage' \in [Flows -> Stages]
    BY <1>5 DEF Goes, FlowsInv, Stages
  <2>2. ASSUME NEW g \in Flows
        PROVE  /\ stage'[g] \in {"asked", "answered", "open"} => request'[g] \in Requests
               /\ stage'[g] = "answered" => response'[g] \in Responses
    <3>1. CASE g = f
      BY <1>2, <1>5, <3>1 DEF Goes, FlowsInv
    <3>2. CASE g # f
      BY <1>5, <3>2 DEF Goes, FlowsInv
    <3> QED BY <3>1, <3>2
  <2>3. FlowsInv'
    BY <1>5, <2>1, <2>2 DEF FlowsInv
  <2> QED BY <1>2, <1>3, <2>3
<1> QED BY <1>4, <1>5 DEF Passes

-----------------------------------------------------------------------------
(* Capturing and processing.                                               *)

\* What should_capture_with_config() lets through makes an event of the queue.
LEMMA CapturedEvent ==
    ASSUME FlowsInv, NEW f \in Flows, Passes(f), ShouldCapture(request[f])
    PROVE  /\ HttpEvent(f) \in HttpEvents(delivered')
           /\ HttpEvent(f).host \in Hosts \ SkippedHosts
           /\ HttpEvent(f).endpoint \in Endpoints \ AssetEndpoints
           /\ HttpEvent(f).content \in Contents
<1> DEFINE d == [host |-> request[f].host, endpoint |-> request[f].endpoint, content |-> response[f].content]
<1>1. request[f] \in Requests /\ response[f] \in Responses /\ d \in delivered'
  BY PassesInv
<1>2. d \in Passed
  BY <1>1 DEF Passed, ShouldCapture, Requests, Responses
<1>3. HttpEvent(f) = [kind |-> "http", host |-> d.host, endpoint |-> d.endpoint, content |-> d.content]
  BY DEF HttpEvent
<1>4. d.host \in Hosts \ SkippedHosts /\ d.endpoint \in Endpoints \ AssetEndpoints /\ d.content \in Contents
  BY <1>2 DEF Passed
<1>5. HttpEvent(f) \in HttpEvents(delivered')
  <2> HIDE DEF d
  <2> QED BY <1>1, <1>2, <1>3 DEF HttpEvents
<1>6. HttpEvent(f).host = d.host /\ HttpEvent(f).endpoint = d.endpoint /\ HttpEvent(f).content = d.content
  BY DEF HttpEvent
<1> HIDE DEF d
<1> QED BY <1>4, <1>5, <1>6

\* An answer that is queued was one the browser got.
LEMMA CapturedInv ==
    ASSUME IInv, UNCHANGED pipelineEnabled, NEW f \in Flows, Captured(f)
    PROVE  IInv'
<1>1. FlowsInv' /\ delivered \subseteq delivered'
  BY PassesInv DEF Captured, IInv
<1>2. QueueInv'
  <2>1. HttpEvent(f) \in HttpEvents(delivered') \cup WsEvents
    BY CapturedEvent DEF Captured, IInv
  <2>2. CASE queue' = queue
    BY <1>1, <2>2, QueueKept DEF IInv
  <2>3. CASE queue' = Append(queue, HttpEvent(f))
    BY <1>1, <2>1, <2>3, QueueAppended DEF IInv
  <2> QED BY <2>2, <2>3 DEF Captured
<1>3. StoreInv'
  BY <1>1, StoreKept DEF Captured, storeVars, IInv
<1>4. CountsInv'
  BY DEF IInv, CountsInv, Captured
<1> QED BY <1>1, <1>2, <1>3, <1>4 DEF IInv

\* Without the pipeline the spec is updated at once, with the body left out.
LEMMA CapturedAtOnceInv ==
    ASSUME IInv, UNCHANGED pipelineEnabled, NEW f \in Flows, CapturedAtOnce(f)
    PROVE  IInv'
<1> DEFINE e == WithoutPayload(HttpEvent(f))
           d == [host |-> request[f].host, endpoint |-> request[f].endpoint, content |-> response[f].content]
           b == [endpoint |-> e.endpoint, body |-> e.content]
<1>1. FlowsInv' /\ delivered \subseteq delivered' /\ d \in delivered'
  BY PassesInv DEF CapturedAtOnce, IInv
<1>2. /\ HttpEvent(f).host \in Hosts \ SkippedHosts
      /\ HttpEvent(f).endpoint \in Endpoints \ AssetEndpoints
      /\ HttpEvent(f).content \in Contents
  BY CapturedEvent DEF CapturedAtOnce, IInv
<1>3. HttpEvent(f).host = d.host /\ HttpEvent(f).endpoint = d.endpoint /\ HttpEvent(f).content = d.content
      /\ HttpEvent(f) = [kind |-> "http", host |-> d.host, endpoint |-> d.endpoint, content |-> d.content]
  BY DEF HttpEvent
<1> HIDE DEF d
<1>4. e = [kind |-> "http", host |-> d.host, endpoint |-> d.endpoint,
           content |-> [d.content EXCEPT !.payload = Nothing]]
  <2>1. e = [HttpEvent(f) EXCEPT !.content = [HttpEvent(f).content EXCEPT !.payload = Nothing]]
    BY DEF WithoutPayload
  <2> HIDE DEF e
  <2> QED BY <1>3, <2>1
<1>5. e.host = d.host /\ e.endpoint = d.endpoint /\ e.content = [d.content EXCEPT !.payload = Nothing]
  <2> HIDE DEF e
  <2> QED BY <1>4
<1>6. e.content \in Contents /\ e.content.status = d.content.status
  <2> HIDE DEF e
  <2>1. d.content \in Contents
    BY <1>2, <1>3
  <2>2. [d.content EXCEPT !.payload = Nothing] \in Contents
        /\ [d.content EXCEPT !.payload = Nothing].status = d.content.status
    BY <2>1 DEF Contents
  <2> QED BY <1>5, <2>2
<1>7. Updates(e) /\ pipelineEnabled = FALSE
  BY DEF CapturedAtOnce, IInv, CountsInv
<1> HIDE DEF e
<1>8. b \in Answers(e.host, delivered', pipelineEnabled)
  <2>1. b \in Kept /\ b.endpoint = d.endpoint /\ b.body.status = d.content.status
    BY <1>2, <1>3, <1>5, <1>6 DEF Kept
  <2>2. e.host \notin SkippedHosts /\ b.endpoint \notin AssetEndpoints /\ d.host = e.host
    BY <1>2, <1>3, <1>5, <2>1
  <2> HIDE DEF b
  <2> QED BY <1>1, <1>7, <2>1, <2>2 DEF Answers
<1>9. StoreInv'
  BY <1>1, <1>2, <1>3, <1>5, <1>6, <1>7, <1>8, UpdatesInv DEF IInv
<1>10. QueueInv' /\ CountsInv'
  <2>1. UNCHANGED <<queue, skipped, requests, frames>> /\ captured' = captured + 1
    BY DEF CapturedAtOnce
  <2>2. QueueInv'
    BY <1>1, <2>1, QueueKept DEF IInv
  <2> QED BY <2>1, <2>2 DEF IInv, CountsInv
<1> QED BY <1>1, <1>9, <1>10 DEF IInv

\* A step that captures nothing and only moves a flow on.
LEMMA NothingCaptured ==
    ASSUME IInv, UNCHANGED pipelineEnabled, FlowsInv', delivered \subseteq delivered',
           UNCHANGED <<queue, storeVars>>, CountsInv'
    PROVE  IInv'
<1>1. QueueInv' /\ StoreInv'
  BY QueueKept, StoreKept DEF IInv, storeVars
<1> QED BY <1>1 DEF IInv

\* What response() can do.
LEMMA ResponseInv ==
    ASSUME IInv, UNCHANGED pipelineEnabled, NEW f \in Flows, Response(f)
    PROVE  IInv'
<1>1. CASE RedirectBlocked(f)
  <2>1. FlowsInv'
    BY <1>1, EndsInv DEF RedirectBlocked, IInv
  <2>2. delivered \subseteq delivered'
    BY <1>1 DEF RedirectBlocked
  <2>3. UNCHANGED <<queue, storeVars>> /\ CountsInv'
    BY <1>1 DEF RedirectBlocked, IInv, CountsInv, countVars
  <2> QED BY <2>1, <2>2, <2>3, NothingCaptured
<1>2. CASE Filtered(f)
  <2>1. FlowsInv' /\ delivered \subseteq delivered'
    BY <1>2, PassesInv DEF Filtered, IInv
  <2>2. UNCHANGED <<queue, storeVars>> /\ CountsInv'
    BY <1>2 DEF Filtered, IInv, CountsInv
  <2> QED BY <2>1, <2>2, NothingCaptured
<1>3. CASE Captured(f)
  BY <1>3, CapturedInv
<1>4. CASE CapturedAtOnce(f)
  BY <1>4, CapturedAtOnceInv
<1>5. CASE CaptureRaises(f)
  <2>1. FlowsInv' /\ delivered \subseteq delivered'
    BY <1>5, PassesInv DEF CaptureRaises, IInv
  <2>2. UNCHANGED <<queue, storeVars>> /\ CountsInv'
    BY <1>5 DEF CaptureRaises, IInv, CountsInv, countVars
  <2> QED BY <2>1, <2>2, NothingCaptured
<1> QED BY <1>1, <1>2, <1>3, <1>4, <1>5 DEF Response

\* What websocket_message() can do.
LEMMA FrameInv ==
    ASSUME IInv, UNCHANGED pipelineEnabled, NEW f \in Flows, Frame(f) \/ FrameRaises(f)
    PROVE  IInv'
<1>1. stage[f] = "open" /\ frames' = frames + 1 /\ UNCHANGED <<flowVars, countVars, storeVars, requests>>
  BY DEF Frame, FrameRaises, MayFrame
<1>2. FlowsInv' /\ CountsInv' /\ StoreInv'
  <2>1. FlowsInv'
    BY <1>1 DEF IInv, FlowsInv, flowVars
  <2>2. CountsInv'
    BY <1>1 DEF IInv, CountsInv, countVars
  <2>3. StoreInv'
    BY <1>1, StoreKept DEF IInv, flowVars, storeVars
  <2> QED BY <2>1, <2>2, <2>3
<1>3. QueueInv'
  <2> DEFINE e == [kind |-> "ws", host |-> request[f].host, message |-> frames + 1]
  <2>1. e \in WsEvents
    BY <1>1 DEF WsEvents, IInv, FlowsInv, CountsInv, Requests
  <2>2. delivered' = delivered
    BY <1>1 DEF flowVars
  <2>3. queue' = queue \/ queue' = Append(queue, e)
    BY DEF Frame, FrameRaises
  <2> HIDE DEF e
  <2> QED BY <2>1, <2>2, <2>3, QueueKept, QueueAppended DEF IInv
<1> QED BY <1>2, <1>3 DEF IInv

\* The worker takes an event off the queue and updates the spec of its host:
LEMMA ProcessHttpInv ==
    ASSUME IInv, UNCHANGED pipelineEnabled, ProcessHttp
    PROVE  IInv'
<1> DEFINE e == Head(queue)
           b == [endpoint |-> e.endpoint, body |-> e.content]
<1>1. delivered' = delivered /\ FlowsInv' /\ CountsInv'
  <2>1. UNCHANGED <<flowVars, countVars, requests, frames>>
    BY DEF ProcessHttp
  <2>2. FlowsInv'
    BY <2>1 DEF IInv, FlowsInv, flowVars
  <2>3. CountsInv'
    BY <2>1 DEF IInv, CountsInv, countVars
  <2> QED BY <2>1, <2>2, <2>3 DEF flowVars
<1>2. QueueInv' /\ e \in HttpEvents(delivered) \cup WsEvents
  BY <1>1, QueueTaken DEF ProcessHttp, IInv
<1>3. e.kind = "http" /\ Updates(e)
  BY DEF ProcessHttp
<1> HIDE DEF e
<1>4. e \in HttpEvents(delivered)
  BY <1>2, <1>3 DEF WsEvents
<1>5. PICK d \in delivered \cap Passed :
         e = [kind |-> "http", host |-> d.host, endpoint |-> d.endpoint, content |-> d.content]
  BY <1>4 DEF HttpEvents
<1>6. e.host = d.host /\ e.endpoint = d.endpoint /\ e.content = d.content /\ d \in delivered
  BY <1>5
<1>7. e.host \in Hosts \ SkippedHosts /\ e.endpoint \in Endpoints \ AssetEndpoints /\ e.content \in Contents
  BY <1>5, <1>6 DEF Passed
<1>8. b \in Answers(e.host, delivered', pipelineEnabled)
  <2>1. b \in Kept /\ b.endpoint = e.endpoint /\ b.body = e.content
    BY <1>7 DEF Kept
  <2> HIDE DEF b
  <2> QED BY <1>1, <1>6, <1>7, <2>1 DEF Answers
<1>9. StoreInv'
  BY <1>1, <1>3, <1>7, <1>8, UpdatesInv DEF IInv
<1> QED BY <1>1, <1>2, <1>9 DEF IInv

\* a message leaves the samples alone,
LEMMA ProcessWsInv ==
    ASSUME IInv, UNCHANGED pipelineEnabled, ProcessWs
    PROVE  IInv'
<1> DEFINE e == Head(queue)
           k == e.host
           n == WithMessage(spec[k], e.message)
<1>1. /\ delivered' = delivered /\ FlowsInv' /\ CountsInv' /\ UNCHANGED <<now, inserted>>
      /\ e.kind = "ws" /\ spec' = [spec EXCEPT ![k] = n]
  <2>1. UNCHANGED <<flowVars, countVars, now, inserted, requests, frames>>
    BY DEF ProcessWs
  <2>2. FlowsInv'
    BY <2>1 DEF IInv, FlowsInv, flowVars
  <2>3. CountsInv'
    BY <2>1 DEF IInv, CountsInv, countVars
  <2>4. e.kind = "ws" /\ spec' = [spec EXCEPT ![k] = n]
    BY DEF ProcessWs
  <2> QED BY <2>1, <2>2, <2>3, <2>4 DEF flowVars
<1>2. QueueInv' /\ e \in HttpEvents(delivered) \cup WsEvents
  BY <1>1, QueueTaken DEF ProcessWs, IInv
<1> HIDE DEF e
<1>3. k \in Hosts /\ e.message \in Nat
  <2>1. e \in WsEvents
    BY <1>1, <1>2 DEF HttpEvents
  <2> QED BY <2>1 DEF WsEvents
<1>4. /\ spec \in [Hosts -> Specs] /\ inserted \in [Hosts -> Seq(Kept)] /\ now \in Nat
      /\ \A h \in Hosts : SpecInv(h)
  BY DEF IInv, StoreInv
<1>5. /\ n \in Specs /\ n.samples = spec[k].samples
      /\ Listed(n, now) /\ Limited(n) /\ Newest(n, inserted[k])
      /\ From(n, Answers(k, delivered, pipelineEnabled))
  <2> DEFINE A == Answers(k, delivered, pipelineEnabled)
             s == spec[k]
             m == e.message
             taken == inserted[k]
  <2>1. /\ s \in Specs /\ taken \in Seq(Kept) /\ m \in Nat
        /\ Listed(s, now) /\ Limited(s) /\ Newest(s, taken) /\ From(s, A)
    BY <1>3, <1>4 DEF SpecInv
  <2>2. A \in SUBSET Kept
    BY DEF Answers
  <2>3. /\ WithMessage(s, m) \in Specs /\ WithMessage(s, m).samples = s.samples
        /\ Listed(WithMessage(s, m), now) /\ Limited(WithMessage(s, m))
        /\ Newest(WithMessage(s, m), taken) /\ From(WithMessage(s, m), A)
    <3> HIDE DEF A, s, m, taken, k
    <3> QED BY <1>4, <2>1, <2>2, WithMessageSound
  <2> QED BY <2>3
<1> HIDE DEF n, k
<1>6. spec' \in [Hosts -> Specs] /\ spec'[k] = n /\ \A h \in Hosts : h # k => spec'[h] = spec[h]
  BY <1>1, <1>3, <1>4, <1>5
<1>7. ASSUME NEW h \in Hosts PROVE SpecInv(h)'
  <2>1. CASE h = k
    BY <1>1, <1>5, <1>6, <2>1 DEF SpecInv
  <2>2. CASE h # k
    BY <1>1, <1>4, <1>6, <2>2 DEF SpecInv
  <2> QED BY <2>1, <2>2
<1>8. LatestSeen'
  <2>1. \A h \in Hosts : spec'[h].samples = spec[h].samples
    BY <1>5, <1>6
  <2> QED BY <1>1, <2>1 DEF LatestSeen, IInv, StoreInv
<1>9. StoreInv'
  BY <1>1, <1>4, <1>6, <1>7, <1>8 DEF StoreInv
<1> QED BY <1>1, <1>2, <1>9 DEF IInv

\* and an event whose processing fails is gone.
LEMMA ProcessRaisesInv ==
    ASSUME IInv, UNCHANGED pipelineEnabled, ProcessRaises
    PROVE  IInv'
<1>1. UNCHANGED <<flowVars, countVars, storeVars, requests, frames>>
  BY DEF ProcessRaises
<1>2. FlowsInv'
  BY <1>1 DEF IInv, FlowsInv, flowVars
<1>3. CountsInv'
  BY <1>1 DEF IInv, CountsInv, countVars
<1>4. StoreInv'
  BY <1>1, StoreKept DEF IInv, flowVars, storeVars
<1>5. QueueInv'
  BY <1>1, QueueTaken DEF ProcessRaises, IInv, flowVars
<1> QED BY <1>2, <1>3, <1>4, <1>5 DEF IInv

\* A step of a flow keeps the invariant,
LEMMA FlowInv ==
    ASSUME IInv, UNCHANGED pipelineEnabled, NEW f \in Flows, Flow(f)
    PROVE  IInv'
<1>1. ASSUME NEW h \in Hosts, Connect(f, h) PROVE IInv'
  <2>1. FlowsInv' /\ UNCHANGED <<delivered, queue, countVars, storeVars, requests, frames>>
    BY <1>1, ConnectInv DEF IInv
  <2>2. CountsInv'
    BY <2>1 DEF IInv, CountsInv, countVars
  <2> QED BY <2>1, <2>2, NothingCaptured
<1>2. ASSUME NEW r \in Requests, Request(f, r) PROVE IInv'
  <2>1. FlowsInv' /\ requests' \in Nat
    BY <1>2, RequestInv DEF IInv
  <2>2. UNCHANGED <<delivered, queue, countVars, storeVars, frames>>
    BY <1>2 DEF Request
  <2>3. CountsInv'
    BY <2>1, <2>2 DEF IInv, CountsInv, countVars
  <2> QED BY <2>1, <2>2, <2>3, NothingCaptured
<1>3. ASSUME Answer(f) PROVE IInv'
  <2>1. FlowsInv' /\ UNCHANGED <<delivered, queue, countVars, storeVars, requests, frames>>
    BY <1>3, AnswerInv DEF IInv
  <2>2. CountsInv'
    BY <2>1 DEF IInv, CountsInv, countVars
  <2> QED BY <2>1, <2>2, NothingCaptured
<1>4. ASSUME Disconnect(f) PROVE IInv'
  <2>1. FlowsInv'
    BY <1>4, EndsInv DEF Disconnect, IInv
  <2>2. UNCHANGED <<delivered, queue, countVars, storeVars, requests, frames>>
    BY <1>4 DEF Disconnect
  <2>3. CountsInv'
    BY <2>2 DEF IInv, CountsInv, countVars
  <2> QED BY <2>1, <2>2, <2>3, NothingCaptured
<1> QED BY <1>1, <1>2, <1>3, <1>4, ResponseInv, FrameInv DEF Flow

\* and so does every step.
LEMMA StepInv ==
    ASSUME IInv, [Next]_vars
    PROVE  IInv'
<1>1. CASE Next
  BY <1>1, FlowInv, ProcessHttpInv, ProcessWsInv, ProcessRaisesInv DEF Next
<1>2. CASE UNCHANGED vars
  <2>1. UNCHANGED <<pipelineEnabled, flowVars, queue, countVars, storeVars, requests, frames>>
    BY <1>2 DEF vars
  <2>2. FlowsInv' /\ CountsInv'
    BY <2>1 DEF IInv, FlowsInv, CountsInv, flowVars, countVars
  <2> QED BY <2>1, <2>2, NothingCaptured DEF flowVars
<1> QED BY <1>1, <1>2

-----------------------------------------------------------------------------
(* The theorems.                                                           *)

\* The inductive invariant of the hooks, the queue and the specs.
THEOREM Inductive == Spec => []IInv
<1>1. Init => IInv
  BY InitInv
<1>2. IInv /\ [Next]_vars => IInv'
  BY StepInv
<1> QED BY <1>1, <1>2, PTL DEF Spec

\* Each stage of a flow has the request and the response it needs, and the samples
\* of a spec are of endpoints it lists and seen by now.
THEOREM TypeCorrect == Spec => []HooksTypeOK
<1>1. IInv => HooksTypeOK
  BY InvTypes
<1> QED BY <1>1, Inductive, PTL

\* update() keeps the samples of a spec distinct and within the limits, whatever
\* they are; of each endpoint it keeps the newest it ever took in, in order; and
\* the latest answer is always there.
THEOREM SamplesSoundAlways == Spec => []SamplesSound
<1>1. IInv => SamplesSound
  BY InvSamples
<1> QED BY <1>1, Inductive, PTL

\* Each sample is a response that response() found on a request to that host and
\* endpoint and let pass, which the filters let through: the service's, or the
\* 403 of request(); what response() replaces, or puts there, never is one.
THEOREM SamplesAreAnswersAlways == Spec => []SamplesAreAnswers
<1>1. IInv => SamplesAreAnswers
  BY InvAnswers
<1> QED BY <1>1, Inductive, PTL
=============================================================================
