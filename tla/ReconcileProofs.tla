--------------------------- MODULE ReconcileProofs ---------------------------
(***************************************************************************)
(* The engine of Reconcile for every call and any number of exchanges and  *)
(* records: its types, that no record disappears, that a fact_id names one *)
(* fact, and that it gives the answer AccountRead asks for.                *)
(*                                                                         *)
(* The invariant says at every point what has been done with the lines and *)
(* records passed so far, in terms of the call alone: the contract of      *)
(* AccountRead is that invariant at the end.                               *)
(***************************************************************************)
EXTENDS Reconcile, FiniteSetTheorems, TLAPS

Entry(i) == call.lines[i]
BodyOf(i) == Items(call.provider, Entry(i).body)
Recognised(i) == ~Unsupported(call.provider, Entry(i))

\* The records of recognised exchanges, what each says, and the raw fact it becomes.
Records == {r \in UNION {{i} \X DOMAIN BodyOf(i) : i \in Given} :
               Recognised(r[1]) /\ BodyOf(r[1])[r[2]] # Junk}
Said(r) == Reports(call.provider, Entry(r[1]), BodyOf(r[1])[r[2]])
RawFactOf(r, s) == [of |-> r, key |-> <<Entry(r[1]).scope, s.key>>, id |-> s.id,
                    data |-> s.data, at |-> Entry(r[1]).at, source |-> Entry(r[1]).id]
RawFactsOf(r) == {RawFactOf(r, s) : s \in Said(r)}
Keys == {r.key : r \in raw}

\* An exchange that the validator accepts: nothing is wrong with it, and its id is
\* not the one of an earlier exchange that passed the early checks.
Accepted(i) ==
    /\ PassesEarly(Entry(i)) /\ PassesLate(Entry(i))
    /\ \A j \in Given : j < i /\ PassesEarly(Entry(j)) => Entry(j).id # Entry(i).id

SeenBefore(n) == {Entry(i).id : i \in {j \in Given : j < n /\ PassesEarly(Entry(j))}}
RejectedBefore(n) == {<<i, Code(Entry(i))>> : i \in {j \in Given : j < n /\ ~Accepted(j)}}

\* The call has passed the checks that reconcile() made by now.
Answered == pc = "done" /\ answer.outcome # "invalid_input"
Checked ==
    /\ pc \in {"parse", "validate", "adapt", "deduplicate"} \/ Answered => ~BadArguments
    /\ pc \in {"validate", "adapt", "deduplicate"} \/ Answered =>
          ~Unreadable /\ \A i \in Lines : ~NotAnObject(i)
    /\ pc \in {"adapt", "deduplicate"} \/ Answered => \A i \in Given : Accepted(i)

\* Before the adapter and after a refusal there are no facts.
Validating ==
    /\ pc \in {"arguments", "parse", "validate"} \/ (pc = "done" /\ ~Answered) =>
          item = 1 /\ raw = {} /\ pending = {} /\ facts = {}
    /\ pc \in {"arguments", "parse"} => line = 1
    /\ pc \in {"arguments", "parse", "validate"} =>
          /\ seen = SeenBefore(line)
          /\ issues = [NoIssues EXCEPT !.rejected = RejectedBefore(line)]
    /\ seen \subseteq {Entry(i).id : i \in Given}

\* A record the adapter has been at.
Passed(r) == r[1] < line \/ (r[1] = line /\ r[2] < item)

\* What the adapter has made of them.
Adapting ==
    pc \in {"adapt", "deduplicate"} \/ Answered =>
        /\ raw = UNION {RawFactsOf(r) : r \in {q \in Records : Passed(q)}}
        /\ issues.rejected = {}
        /\ issues.unsupported = {i \in Given : i < line /\ ~Recognised(i)}
        /\ issues.malformed = {r \in Records : Passed(r) /\ Said(r) = {}}
        /\ IF line \in Given /\ Recognised(line) THEN item \in 1 .. Len(BodyOf(line)) + 1 ELSE item = 1
        /\ pc # "adapt" => line = Len(call.lines) + 1
        /\ pc = "adapt" => /\ pending = {} /\ facts = {}
                           /\ issues.duplicate = {} /\ issues.conflicting = {} /\ issues.stale = {}

\* Raw facts are finitely many, and those of a key have a latest.
RawFacts ==
    /\ IsFiniteSet(raw)
    /\ \A r \in raw : r.at \in Int
    /\ \A g \in SUBSET raw : g # {} => \E r \in g : \A s \in g : s.at <= r.at

\* What the deduplication has made of the keys it is done with.
Resolved == Keys \ pending
Deduplicating ==
    pc = "deduplicate" \/ Answered =>
        /\ pending \subseteq Keys
        /\ facts = {Merged(Group(k)) : k \in {j \in Resolved : AllIdentical(Group(j))}}
        /\ issues.duplicate = {k \in Resolved : AllIdentical(Group(k)) /\ Cardinality(Group(k)) # 1}
        /\ issues.conflicting = {k \in Resolved : ~AllIdentical(Group(k))}
        /\ pc = "deduplicate" => issues.stale = {}

\* What has been returned.
Returned ==
    /\ (answer = Pending) <=> (pc # "done")
    /\ Answered => /\ pending = {}
                   /\ answer.facts = facts /\ answer.issues = issues

IInv ==
    /\ call \in Calls
    /\ pc \in {"arguments", "parse", "validate", "adapt", "deduplicate", "done"}
    /\ line \in 1 .. Len(call.lines) + 1
    /\ issues = [rejected |-> issues.rejected, unsupported |-> issues.unsupported,
                 malformed |-> issues.malformed, duplicate |-> issues.duplicate,
                 conflicting |-> issues.conflicting, stale |-> issues.stale]
    /\ Checked /\ Validating /\ Adapting /\ RawFacts /\ Deduplicating /\ Returned

-----------------------------------------------------------------------------
(* What the adapters report.                                               *)

\* The fact_id a report's type and data determine, and the native key a fact_id does.
IdOf(type, data) ==
    CASE type = "fill" -> <<type, data[2]>>
      [] type \in {"balance", "equity"} -> <<type, data[1]>>
      [] type = "position" -> <<type, data[1], data[2]>>
      [] OTHER -> <<type, data[1], OrElse(data[2], "0")>>
NativeOf(id) ==
    <<id[1], "native", IF id[1] \in {"fill", "balance", "equity"} THEN <<id[2]>> ELSE <<id[2], id[3]>>>>

\* The families of the two tables of routes.
LEMMA Families ==
    ASSUME NEW p, NEW r \in DOMAIN Routes(p)
    PROVE  Routes(p)[r] \in {"position", "fill", "funding", "balance", "pnl"}
BY DEF Routes, BybitRoutes, LighterRoutes

\* A record is at most two facts; type and data of each determine its fact_id, and but
\* for a key made of content the fact_id determines the key.
LEMMA ReportsSound ==
    ASSUME NEW p, NEW e, NEW rec, ~Unsupported(p, e)
    PROVE  /\ IsFiniteSet(Reports(p, e, rec))
           /\ \A s \in Reports(p, e, rec) :
                 /\ s.id = IdOf(s.key[1], s.data)
                 /\ s.key[2] = "hash" \/ s.key = NativeOf(s.id)
<1> DEFINE family == Routes(p)[e.route]
<1>1. family \in {"position", "fill", "funding", "balance", "pnl"}
  BY Families DEF Unsupported
<1> DEFINE Sound(R) == /\ IsFiniteSet(R)
                       /\ \A s \in R : /\ s.id = IdOf(s.key[1], s.data)
                                       /\ s.key[2] = "hash" \/ s.key = NativeOf(s.id)
<1>2. ASSUME NEW s PROVE IsFiniteSet({}) /\ IsFiniteSet({s})
  BY FS_EmptySet, FS_Singleton
<1>3. ASSUME NEW s, NEW t PROVE IsFiniteSet({s, t})
  <2>1. {s, t} = {s} \cup {t}
    OBVIOUS
  <2> QED BY <2>1, <1>2, FS_AddElement, ZenonT(40)
<1>4. ASSUME NEW side PROVE Sound(PositionReports(rec, side))
  <2> DEFINE symbol == NormalizeAsset(rec.name)
             ref == OrElse(rec.ref, side)
             data == <<symbol, ref, Canonical(rec.value, 0)>>
             report == Report(DedupKey("position", <<symbol, ref>>, data), <<"position", symbol, ref>>, data)
  <2>1. PositionReports(rec, side) \in {{}, {report}}
    BY DEF PositionReports
  <2>2. report.id = IdOf(report.key[1], report.data)
    BY DEF Report, DedupKey, IdOf
  <2>3. report.key[2] = "hash" \/ report.key = NativeOf(report.id)
    BY DEF Report, DedupKey, NativeOf
  <2> HIDE DEF report
  <2> QED BY <2>1, <2>2, <2>3, <1>2
<1>5. Sound(FillReports(rec))
  <2> DEFINE symbol == NormalizeAsset(rec.name)
             data == <<symbol, rec.ref, Canonical(rec.value, 0)>>
             report == Report(DedupKey("fill", <<rec.ref>>, data), <<"fill", rec.ref>>, data)
  <2>1. FillReports(rec) \in {{}, {report}}
    BY DEF FillReports
  <2>2. report.id = IdOf(report.key[1], report.data)
    BY DEF Report, DedupKey, IdOf
  <2>3. report.key[2] = "hash" \/ report.key = NativeOf(report.id)
    BY DEF Report, DedupKey, NativeOf
  <2> HIDE DEF report
  <2> QED BY <2>1, <2>2, <2>3, <1>2
<1>6. Sound(BalanceReports(rec))
  <2> DEFINE coin == NormalizeAsset(rec.name)
             wallet == Canonical(rec.value, 0)
             equity == Canonical(rec.equity, wallet)
             first == Report(DedupKey("balance", <<coin>>, <<>>), <<"balance", coin>>, <<coin, wallet>>)
             second == Report(DedupKey("equity", <<coin>>, <<>>), <<"equity", coin>>, <<coin, equity>>)
  <2>1. BalanceReports(rec) \in {{}, {first, second}}
    BY DEF BalanceReports
  <2>2. first.id = IdOf(first.key[1], first.data) /\ second.id = IdOf(second.key[1], second.data)
    BY DEF Report, DedupKey, IdOf
  <2>3. /\ first.key[2] = "hash" \/ first.key = NativeOf(first.id)
        /\ second.key[2] = "hash" \/ second.key = NativeOf(second.id)
    BY DEF Report, DedupKey, NativeOf
  <2> HIDE DEF first, second
  <2> QED BY <2>1, <2>2, <2>3, <1>2, <1>3
<1>7. ASSUME NEW type \in {"funding", "pnl"} PROVE Sound(TimedReports(type, rec))
  <2> DEFINE symbol == NormalizeAsset(rec.name)
             data == <<symbol, rec.ref, Canonical(rec.value, 0)>>
             native == IF rec.ref = Missing THEN Missing ELSE <<symbol, rec.ref>>
             report == Report(DedupKey(type, native, data), <<type, symbol, OrElse(rec.ref, "0")>>, data)
  <2>1. TimedReports(type, rec) \in {{}, {report}}
    BY DEF TimedReports
  <2>2. report.id = IdOf(report.key[1], report.data)
    BY <1>7 DEF Report, DedupKey, IdOf
  <2>3. report.key[2] = "hash" \/ report.key = NativeOf(report.id)
    BY <1>7 DEF Report, DedupKey, NativeOf, OrElse
  <2> HIDE DEF report
  <2> QED BY <2>1, <2>2, <2>3, <1>2
<1> QED BY <1>1, <1>4, <1>5, <1>6, <1>7 DEF Reports, BybitReports, LighterReports

-----------------------------------------------------------------------------
(* The call.                                                               *)

\* A call has lines of three kinds, and a response body a sequence of entries.
LEMMA CallData ==
    ASSUME call \in Calls
    PROVE  /\ Len(call.lines) \in Nat /\ Lines = 1 .. Len(call.lines)
           /\ Given \subseteq Lines
           /\ \A i \in Lines : call.lines[i].form \in {"blank", "broken", "object"}
           /\ \A i \in Given : /\ Entry(i).at \in Int \cup {Missing} /\ Entry(i).flaws \subseteq Flaws
                               /\ Len(BodyOf(i)) \in Nat /\ DOMAIN BodyOf(i) = 1 .. Len(BodyOf(i))
<1> DEFINE c == call
<1>1. /\ IsSequence(c.lines)
      /\ \A i \in DOMAIN c.lines :
            /\ c.lines[i].form \in {"blank", "broken", "object"}
            /\ c.lines[i].form = "object" => /\ c.lines[i].at \in Int \cup {Missing}
                                             /\ c.lines[i].flaws \subseteq Flaws
                                             /\ IsSequence(c.lines[i].body.items)
  BY CallsAssumption
<1>2. ASSUME NEW s, IsSequence(s) PROVE Len(s) \in Nat /\ DOMAIN s = 1 .. Len(s)
  BY <1>2 DEF IsSequence
<1>3. ASSUME NEW p, NEW b PROVE Items(p, b) = b.items \/ Items(p, b) = <<>>
  BY DEF Items, BybitItems, LighterItems
<1>4. ASSUME NEW i \in Given
      PROVE /\ Entry(i).at \in Int \cup {Missing} /\ Entry(i).flaws \subseteq Flaws
            /\ Len(BodyOf(i)) \in Nat /\ DOMAIN BodyOf(i) = 1 .. Len(BodyOf(i))
  <2>1. /\ c.lines[i].at \in Int \cup {Missing} /\ c.lines[i].flaws \subseteq Flaws
        /\ IsSequence(c.lines[i].body.items)
    BY <1>1 DEF Given, Lines
  <2>2. CASE BodyOf(i) = c.lines[i].body.items
    BY <2>1, <2>2, <1>2 DEF Entry
  <2>3. CASE BodyOf(i) = <<>>
    BY <2>1, <2>3 DEF Entry
  <2> QED BY <2>2, <2>3, <1>3 DEF BodyOf, Entry
<1> QED BY <1>1, <1>2, <1>4 DEF Lines, Given

\* What is said of the call alone stays while the call does.
LEMMA SameCall ==
    ASSUME call' = call
    PROVE  /\ Lines' = Lines /\ Given' = Given /\ Records' = Records
           /\ BadArguments' = BadArguments /\ Unreadable' = Unreadable
           /\ \A i : /\ NotAnObject(i)' = NotAnObject(i) /\ Entry(i)' = Entry(i)
                     /\ BodyOf(i)' = BodyOf(i) /\ Recognised(i)' = Recognised(i)
                     /\ Accepted(i)' = Accepted(i)
           /\ \A r : Said(r)' = Said(r) /\ RawFactsOf(r)' = RawFactsOf(r)
           /\ \A n : SeenBefore(n)' = SeenBefore(n) /\ RejectedBefore(n)' = RejectedBefore(n)
<1>1. /\ Lines' = Lines /\ Given' = Given /\ BadArguments' = BadArguments
      /\ \A i : /\ Entry(i)' = Entry(i) /\ BodyOf(i)' = BodyOf(i) /\ Recognised(i)' = Recognised(i)
                /\ NotAnObject(i)' = NotAnObject(i)
  BY DEF Lines, Given, BadArguments, Entry, BodyOf, Recognised, NotAnObject
<1>2. Unreadable' = Unreadable
  BY <1>1 DEF Unreadable
<1>3. \A r : Said(r)' = Said(r)
  BY DEF Said, Entry, BodyOf
<1>4. \A r : RawFactsOf(r)' = RawFactsOf(r)
  BY <1>3, <1>1 DEF RawFactsOf, RawFactOf
<1>5. Records' = Records
  BY <1>1 DEF Records
<1>6. \A e : PassesEarly(e)' = PassesEarly(e) /\ PassesLate(e)' = PassesLate(e)
  BY DEF PassesEarly, PassesLate, EarlyFlaws, LateFlaws
<1>7. \A i : Accepted(i)' = Accepted(i)
  BY <1>1, <1>6 DEF Accepted
<1>8. \A n : SeenBefore(n)' = SeenBefore(n) /\ RejectedBefore(n)' = RejectedBefore(n)
  BY <1>1, <1>6, <1>7 DEF SeenBefore, RejectedBefore
<1> QED BY <1>1, <1>2, <1>3, <1>4, <1>5, <1>7, <1>8

-----------------------------------------------------------------------------
(* The inductive invariant, action by action.                              *)

\* The initial states satisfy the invariant.
LEMMA InitInv == Init => IInv
<1> SUFFICES ASSUME Init PROVE IInv
  OBVIOUS
<1> USE DEF Init
<1>1. Checked
  BY DEF Checked, Answered
<1>2. 1 \in 1 .. Len(call.lines) + 1
  BY CallData
<1>3. SeenBefore(1) = {} /\ RejectedBefore(1) = {}
  BY CallData DEF SeenBefore, RejectedBefore
<1>4. Validating
  BY <1>3 DEF Validating, Answered, NoIssues
<1>5. Adapting /\ Deduplicating
  BY DEF Adapting, Deduplicating, Answered
<1>6. RawFacts
  BY FS_EmptySet DEF RawFacts
<1>7. Returned
  BY DEF Returned, Answered
<1> QED BY <1>1, <1>2, <1>4, <1>5, <1>6, <1>7 DEF IInv, NoIssues

\* A refusal has returned, with nothing found.
LEMMA RejectReturns ==
    ASSUME NEW problems, Reject(problems)
    PROVE  /\ pc' = "done" /\ answer' # Pending
           /\ answer'.outcome = "invalid_input" /\ answer'.exit = 4
           /\ answer'.facts = {} /\ answer'.issues.rejected = problems
BY DEF Reject, Return, ExitCode, Pending, NoIssues

\* A step that refuses before there are facts keeps the invariant.
LEMMA RejectInv ==
    ASSUME IInv, pc \in {"arguments", "parse", "validate"}, NEW problems, Reject(problems),
           UNCHANGED <<call, item, seen, raw, pending, facts, issues>>,
           line' \in 1 .. Len(call.lines) + 1
    PROVE  IInv'
<1>1. pc' = "done" /\ answer'.outcome = "invalid_input" /\ ~Answered' /\ answer' # Pending
  BY RejectReturns DEF Answered
<1>2. Checked' /\ Adapting' /\ Deduplicating'
  BY <1>1 DEF Checked, Adapting, Deduplicating
<1>3. item = 1 /\ raw = {} /\ pending = {} /\ facts = {} /\ seen \subseteq {Entry(i).id : i \in Given}
  BY DEF IInv, Validating
<1>4. Validating'
  BY <1>1, <1>3, SameCall DEF Validating
<1>5. RawFacts' /\ Returned'
  BY <1>1 DEF RawFacts, Returned, Pending, IInv
<1> QED BY <1>1, <1>2, <1>4, <1>5 DEF IInv

\* Each step keeps it: what the arguments and the JSON are refused for,
LEMMA CheckArgumentsInv == IInv /\ CheckArguments => IInv'
<1> SUFFICES ASSUME IInv, CheckArguments PROVE IInv'
  OBVIOUS
<1>1. /\ pc = "arguments" /\ UNCHANGED <<call, line, item, seen, raw, pending, facts, issues>>
      /\ line \in 1 .. Len(call.lines) + 1 /\ line = 1
  BY DEF IInv, CheckArguments, Validating
<1>2. CASE BadArguments
  BY <1>1, <1>2, RejectInv DEF CheckArguments
<1>3. CASE ~BadArguments
  <2>1. pc' = "parse" /\ UNCHANGED answer /\ ~Answered' /\ ~Answered
    BY <1>1, <1>3 DEF CheckArguments, Answered
  <2>2. Checked' /\ Adapting' /\ Deduplicating'
    BY <1>1, <1>3, <2>1, SameCall DEF Checked, Adapting, Deduplicating
  <2>3. Validating'
    BY <1>1, <2>1, SameCall DEF IInv, Validating, NoIssues
  <2>4. RawFacts' /\ Returned'
    BY <1>1, <2>1 DEF RawFacts, Returned, Pending, IInv
  <2> QED BY <1>1, <2>1, <2>2, <2>3, <2>4 DEF IInv
<1> QED BY <1>2, <1>3

\* lines that are no objects,
LEMMA ParseInv == IInv /\ Parse => IInv'
<1> SUFFICES ASSUME IInv, Parse PROVE IInv'
  OBVIOUS
<1> DEFINE bad == {i \in Lines : NotAnObject(i)}
<1>1. /\ pc = "parse" /\ UNCHANGED <<call, line, item, seen, raw, pending, facts, issues>>
      /\ line \in 1 .. Len(call.lines) + 1 /\ line = 1
  BY DEF IInv, Parse, Validating
<1>2. CASE Unreadable
  BY <1>1, <1>2, RejectInv DEF Parse
<1>3. CASE ~Unreadable /\ bad # {}
  BY <1>1, <1>3, RejectInv DEF Parse
<1>4. CASE ~Unreadable /\ bad = {}
  <2>1. pc' = "validate" /\ UNCHANGED answer /\ ~Answered' /\ ~Answered
    BY <1>1, <1>4 DEF Parse, Answered
  <2>2. Adapting' /\ Deduplicating'
    BY <2>1 DEF Adapting, Deduplicating
  <2>3. Checked'
    BY <1>1, <1>4, <2>1, SameCall DEF IInv, Checked
  <2>4. Validating'
    BY <1>1, <2>1, SameCall DEF IInv, Validating, NoIssues
  <2>5. RawFacts' /\ Returned'
    BY <1>1, <2>1 DEF RawFacts, Returned, Pending, IInv
  <2> QED BY <1>1, <2>1, <2>2, <2>3, <2>4, <2>5 DEF IInv
<1> QED BY <1>2, <1>3, <1>4

\* a line that is validated,
LEMMA ValidateInv == IInv /\ Validate => IInv'
<1> SUFFICES ASSUME IInv, Validate PROVE IInv'
  OBVIOUS
<1>1. /\ pc = "validate" /\ pc' = pc /\ UNCHANGED <<call, item, raw, pending, facts, answer>>
      /\ line \in Lines /\ line' = line + 1
      /\ ~Answered /\ ~Answered'
  BY DEF Validate, Answered
<1>2. line \in Nat /\ line' \in 1 .. Len(call'.lines) + 1
  BY <1>1, CallData DEF IInv
<1>3. /\ item = 1 /\ seen = SeenBefore(line) /\ raw = {} /\ pending = {} /\ facts = {}
      /\ issues = [NoIssues EXCEPT !.rejected = RejectedBefore(line)]
  BY <1>1 DEF IInv, Validating
<1>4. \A i \in Given : i \in Nat /\ (i < line + 1 <=> i < line \/ i = line)
  BY <1>2, CallData DEF IInv
<1>5. seen' = SeenBefore(line + 1) /\ issues' = [NoIssues EXCEPT !.rejected = RejectedBefore(line + 1)]
  <2>1. CASE line \notin Given
    <3>1. UNCHANGED <<seen, issues>>
      BY <1>1, <2>1 DEF Validate, Exchange, Given
    <3>2. SeenBefore(line + 1) = SeenBefore(line) /\ RejectedBefore(line + 1) = RejectedBefore(line)
      BY <1>4, <2>1 DEF SeenBefore, RejectedBefore
    <3> QED BY <1>3, <3>1, <3>2
  <2>2. CASE line \in Given
    <3>1. Exchange = Entry(line) /\ Exchange.form = "object"
      BY <2>2 DEF Exchange, Entry, Given
    <3>2. SeenBefore(line + 1) = IF PassesEarly(Entry(line)) THEN SeenBefore(line) \cup {Entry(line).id}
                                 ELSE SeenBefore(line)
      BY <1>4, <2>2 DEF SeenBefore
    <3>3. RejectedBefore(line + 1) = IF Accepted(line) THEN RejectedBefore(line)
                                     ELSE RejectedBefore(line) \cup {<<line, Code(Entry(line))>>}
      BY <1>4, <2>2 DEF RejectedBefore
    <3>4. Accepted(line) <=> Valid(Entry(line))
      BY <1>3, <1>4 DEF Accepted, Valid, SeenBefore
    <3>5. issues' = IF Valid(Exchange) THEN issues
                    ELSE [issues EXCEPT !.rejected = @ \cup {<<line, Code(Exchange)>>}]
      BY <3>1 DEF Validate
    <3>6. seen' = IF PassesEarly(Exchange) THEN seen \cup {Exchange.id} ELSE seen
      BY <3>1 DEF Validate
    <3>7. issues' = [NoIssues EXCEPT !.rejected = RejectedBefore(line + 1)]
      BY <1>3, <3>1, <3>3, <3>4, <3>5 DEF NoIssues
    <3> QED BY <1>3, <3>1, <3>2, <3>6, <3>7
  <2> QED BY <2>1, <2>2
<1>6. Checked' /\ Adapting' /\ Deduplicating'
  BY <1>1, SameCall DEF IInv, Checked, Adapting, Deduplicating
<1>7. Validating'
  <2>1. SeenBefore(line + 1) \subseteq {Entry(i).id : i \in Given}
    BY DEF SeenBefore
  <2>2. SeenBefore(line)' = SeenBefore(line + 1) /\ RejectedBefore(line)' = RejectedBefore(line + 1)
    BY <1>1, SameCall
  <2> QED BY <1>1, <1>3, <1>5, <2>1, <2>2, SameCall DEF Validating, NoIssues
<1>8. RawFacts' /\ Returned'
  BY <1>1 DEF RawFacts, Returned, Pending, IInv
<1> QED BY <1>1, <1>2, <1>5, <1>6, <1>7, <1>8 DEF IInv, NoIssues

\* After the last line every exchange has been looked at.
LEMMA AllValidated ==
    ASSUME IInv, pc = "validate", line \notin Lines
    PROVE  /\ line = Len(call.lines) + 1
           /\ issues.rejected = {<<i, Code(Entry(i))>> : i \in {j \in Given : ~Accepted(j)}}
           /\ raw = {} /\ item = 1
<1>1. line = Len(call.lines) + 1
  BY CallData DEF IInv
<1>2. RejectedBefore(line) = {<<i, Code(Entry(i))>> : i \in {j \in Given : ~Accepted(j)}}
  BY <1>1, CallData DEF RejectedBefore, IInv
<1> QED BY <1>1, <1>2 DEF IInv, Validating, NoIssues

\* the end of the lines,
LEMMA ValidatedInv == IInv /\ Validated => IInv'
<1> SUFFICES ASSUME IInv, Validated PROVE IInv'
  OBVIOUS
<1>1. /\ pc = "validate" /\ UNCHANGED <<call, item, seen, raw, pending, facts, issues>>
      /\ line \notin Lines /\ line' = 1 /\ 1 \in 1 .. Len(call.lines) + 1
  BY CallData DEF Validated, IInv
<1>2. CASE issues.rejected # {}
  BY <1>1, <1>2, RejectInv DEF Validated
<1>3. CASE issues.rejected = {}
  <2>1. pc' = "adapt" /\ UNCHANGED answer /\ ~Answered' /\ ~Answered
    BY <1>1, <1>3 DEF Validated, Answered
  <2>2. \A i \in Given : Accepted(i)
    BY <1>1, <1>3, AllValidated
  <2>3. Checked'
    BY <1>1, <2>1, <2>2, SameCall DEF IInv, Checked
  <2>4. Validating' /\ Deduplicating'
    BY <1>1, <2>1, SameCall DEF IInv, Validating, Deduplicating
  <2>5. Adapting'
    <3>1. \A r \in Records : ~Passed(r)'
      <4> SUFFICES ASSUME NEW r \in Records PROVE ~Passed(r)'
        OBVIOUS
      <4>1. PICK i \in Given : r \in {i} \X DOMAIN BodyOf(i)
        BY DEF Records
      <4>2. r[1] \in Nat \ {0} /\ r[2] \in Nat \ {0}
        BY <4>1, CallData DEF IInv
      <4> QED BY <4>2, <1>1, AllValidated DEF Passed
    <3>2. 1 \in 1 .. Len(BodyOf(1)) + 1 \/ 1 \notin Given
      BY CallData DEF IInv
    <3>3. raw' = UNION {RawFactsOf(r) : r \in {q \in Records : Passed(q)'}}
      BY <1>1, <3>1, AllValidated
    <3>4. \A i \in Given : ~(i < line')
      BY <1>1, CallData DEF IInv
    <3>5. issues = NoIssues
      BY <1>1, <1>3 DEF IInv, Validating, NoIssues
    <3>6. item = 1 /\ pending = {} /\ facts = {}
      BY <1>1 DEF IInv, Validating
    <3> QED BY <1>1, <2>1, <3>1, <3>2, <3>3, <3>4, <3>5, <3>6, SameCall DEF Adapting, NoIssues
  <2>6. RawFacts' /\ Returned'
    BY <1>1, <2>1 DEF RawFacts, Returned, Pending, IInv
  <2> QED BY <1>1, <2>1, <2>3, <2>4, <2>5, <2>6 DEF IInv
<1> QED BY <1>2, <1>3

\* A record is a pair of an exchange's place and its own.
LEMMA RecordPlace ==
    ASSUME call \in Calls, NEW r \in Records
    PROVE  /\ r = <<r[1], r[2]>> /\ r[1] \in Given /\ Recognised(r[1])
           /\ r[1] \in Nat \ {0} /\ r[2] \in 1 .. Len(BodyOf(r[1])) /\ r[2] \in Nat \ {0}
<1>1. PICK i \in Given : r \in {i} \X DOMAIN BodyOf(i)
  BY DEF Records
<1>2. Recognised(r[1])
  BY DEF Records
<1>3. r = <<r[1], r[2]>> /\ r[1] = i /\ r[2] \in DOMAIN BodyOf(i)
  BY <1>1
<1>4. i \in Nat \ {0} /\ Len(BodyOf(i)) \in Nat /\ DOMAIN BodyOf(i) = 1 .. Len(BodyOf(i))
  BY CallData
<1> QED BY <1>2, <1>3, <1>4

\* What a step of the adapter has to keep: all else is as it was.
LEMMA AdapterStep ==
    ASSUME IInv, pc = "adapt", pc' = "adapt", UNCHANGED <<call, seen, pending, facts, answer>>,
           line' \in 1 .. Len(call.lines) + 1, Adapting', RawFacts',
           \E u, m : issues' = [issues EXCEPT !.unsupported = u, !.malformed = m]
    PROVE  IInv'
<1>1. ~Answered /\ ~Answered'
  BY DEF Answered
<1>2. Checked' /\ Deduplicating' /\ Returned'
  BY <1>1, SameCall DEF IInv, Checked, Deduplicating, Returned, Pending
<1>3. Validating'
  BY <1>1, SameCall DEF IInv, Validating
<1>4. issues' = [rejected |-> issues'.rejected, unsupported |-> issues'.unsupported,
                 malformed |-> issues'.malformed, duplicate |-> issues'.duplicate,
                 conflicting |-> issues'.conflicting, stale |-> issues'.stale]
  <2>1. PICK u, m : issues' = [issues EXCEPT !.unsupported = u, !.malformed = m]
    OBVIOUS
  <2> QED BY <2>1 DEF IInv
<1> QED BY <1>2, <1>3, <1>4 DEF IInv

\* an exchange no adapter supports,
LEMMA GiveUpInv == IInv /\ GiveUp => IInv'
<1> SUFFICES ASSUME IInv, GiveUp PROVE IInv'
  OBVIOUS
<1>1. /\ pc = "adapt" /\ pc' = pc /\ UNCHANGED <<call, item, seen, raw, pending, facts, answer>>
      /\ line \in Given /\ ~Recognised(line) /\ line' = line + 1 /\ line \in Nat
      /\ issues' = [issues EXCEPT !.unsupported = @ \cup {line}]
  BY CallData DEF GiveUp, Lines, Given, Exchange, Entry, Recognised, IInv
<1>2. line' \in 1 .. Len(call.lines) + 1
  BY <1>1, CallData DEF IInv
<1>3. item = 1
  BY <1>1 DEF IInv, Adapting
<1>4. \A r \in Records : Passed(r)' <=> Passed(r)
  <2> SUFFICES ASSUME NEW r \in Records PROVE Passed(r)' <=> Passed(r)
    OBVIOUS
  <2>1. r[1] \in Nat /\ r[2] \in Nat \ {0} /\ r[1] # line
    BY <1>1, RecordPlace DEF IInv
  <2> QED BY <1>1, <1>3, <2>1 DEF Passed
<1>5. \A i \in Given : i \in Nat /\ (i < line + 1 <=> i < line \/ i = line)
  BY <1>1, CallData DEF IInv
<1>6. 1 \in 1 .. Len(BodyOf(line + 1)) + 1 \/ line + 1 \notin Given
  BY CallData DEF IInv
<1>7. Adapting'
  <2>1. raw = UNION {RawFactsOf(r) : r \in {q \in Records : Passed(q)'}}
    BY <1>1, <1>4 DEF IInv, Adapting
  <2>2. issues'.unsupported = {i \in Given : i < line' /\ ~Recognised(i)}
    <3>1. issues'.unsupported = issues.unsupported \cup {line}
      BY <1>1 DEF IInv
    <3>2. issues.unsupported = {i \in Given : i < line /\ ~Recognised(i)}
      BY <1>1 DEF IInv, Adapting
    <3> QED BY <1>1, <1>5, <3>1, <3>2
  <2>3. issues'.malformed = {r \in Records : Passed(r)' /\ Said(r) = {}}
    BY <1>1, <1>4 DEF IInv, Adapting
  <2>4. /\ issues'.rejected = {} /\ issues'.duplicate = {} /\ issues'.conflicting = {} /\ issues'.stale = {}
        /\ pending = {} /\ facts = {}
    BY <1>1 DEF IInv, Adapting
  <2> QED BY <1>1, <1>3, <1>6, <2>1, <2>2, <2>3, <2>4, SameCall DEF Adapting
<1>8. RawFacts'
  BY <1>1 DEF IInv, RawFacts
<1>9. \E u, m : issues' = [issues EXCEPT !.unsupported = u, !.malformed = m]
  <2>1. issues' = [issues EXCEPT !.unsupported = @ \cup {line}, !.malformed = issues.malformed]
    BY <1>1 DEF IInv
  <2> QED BY <2>1
<1> QED BY <1>1, <1>2, <1>7, <1>8, <1>9, AdapterStep

\* an exchange that is done with,
LEMMA NextExchangeInv == IInv /\ NextExchange => IInv'
<1> SUFFICES ASSUME IInv, NextExchange PROVE IInv'
  OBVIOUS
<1>1. /\ pc = "adapt" /\ pc' = pc /\ UNCHANGED <<call, seen, raw, pending, facts, issues, answer>>
      /\ line \in Lines /\ line' = line + 1 /\ line \in Nat /\ item' = 1
      /\ line \in Given => Recognised(line) /\ item \notin DOMAIN BodyOf(line)
  BY CallData DEF NextExchange, Lines, Given, Exchange, Entry, Recognised, Body, BodyOf, IInv
<1>2. line' \in 1 .. Len(call.lines) + 1
  BY <1>1, CallData DEF IInv
<1>3. line \in Given => item = Len(BodyOf(line)) + 1 /\ Len(BodyOf(line)) \in Nat
  BY <1>1, CallData DEF IInv, Adapting
<1>4. \A r \in Records : Passed(r)' <=> Passed(r)
  BY <1>1, <1>3, RecordPlace DEF Passed, IInv
<1>5. \A i \in Given : i \in Nat /\ (i < line + 1 <=> i < line \/ i = line)
  BY <1>1, CallData DEF IInv
<1>6. 1 \in 1 .. Len(BodyOf(line + 1)) + 1 \/ line + 1 \notin Given
  BY CallData DEF IInv
<1>7. Adapting'
  <2>1. raw = UNION {RawFactsOf(r) : r \in {q \in Records : Passed(q)'}}
    BY <1>1, <1>4 DEF IInv, Adapting
  <2>2. issues.unsupported = {i \in Given : i < line' /\ ~Recognised(i)}
    BY <1>1, <1>5 DEF IInv, Adapting
  <2>3. issues.malformed = {r \in Records : Passed(r)' /\ Said(r) = {}}
    BY <1>1, <1>4 DEF IInv, Adapting
  <2>4. /\ issues.rejected = {} /\ issues.duplicate = {} /\ issues.conflicting = {} /\ issues.stale = {}
        /\ pending = {} /\ facts = {}
    BY <1>1 DEF IInv, Adapting
  <2> QED BY <1>1, <1>6, <2>1, <2>2, <2>3, <2>4, SameCall DEF Adapting
<1>8. RawFacts'
  BY <1>1 DEF IInv, RawFacts
<1>9. \E u, m : issues' = [issues EXCEPT !.unsupported = u, !.malformed = m]
  <2>1. issues' = [issues EXCEPT !.unsupported = issues.unsupported, !.malformed = issues.malformed]
    BY <1>1 DEF IInv
  <2> QED BY <2>1
<1> QED BY <1>1, <1>2, <1>7, <1>8, <1>9, AdapterStep

\* a record of an exchange,
LEMMA AdaptInv == IInv /\ Adapt => IInv'
<1> SUFFICES ASSUME IInv, Adapt PROVE IInv'
  OBVIOUS
<1> DEFINE here == <<line, item>>
           said == IF BodyOf(line)[item] = Junk THEN {} ELSE Said(here)
           new == {RawFactOf(here, s) : s \in said}
<1>1. /\ pc = "adapt" /\ pc' = pc /\ UNCHANGED <<call, line, seen, pending, facts, answer>>
      /\ line \in Given /\ Recognised(line) /\ item \in DOMAIN BodyOf(line) /\ item' = item + 1
      /\ line \in Nat /\ item \in 1 .. Len(BodyOf(line)) /\ Len(BodyOf(line)) \in Nat
      /\ line' \in 1 .. Len(call.lines) + 1
  BY CallData DEF Adapt, Lines, Given, Exchange, Entry, Recognised, Body, BodyOf, IInv
<1>2. /\ raw' = raw \cup new
      /\ issues' = IF BodyOf(line)[item] # Junk /\ said = {}
                   THEN [issues EXCEPT !.malformed = @ \cup {here}] ELSE issues
  BY DEF Adapt, Exchange, Entry, Body, BodyOf, Said, RawFactOf
<1>3. here \in Records <=> BodyOf(line)[item] # Junk
  BY <1>1 DEF Records
<1>4. \A r \in Records : Passed(r)' <=> Passed(r) \/ r = here
  <2> SUFFICES ASSUME NEW r \in Records PROVE Passed(r)' <=> Passed(r) \/ r = here
    OBVIOUS
  <2>1. r = <<r[1], r[2]>> /\ r[1] \in Nat /\ r[2] \in Nat
    BY RecordPlace DEF IInv
  <2>2. r = here <=> r[1] = line /\ r[2] = item
    BY <2>1
  <2>3. Passed(r)' <=> r[1] < line \/ (r[1] = line /\ r[2] < item + 1)
    BY <1>1 DEF Passed
  <2> QED BY <1>1, <2>1, <2>2, <2>3 DEF Passed
<1>5. new = IF here \in Records THEN RawFactsOf(here) ELSE {}
  BY <1>3 DEF RawFactsOf
<1>6. IsFiniteSet(new) /\ \A r \in new : r.at = Entry(line).at /\ r.at \in Int
  <2>1. Entry(line).at \in Int
    BY <1>1, CallData DEF IInv, Checked, Accepted, PassesLate
  <2>2. \A s : RawFactOf(here, s).at = Entry(line).at
    BY DEF RawFactOf
  <2>3. IsFiniteSet(said)
    BY <1>1, ReportsSound, FS_EmptySet DEF Said, Recognised
  <2>4. IsFiniteSet(new)
    <3> DEFINE make == [s \in said |-> RawFactOf(here, s)]
    <3>1. make \in Surjection(said, new)
      BY DEF Surjection
    <3> QED BY <2>3, <3>1, FS_Surjection
  <2> QED BY <2>1, <2>2, <2>4
<1>7. RawFacts'
  <2>1. IsFiniteSet(raw \cup new)
    BY <1>6, FS_Union DEF IInv, RawFacts
  <2>2. ASSUME NEW g \in SUBSET (raw \cup new), g # {}
        PROVE  \E r \in g : \A s \in g : s.at <= r.at
    <3>1. CASE g \cap raw = {}
      BY <2>2, <3>1, <1>6
    <3>2. CASE g \cap raw # {}
      <4>1. PICK m \in g \cap raw : \A s \in g \cap raw : s.at <= m.at
        BY <3>2 DEF IInv, RawFacts
      <4>2. m.at \in Int /\ \A s \in g \cap raw : s.at \in Int
        BY <4>1 DEF IInv, RawFacts
      <4>3. CASE \E n \in g \ raw : m.at <= n.at
        <5>1. PICK n \in g \ raw : m.at <= n.at
          BY <4>3
        <5>2. n \in new
          BY <5>1
        <5>3. ASSUME NEW s \in g PROVE s.at <= n.at
          BY <4>1, <4>2, <5>1, <5>2, <1>6
        <5> QED BY <5>1, <5>3
      <4>4. CASE \A n \in g \ raw : ~(m.at <= n.at)
        BY <4>1, <4>2, <4>4, <1>6
      <4> QED BY <4>3, <4>4
    <3> QED BY <3>1, <3>2
  <2> QED BY <1>2, <1>6, <2>1, <2>2 DEF IInv, RawFacts
<1>8. Adapting'
  <2>1. raw' = UNION {RawFactsOf(r) : r \in {q \in Records : Passed(q)'}}
    <3>1. raw = UNION {RawFactsOf(r) : r \in {q \in Records : Passed(q)}}
      BY <1>1 DEF IInv, Adapting
    <3> HIDE DEF here, new
    <3> QED BY <1>2, <1>4, <1>5, <3>1
  <2>2. issues'.malformed = {r \in Records : Passed(r)' /\ Said(r) = {}}
    <3>1. issues.malformed = {r \in Records : Passed(r) /\ Said(r) = {}}
      BY <1>1 DEF IInv, Adapting
    <3>2. issues'.malformed = IF here \in Records /\ Said(here) = {} THEN issues.malformed \cup {here}
                              ELSE issues.malformed
      BY <1>2, <1>3 DEF IInv
    <3> HIDE DEF here
    <3> QED BY <1>4, <3>1, <3>2
  <2>3. /\ issues'.rejected = {} /\ issues'.unsupported = issues.unsupported
        /\ issues'.duplicate = {} /\ issues'.conflicting = {} /\ issues'.stale = {}
        /\ pending = {} /\ facts = {}
    BY <1>1, <1>2 DEF IInv, Adapting
  <2>4. issues.unsupported = {i \in Given : i < line /\ ~Recognised(i)}
    BY <1>1 DEF IInv, Adapting
  <2>5. item' \in 1 .. Len(BodyOf(line)) + 1
    BY <1>1
  <2> QED BY <1>1, <2>1, <2>2, <2>3, <2>4, <2>5, SameCall DEF Adapting
<1>9. \E u, m : issues' = [issues EXCEPT !.unsupported = u, !.malformed = m]
  <2>1. \E m : issues' = [issues EXCEPT !.unsupported = issues.unsupported, !.malformed = m]
    <3>1. CASE issues' = issues
      <4>1. issues' = [issues EXCEPT !.unsupported = issues.unsupported, !.malformed = issues.malformed]
        BY <3>1 DEF IInv
      <4> QED BY <4>1
    <3>2. CASE issues' = [issues EXCEPT !.malformed = @ \cup {here}]
      <4>1. issues' = [issues EXCEPT !.unsupported = issues.unsupported,
                                     !.malformed = issues.malformed \cup {here}]
        BY <3>2 DEF IInv
      <4> QED BY <4>1
    <3> QED BY <1>2, <3>1, <3>2
  <2> QED BY <2>1
<1> QED BY <1>1, <1>7, <1>8, <1>9, AdapterStep

\* the end of the records,
LEMMA AdaptedInv == IInv /\ Adapted => IInv'
<1> SUFFICES ASSUME IInv, Adapted PROVE IInv'
  OBVIOUS
<1>1. /\ pc = "adapt" /\ pc' = "deduplicate" /\ pending' = Keys
      /\ UNCHANGED <<call, line, item, seen, raw, facts, issues, answer>>
      /\ line = Len(call.lines) + 1 /\ ~Answered /\ ~Answered'
  BY CallData DEF Adapted, IInv, Answered, Keys
<1>2. Checked' /\ Validating' /\ Returned' /\ RawFacts'
  BY <1>1, SameCall DEF IInv, Checked, Validating, Returned, RawFacts, Pending
<1>3. Adapting'
  <2>1. \A r : Passed(r)' = Passed(r)
    BY <1>1 DEF Passed
  <2> QED BY <1>1, <2>1, SameCall DEF IInv, Adapting
<1>4. Deduplicating'
  <2>1. Keys' = Keys /\ Resolved' = {}
    BY <1>1 DEF Keys, Resolved
  <2>2. facts = {} /\ issues.duplicate = {} /\ issues.conflicting = {} /\ issues.stale = {}
    BY <1>1 DEF IInv, Adapting
  <2> QED BY <1>1, <2>1, <2>2 DEF Deduplicating
<1> QED BY <1>1, <1>2, <1>3, <1>4 DEF IInv

-----------------------------------------------------------------------------
(* The deduplication.                                                      *)

\* The facts of a key have a latest, and it is one of them.
LEMMA LatestExists ==
    ASSUME RawFacts, NEW g \in SUBSET raw, g # {}
    PROVE  /\ Latest(g) \in g /\ \A s \in g : s.at <= Latest(g).at
           /\ Latest(g).at \in Int
<1>1. \E r \in g : \A s \in g : s.at <= r.at
  BY DEF RawFacts
<1>2. Latest(g) \in g /\ \A s \in g : s.at <= Latest(g).at
  BY <1>1, Zenon DEF Latest
<1> QED BY <1>2 DEF RawFacts

\* The group of a key, its size, and the key of the fact made of it.
LEMMA Groups ==
    ASSUME RawFacts, NEW k \in Keys
    PROVE  /\ Group(k) \in SUBSET raw /\ Group(k) # {} /\ IsFiniteSet(Group(k))
           /\ Cardinality(Group(k)) = 1 => AllIdentical(Group(k))
           /\ Merged(Group(k)).key = k
<1>1. Group(k) \in SUBSET raw /\ Group(k) # {}
  BY DEF Group, Keys
<1>2. IsFiniteSet(Group(k))
  BY <1>1, FS_Subset DEF RawFacts
<1>3. ASSUME Cardinality(Group(k)) = 1 PROVE AllIdentical(Group(k))
  BY <1>2, <1>3, FS_Singleton DEF AllIdentical
<1>4. Latest(Group(k)).key = k
  BY <1>1, LatestExists DEF Group
<1> QED BY <1>1, <1>2, <1>3, <1>4 DEF Merged

\* a group of records of one key,
LEMMA DeduplicateInv == IInv /\ Deduplicate => IInv'
<1> SUFFICES ASSUME IInv, Deduplicate PROVE IInv'
  OBVIOUS
<1> DEFINE k == CHOOSE j \in pending : TRUE
           g == Group(k)
<1>1. /\ pc = "deduplicate" /\ pc' = pc /\ UNCHANGED <<call, line, item, seen, raw, answer>>
      /\ pending' = pending \ {k}
      /\ facts' = IF AllIdentical(g) THEN facts \cup {Merged(g)} ELSE facts
      /\ issues' = IF Cardinality(g) = 1 THEN issues
                   ELSE IF AllIdentical(g) THEN [issues EXCEPT !.duplicate = @ \cup {k}]
                   ELSE [issues EXCEPT !.conflicting = @ \cup {k}]
  BY DEF Deduplicate
<1>2. k \in pending
  BY DEF Deduplicate
<1> HIDE DEF k
<1>3. k \in Keys /\ pending \subseteq Keys
  BY <1>1, <1>2 DEF IInv, Deduplicating
<1>4. ~Answered /\ ~Answered'
  BY <1>1 DEF Answered
<1>5. /\ Keys' = Keys /\ (\A j : Group(j)' = Group(j))
      /\ Resolved' = Resolved \cup {k} /\ k \notin Resolved
  BY <1>1, <1>2, <1>3 DEF Keys, Group, Resolved
<1>6. Cardinality(g) = 1 => AllIdentical(g)
  BY <1>3, Groups DEF IInv
<1>7. /\ issues'.duplicate = IF AllIdentical(g) /\ Cardinality(g) # 1 THEN issues.duplicate \cup {k}
                             ELSE issues.duplicate
      /\ issues'.conflicting = IF AllIdentical(g) THEN issues.conflicting ELSE issues.conflicting \cup {k}
      /\ issues'.rejected = issues.rejected /\ issues'.unsupported = issues.unsupported
      /\ issues'.malformed = issues.malformed /\ issues'.stale = issues.stale
      /\ issues' = [rejected |-> issues'.rejected, unsupported |-> issues'.unsupported,
                    malformed |-> issues'.malformed, duplicate |-> issues'.duplicate,
                    conflicting |-> issues'.conflicting, stale |-> issues'.stale]
  <2>1. issues = [rejected |-> issues.rejected, unsupported |-> issues.unsupported,
                  malformed |-> issues.malformed, duplicate |-> issues.duplicate,
                  conflicting |-> issues.conflicting, stale |-> issues.stale]
    BY DEF IInv
  <2> HIDE DEF g
  <2> QED BY <1>1, <1>6, <2>1
<1>8. Deduplicating'
  <2>1. /\ facts = {Merged(Group(j)) : j \in {i \in Resolved : AllIdentical(Group(i))}}
        /\ issues.duplicate = {j \in Resolved : AllIdentical(Group(j)) /\ Cardinality(Group(j)) # 1}
        /\ issues.conflicting = {j \in Resolved : ~AllIdentical(Group(j))}
        /\ issues.stale = {}
    BY <1>1 DEF IInv, Deduplicating
  <2>2. facts' = {Merged(Group(j)) : j \in {i \in Resolved' : AllIdentical(Group(i))}}
    BY <1>1, <1>5, <2>1
  <2>3. issues'.duplicate = {j \in Resolved' : AllIdentical(Group(j)) /\ Cardinality(Group(j)) # 1}
    BY <1>5, <1>7, <2>1
  <2>4. issues'.conflicting = {j \in Resolved' : ~AllIdentical(Group(j))}
    BY <1>5, <1>7, <2>1
  <2>5. pending' \subseteq Keys' /\ issues'.stale = {}
    BY <1>1, <1>3, <1>5, <1>7, <2>1
  <2>6. \A h : Merged(h)' = Merged(h) /\ AllIdentical(h)' = AllIdentical(h)
    BY DEF Merged, AllIdentical, Latest
  <2> QED BY <1>5, <2>2, <2>3, <2>4, <2>5, <2>6 DEF Deduplicating
<1>9. Checked' /\ Validating' /\ Returned' /\ RawFacts'
  BY <1>1, <1>4, SameCall DEF IInv, Checked, Validating, Returned, RawFacts, Pending
<1>10. Adapting'
  <2>1. \A r : Passed(r)' = Passed(r)
    BY <1>1 DEF Passed
  <2> QED BY <1>1, <1>7, <2>1, SameCall DEF IInv, Adapting
<1> QED BY <1>1, <1>7, <1>8, <1>9, <1>10 DEF IInv

\* The outcome and the exit code that go with what is found.
LEMMA Outcomes ==
    ASSUME NEW p
    PROVE  /\ Outcome(p) \in {"ok", "partial", "unsupported_schema"}
           /\ <<Outcome(p), ExitCode(Outcome(p))>> =
                IF facts = {} /\ p.unsupported # {} THEN <<"unsupported_schema", 3>>
                ELSE IF p.malformed # {} \/ p.conflicting # {} \/ p.unsupported # {}
                THEN <<"partial", 2>> ELSE <<"ok", 0>>
BY DEF Outcome, ExitCode

\* What reconcile() has when it concludes.
LEMMA Concluded ==
    ASSUME IInv, Conclude
    PROVE  /\ pc = "deduplicate" /\ pc' = "done" /\ pending = {} /\ ~Answered /\ Answered'
           /\ UNCHANGED <<call, line, item, seen, raw, pending, facts>>
           /\ issues' = [issues EXCEPT !.stale = {f.key : f \in {g \in facts : IsStale(g)}}]
           /\ issues' = [rejected |-> issues.rejected, unsupported |-> issues.unsupported,
                         malformed |-> issues.malformed, duplicate |-> issues.duplicate,
                         conflicting |-> issues.conflicting,
                         stale |-> {f.key : f \in {g \in facts : IsStale(g)}}]
           /\ answer'.outcome = Outcome(issues') /\ answer'.exit = ExitCode(Outcome(issues'))
           /\ answer'.facts = facts /\ answer'.issues = issues' /\ answer' # Pending
<1>1. /\ pc = "deduplicate" /\ pending = {} /\ UNCHANGED <<call, line, item, seen, raw, pending, facts>>
      /\ issues' = [issues EXCEPT !.stale = {f.key : f \in {g \in facts : IsStale(g)}}]
      /\ Return(Outcome(issues'), facts, issues')
  BY DEF Conclude
<1>2. /\ answer'.outcome = Outcome(issues') /\ answer'.exit = ExitCode(Outcome(issues'))
      /\ answer'.facts = facts /\ answer'.issues = issues' /\ pc' = "done"
  BY <1>1 DEF Return
<1>3. Outcome(issues') \in {"ok", "partial", "unsupported_schema"}
  BY Outcomes
<1>4. issues' = [rejected |-> issues.rejected, unsupported |-> issues.unsupported,
                malformed |-> issues.malformed, duplicate |-> issues.duplicate,
                conflicting |-> issues.conflicting,
                stale |-> {f.key : f \in {g \in facts : IsStale(g)}}]
  <2> DEFINE old == {f.key : f \in {g \in facts : IsStale(g)}}
  <2>1. issues' = [issues EXCEPT !.stale = old]
    BY <1>1
  <2>2. issues = [rejected |-> issues.rejected, unsupported |-> issues.unsupported,
                  malformed |-> issues.malformed, duplicate |-> issues.duplicate,
                  conflicting |-> issues.conflicting, stale |-> issues.stale]
    BY DEF IInv
  <2> HIDE DEF old
  <2>3. issues' = [rejected |-> issues.rejected, unsupported |-> issues.unsupported,
                   malformed |-> issues.malformed, duplicate |-> issues.duplicate,
                   conflicting |-> issues.conflicting, stale |-> old]
    BY <2>1, <2>2
  <2> QED BY <2>3 DEF old
<1>5. ~Answered /\ Answered' /\ answer' # Pending
  BY <1>1, <1>2, <1>3 DEF Answered, Pending
<1> QED BY <1>1, <1>2, <1>4, <1>5

\* and the outcome.
LEMMA ConcludeInv == IInv /\ Conclude => IInv'
<1> SUFFICES ASSUME IInv, Conclude PROVE IInv'
  OBVIOUS
<1>1. Checked' /\ Validating' /\ Returned' /\ RawFacts'
  BY Concluded, SameCall DEF IInv, Checked, Validating, Returned, RawFacts, Pending
<1>2. Adapting'
  <2>1. \A r : Passed(r)' = Passed(r)
    BY Concluded DEF Passed
  <2> QED BY Concluded, <2>1, SameCall DEF IInv, Adapting
<1>3. Deduplicating'
  <2>1. \A h : Merged(h)' = Merged(h) /\ AllIdentical(h)' = AllIdentical(h)
    BY DEF Merged, AllIdentical, Latest
  <2>2. Keys' = Keys /\ (\A j : Group(j)' = Group(j)) /\ Resolved' = Resolved
    BY Concluded DEF Keys, Group, Resolved
  <2> QED BY Concluded, <2>1, <2>2 DEF IInv, Deduplicating
<1> QED BY Concluded, <1>1, <1>2, <1>3 DEF IInv

\* The invariant holds throughout a call.
THEOREM Inductive == Spec => []IInv
<1>1. IInv /\ [Next]_vars => IInv'
  <2> SUFFICES ASSUME IInv, [Next]_vars PROVE IInv'
    OBVIOUS
  <2>1. CASE Next
    BY <2>1, CheckArgumentsInv, ParseInv, ValidateInv, ValidatedInv, GiveUpInv, AdaptInv,
       NextExchangeInv, AdaptedInv, DeduplicateInv, ConcludeInv DEF Next
  <2>2. CASE UNCHANGED vars
    <3>1. \A r : Passed(r)' = Passed(r)
      BY <2>2 DEF Passed, vars
    <3>2. Keys' = Keys /\ (\A j : Group(j)' = Group(j)) /\ Resolved' = Resolved
      BY <2>2 DEF Keys, Group, Resolved, vars
    <3>3. \A h : Merged(h)' = Merged(h) /\ AllIdentical(h)' = AllIdentical(h)
      BY DEF Merged, AllIdentical, Latest
    <3>4. Checked' /\ Validating' /\ Returned' /\ RawFacts'
      BY <2>2, SameCall DEF vars, IInv, Checked, Validating, Returned, RawFacts, Pending, Answered
    <3>5. Adapting'
      BY <2>2, <3>1, SameCall DEF vars, IInv, Adapting, Answered
    <3>6. Deduplicating'
      BY <2>2, <3>2, <3>3 DEF vars, IInv, Deduplicating, Answered
    <3> QED BY <2>2, <3>4, <3>5, <3>6 DEF IInv, vars
  <2> QED BY <2>1, <2>2
<1> QED BY InitInv, <1>1, PTL DEF Spec

-----------------------------------------------------------------------------
(* The properties of the runs.                                             *)

\* When the adapter is done every record is a set of raw facts or malformed.
LEMMA AllAdapted ==
    ASSUME IInv, pc = "deduplicate" \/ Answered
    PROVE  /\ raw = UNION {RawFactsOf(r) : r \in Records}
           /\ issues.malformed = {r \in Records : Said(r) = {}}
           /\ issues.unsupported = {i \in Given : ~Recognised(i)}
           /\ issues.rejected = {}
<1>1. line = Len(call.lines) + 1 /\ Len(call.lines) \in Nat
  BY CallData DEF IInv, Adapting, Answered
<1>2. ASSUME NEW r \in Records PROVE Passed(r)
  BY <1>1, RecordPlace, CallData DEF Passed, IInv
<1>3. \A i \in Given : i < line
  BY <1>1, CallData DEF IInv
<1> QED BY <1>2, <1>3 DEF IInv, Adapting

\* A raw fact is one of a record, and has the fact_id of its type and data; but for a
\* key made of content its fact_id determines its key within the account.
LEMMA RawFactsSound ==
    ASSUME IInv, NEW f \in raw
    PROVE  /\ \E r \in Records : \E s \in Said(r) : f = RawFactOf(r, s)
           /\ f.key = <<f.key[1], f.key[2]>>
           /\ f.id = IdOf(f.key[2][1], f.data)
           /\ f.key[2][2] = "hash" \/ f.key[2] = NativeOf(f.id)
<1>1. raw = {} \/ raw = UNION {RawFactsOf(r) : r \in {q \in Records : Passed(q)}}
  BY DEF IInv, Validating, Adapting, Answered
<1>2. PICK r \in Records : f \in RawFactsOf(r)
  BY <1>1
<1>3. PICK s \in Said(r) : f = RawFactOf(r, s)
  BY <1>2 DEF RawFactsOf
<1>4. ~Unsupported(call.provider, Entry(r[1]))
  BY RecordPlace DEF IInv, Recognised
<1>5. s.id = IdOf(s.key[1], s.data) /\ (s.key[2] = "hash" \/ s.key = NativeOf(s.id))
  BY <1>4, ReportsSound DEF Said
<1>6. f.key = <<Entry(r[1]).scope, s.key>> /\ f.id = s.id /\ f.data = s.data
  BY <1>3 DEF RawFactOf
<1> QED BY <1>3, <1>5, <1>6

\* A fact is made of the group of its key.
LEMMA FactsSound ==
    ASSUME IInv, NEW f \in facts
    PROVE  /\ f.key \in Keys /\ f = Merged(Group(f.key)) /\ AllIdentical(Group(f.key))
           /\ \E r \in Group(f.key) : f.id = r.id
<1>1. pc = "deduplicate" \/ Answered
  BY DEF IInv, Validating, Adapting, Answered
<1>2. PICK k \in Resolved : AllIdentical(Group(k)) /\ f = Merged(Group(k))
  BY <1>1 DEF IInv, Deduplicating
<1>3. k \in Keys /\ f.key = k
  BY <1>2, Groups DEF Resolved, IInv
<1>4. Latest(Group(k)) \in Group(k) /\ f.id = Latest(Group(k)).id
  BY <1>2, <1>3, Groups, LatestExists DEF Merged, IInv
<1> QED BY <1>2, <1>3, <1>4

\* Type correctness.
THEOREM TypeCorrect == Spec => []TypeOK
<1>1. IInv => TypeOK
  <2> SUFFICES ASSUME IInv PROVE TypeOK
    OBVIOUS
  <2>1. item \in Nat \ {0}
    <3>1. CASE pc \in {"adapt", "deduplicate"} \/ Answered
      BY <3>1, CallData DEF IInv, Adapting
    <3>2. CASE ~(pc \in {"adapt", "deduplicate"} \/ Answered)
      BY <3>2 DEF IInv, Validating
    <3> QED BY <3>1, <3>2
  <2>2. raw \subseteq RawFact
    <3> SUFFICES ASSUME NEW f \in raw PROVE f \in RawFact
      OBVIOUS
    <3>0. PICK r \in Records : \E s \in Said(r) : f = RawFactOf(r, s)
      BY RawFactsSound
    <3>1. PICK s \in Said(r) : f = RawFactOf(r, s)
      BY <3>0
    <3>2. r = <<r[1], r[2]>> /\ r[1] \in Given /\ r[1] \in Nat /\ r[2] \in Nat
      BY RecordPlace DEF IInv
    <3>3. f.at \in Int
      BY DEF IInv, RawFacts
    <3>4. f = [of |-> f.of, key |-> f.key, id |-> f.id, data |-> f.data, at |-> f.at, source |-> f.source]
          /\ f.of = r /\ f.source = call.lines[r[1]].id
      BY <3>1 DEF RawFactOf, Entry
    <3>5. r \in Nat \X Nat
      BY <3>2
    <3> QED BY <3>2, <3>3, <3>4, <3>5 DEF RawFact
  <2>3. {f.key : f \in facts} \subseteq Keys
    BY FactsSound
  <2>4. pending \subseteq Keys
    BY DEF IInv, Validating, Adapting, Deduplicating, Answered
  <2>5. seen \subseteq {call.lines[i].id : i \in Given}
    BY DEF IInv, Validating, Entry
  <2> QED BY <2>1, <2>2, <2>3, <2>4, <2>5 DEF TypeOK, IInv, Returned, Keys
<1> QED BY <1>1, Inductive, PTL

\* A fact_id names one fact of an account, unless a record has no native id.
THEOREM FactIdNamesOneAlways == Spec => []FactIdNamesOne
<1>1. IInv => FactIdNamesOne
  <2> SUFFICES ASSUME IInv, NEW f \in facts, NEW g \in facts, f.id = g.id, f.key[1] = g.key[1],
                      "hash" \notin {f.key[2][2], g.key[2][2]}
               PROVE  f = g
    BY DEF FactIdNamesOne
  <2>1. PICK r \in Group(f.key) : f.id = r.id
    BY FactsSound
  <2>2. PICK s \in Group(g.key) : g.id = s.id
    BY FactsSound
  <2>3. r \in raw /\ s \in raw /\ r.key = f.key /\ s.key = g.key
    BY DEF Group
  <2>4. r.key[2] = NativeOf(r.id) /\ s.key[2] = NativeOf(s.id)
    BY <2>3, RawFactsSound
  <2>5. f.key = <<f.key[1], f.key[2]>> /\ g.key = <<g.key[1], g.key[2]>>
    BY <2>3, RawFactsSound
  <2>6. f.key = g.key
    BY <2>1, <2>2, <2>3, <2>4, <2>5
  <2> QED BY <2>6, FactsSound
<1> QED BY <1>1, Inductive, PTL

\* No record of a recognised exchange disappears.
THEOREM EveryRecordAccountedAlways == Spec => []EveryRecordAccounted
<1>1. IInv => EveryRecordAccounted
  <2> SUFFICES ASSUME IInv, Answered, NEW i \in Given, Recognised(i),
                      NEW n \in DOMAIN BodyOf(i), BodyOf(i)[n] # Junk
               PROVE  /\ Said(<<i, n>>) = {} => <<i, n>> \in answer.issues.malformed
                      /\ \A s \in Said(<<i, n>>) :
                           \/ <<Entry(i).scope, s.key>> \in answer.issues.conflicting
                           \/ \E f \in answer.facts :
                                 /\ f.key = <<Entry(i).scope, s.key>> /\ f.data = s.data
                                 /\ Entry(i).id \in f.sources /\ Entry(i).at <= f.at
    BY DEF EveryRecordAccounted, Answered, Recognised, Entry, BodyOf, Said
  <2>1. <<i, n>> \in Records
    BY DEF Records
  <2>2. answer.facts = facts /\ answer.issues = issues /\ pending = {}
    BY DEF IInv, Returned
  <2>3. Said(<<i, n>>) = {} => <<i, n>> \in answer.issues.malformed
    BY <2>1, <2>2, AllAdapted
  <2>4. ASSUME NEW s \in Said(<<i, n>>), <<Entry(i).scope, s.key>> \notin issues.conflicting
        PROVE  \E f \in facts : /\ f.key = <<Entry(i).scope, s.key>> /\ f.data = s.data
                               /\ Entry(i).id \in f.sources /\ Entry(i).at <= f.at
    <3> DEFINE k == <<Entry(i).scope, s.key>>
               r == RawFactOf(<<i, n>>, s)
               f == Merged(Group(k))
    <3>1. r \in raw /\ r.key = k /\ r.data = s.data /\ r.at = Entry(i).at /\ r.source = Entry(i).id
      BY <2>1, AllAdapted DEF RawFactsOf, RawFactOf
    <3>2. k \in Keys /\ r \in Group(k)
      BY <3>1 DEF Keys, Group
    <3>3. AllIdentical(Group(k)) /\ f \in facts
      BY <2>2, <2>4, <3>2 DEF IInv, Deduplicating, Resolved
    <3> HIDE DEF k, r
    <3>4. Latest(Group(k)) \in Group(k) /\ r.at <= Latest(Group(k)).at
      BY <3>2, Groups, LatestExists DEF IInv
    <3>5. f.data = r.data /\ f.at = Latest(Group(k)).at /\ r.source \in f.sources /\ f.key = k
      BY <3>2, <3>3, <3>4, Groups DEF Merged, AllIdentical, IInv
    <3> QED BY <3>1, <3>3, <3>4, <3>5 DEF k
  <2> QED BY <2>2, <2>3, <2>4
<1> QED BY <1>1, Inductive, PTL

-----------------------------------------------------------------------------
(* The contract.                                                           *)

\* The contract speaks of the same adapters, exchanges and records.
LEMMA SameAdapters ==
    /\ \A p, b : Contract!Items(p, b) = Items(p, b)
    /\ \A p, e : Contract!Unsupported(p, e) = Unsupported(p, e)
    /\ \A p, e, rec : Contract!Reports(p, e, rec) = Reports(p, e, rec)
    /\ Contract!Providers = Providers
<1>1. \A p : Contract!Routes(p) = Routes(p)
  BY DEF Routes, BybitRoutes, LighterRoutes, Contract!Routes, Contract!BybitRoutes, Contract!LighterRoutes
<1>2. \A p, b : Contract!Items(p, b) = Items(p, b)
  BY DEF Items, BybitItems, LighterItems, Contract!Items, Contract!BybitItems, Contract!LighterItems
<1>3. \A p, e : Contract!Unsupported(p, e) = Unsupported(p, e)
  BY <1>1 DEF Unsupported, Contract!Unsupported
<1>4. \A t, n, d : Contract!DedupKey(t, n, d) = DedupKey(t, n, d)
  BY DEF DedupKey, Contract!DedupKey
<1>5. \A k, i, d : Contract!Report(k, i, d) = Report(k, i, d)
  BY DEF Report, Contract!Report
<1>6. \A x, d : /\ Contract!NormalizeAsset(x) = NormalizeAsset(x)
                /\ Contract!Canonical(x, d) = Canonical(x, d)
                /\ Contract!OrElse(x, d) = OrElse(x, d)
  BY DEF NormalizeAsset, Contract!NormalizeAsset, Canonical, Contract!Canonical, OrElse, Contract!OrElse
<1>7. \A rec, side : Contract!PositionReports(rec, side) = PositionReports(rec, side)
  BY <1>4, <1>5, <1>6 DEF PositionReports, Contract!PositionReports
<1>8. \A rec : Contract!FillReports(rec) = FillReports(rec)
  BY <1>4, <1>5, <1>6 DEF FillReports, Contract!FillReports
<1>9. \A rec : Contract!BalanceReports(rec) = BalanceReports(rec)
  BY DEF BalanceReports, Contract!BalanceReports, NormalizeAsset, Contract!NormalizeAsset, Canonical,
         Contract!Canonical, DedupKey, Contract!DedupKey, Report, Contract!Report
<1>10. \A type, rec : Contract!TimedReports(type, rec) = TimedReports(type, rec)
  BY <1>4, <1>5, <1>6 DEF TimedReports, Contract!TimedReports
<1>11. \A p, e, rec : Contract!Reports(p, e, rec) = Reports(p, e, rec)
  BY <1>1, <1>7, <1>8, <1>9, <1>10
     DEF Reports, BybitReports, LighterReports, Contract!Reports, Contract!BybitReports, Contract!LighterReports
<1> QED BY <1>2, <1>3, <1>11 DEF Providers, Contract!Providers

\* The contract and the steps mean the same by lines, bodies and records.
LEMMA SameRecords ==
    /\ Contract!Given = Given /\ \A i : Contract!Exchange(i) = Entry(i)
    /\ Contract!Records = Records /\ \A r : Contract!Said(r) = Said(r)
<1>1. Contract!Given = Given /\ \A i : Contract!Exchange(i) = Entry(i)
  BY DEF Contract!Given, Given, Lines, Contract!Exchange, Entry
<1>2. \A i : Contract!Body(i) = BodyOf(i)
  BY <1>1, SameAdapters DEF Contract!Body, BodyOf
<1>3. Contract!Records = Records
  BY <1>1, <1>2, SameAdapters DEF Contract!Records, Records, Recognised
<1>4. \A r : Contract!Said(r) = Said(r)
  BY <1>1, <1>2, SameAdapters DEF Contract!Said, Said
<1> QED BY <1>1, <1>3, <1>4

\* A call keeps the input contract exactly if the arguments are good, there is
\* something to parse, each line may be parsed and each exchange is accepted.
LEMMA Acceptable ==
    ASSUME call \in Calls
    PROVE  Contract!AcceptableCall <=>
             /\ ~BadArguments /\ ~Unreadable /\ \A i \in Lines : ~NotAnObject(i)
             /\ \A i \in Given : Accepted(i)
<1>1. /\ call.source \in {"file", "text", "items", "other"}
      /\ call.readable \in BOOLEAN /\ (call.source # "file" => call.readable)
      /\ call.asOf \in Int \cup {Missing} /\ call.maxAge \in Int /\ call.strict \in BOOLEAN
  BY CallsAssumption
<1>2. (call.provider \in Providers /\ call.maxAge >= 0 /\ call.asOf # Missing) <=> ~BadArguments
  BY <1>1 DEF BadArguments
<1>3. ASSUME NEW i \in Given
      PROVE  Contract!Lawful(Entry(i)) <=> PassesEarly(Entry(i)) /\ PassesLate(Entry(i))
  <2>1. Entry(i).flaws \subseteq Flaws
    BY CallData
  <2>2. Entry(i).flaws \subseteq (IF call.strict THEN {} ELSE {"unknown_field", "unknown_nested"})
        <=> Entry(i).flaws \cap EarlyFlaws = {} /\ Entry(i).flaws \cap LateFlaws = {}
    BY <1>1, <2>1 DEF Flaws, EarlyFlaws, LateFlaws
  <2> QED BY <2>2 DEF Contract!Lawful, PassesEarly, PassesLate
<1>4. (/\ \A i \in Given : Contract!Lawful(Entry(i))
       /\ \A i, j \in Given : Entry(i).id = Entry(j).id => i = j)
      <=> \A i \in Given : Accepted(i)
  <2>1. \A i \in Given : i \in Int
    BY CallData
  <2>2. ASSUME NEW i \in Given, NEW j \in Given, \A k \in Given : Accepted(k), Entry(i).id = Entry(j).id
        PROVE  i = j
    <3>1. PassesEarly(Entry(i)) /\ PassesEarly(Entry(j)) /\ ~(j < i) /\ ~(i < j)
      BY <2>2 DEF Accepted
    <3> QED BY <2>1, <3>1
  <2>3. ASSUME NEW i \in Given, \A j \in Given : Contract!Lawful(Entry(j)),
               \A j, k \in Given : Entry(j).id = Entry(k).id => j = k
        PROVE  Accepted(i)
    BY <1>3, <2>1, <2>3 DEF Accepted
  <2>4. ASSUME NEW i \in Given, Accepted(i) PROVE Contract!Lawful(Entry(i))
    BY <1>3, <2>4 DEF Accepted
  <2> QED BY <2>2, <2>3, <2>4
<1>5. (/\ call.source \in {"file", "text", "items"} /\ call.readable
       /\ \A i \in Lines \ Given : call.lines[i].form = "blank" /\ call.source # "items"
       /\ Given # {} \/ call.source = "items")
      <=> ~Unreadable /\ \A i \in Lines : ~NotAnObject(i)
  <2>1. \A i \in Lines : call.lines[i].form \in {"blank", "broken", "object"}
    BY CallData
  <2> QED BY <1>1, <2>1 DEF Given, Unreadable, NotAnObject
<1> QED BY <1>2, <1>4, <1>5, SameRecords, SameAdapters DEF Contract!AcceptableCall, Lines

\* What the contract says under a key is what the raw facts of the key say.
LEMMA SameSayings ==
    ASSUME IInv, pc = "deduplicate" \/ Answered
    PROVE  /\ Contract!Keys = Keys
           /\ \A k \in Keys :
                 /\ Contract!Agreed(k) <=> AllIdentical(Group(k))
                 /\ (\E s, t \in Contract!Under(k) : s # t) <=> Cardinality(Group(k)) # 1
                 /\ \A s \in Contract!Under(k) : \E r \in Group(k) :
                       /\ r.id = s.id /\ r.data = s.data /\ r.at = Entry(s.of[1]).at /\ r.source = Entry(s.of[1]).id
                 /\ \A r \in Group(k) : \E s \in Contract!Under(k) :
                       /\ r.id = s.id /\ r.data = s.data /\ r.at = Entry(s.of[1]).at /\ r.source = Entry(s.of[1]).id
<1> DEFINE Strip(r) == [of |-> r.of, key |-> r.key, id |-> r.id, data |-> r.data]
<1>1. ASSUME NEW f \in raw PROVE Strip(f) \in Contract!Sayings
  <2>1. PICK r \in Records : f \in RawFactsOf(r)
    BY AllAdapted
  <2>2. PICK s \in Said(r) : f = RawFactOf(r, s)
    BY <2>1 DEF RawFactsOf
  <2>3. Strip(f) = [of |-> r, key |-> <<Entry(r[1]).scope, s.key>>, id |-> s.id, data |-> s.data]
    BY <2>2 DEF RawFactOf
  <2>4. Strip(f) \in Contract!SayingsOf(r)
    BY <2>3, SameRecords DEF Contract!SayingsOf
  <2> QED BY <2>4, SameRecords DEF Contract!Sayings
<1>2. ASSUME NEW t \in Contract!Sayings PROVE \E f \in raw : t = Strip(f)
  <2>1. PICK r \in Records : t \in Contract!SayingsOf(r)
    BY SameRecords DEF Contract!Sayings
  <2>2. PICK s \in Said(r) : t = [of |-> r, key |-> <<Entry(r[1]).scope, s.key>>, id |-> s.id, data |-> s.data]
    BY <2>1, SameRecords DEF Contract!SayingsOf
  <2>3. RawFactOf(r, s) \in raw
    BY AllAdapted DEF RawFactsOf
  <2>4. t = Strip(RawFactOf(r, s))
    BY <2>2 DEF RawFactOf
  <2> QED BY <2>3, <2>4
<1>3. ASSUME NEW f \in raw
      PROVE  /\ f = [of |-> f.of, key |-> f.key, id |-> f.id, data |-> f.data, at |-> f.at, source |-> f.source]
             /\ f.at = Entry(f.of[1]).at /\ f.source = Entry(f.of[1]).id
  <2>1. PICK r \in Records : f \in RawFactsOf(r)
    BY AllAdapted
  <2> QED BY <2>1 DEF RawFactsOf, RawFactOf
<1>4. Contract!Keys = Keys
  <2>1. \A f : Strip(f).key = f.key
    OBVIOUS
  <2> HIDE DEF Strip
  <2>2. ASSUME NEW k \in Keys PROVE k \in Contract!Keys
    BY <2>1, <1>1 DEF Contract!Keys, Keys
  <2>3. ASSUME NEW k \in Contract!Keys PROVE k \in Keys
    <3>1. PICK t \in Contract!Sayings : t.key = k
      BY DEF Contract!Keys
    <3>2. PICK f \in raw : t = Strip(f)
      BY <1>2
    <3> QED BY <3>1, <3>2, <2>1 DEF Keys
  <2> QED BY <2>2, <2>3
<1>5. ASSUME NEW k \in Keys
      PROVE  /\ \A f \in Group(k) : Strip(f) \in Contract!Under(k)
             /\ \A t \in Contract!Under(k) : \E f \in Group(k) : t = Strip(f)
             /\ \A f, g \in Group(k) : Strip(f) = Strip(g) => f = g
  <2>1. \A f \in Group(k) : Strip(f) \in Contract!Under(k)
    BY <1>1 DEF Group, Contract!Under
  <2>2. \A t \in Contract!Under(k) : \E f \in Group(k) : t = Strip(f)
    BY <1>2 DEF Group, Contract!Under
  <2>3. ASSUME NEW f \in Group(k), NEW g \in Group(k), Strip(f) = Strip(g) PROVE f = g
    <3>1. f.of = g.of /\ f.key = g.key /\ f.id = g.id /\ f.data = g.data
      BY <2>3
    <3>2. f \in raw /\ g \in raw
      BY DEF Group
    <3>3. f.at = g.at /\ f.source = g.source
      BY <1>3, <3>1, <3>2
    <3>4. /\ f = [of |-> f.of, key |-> f.key, id |-> f.id, data |-> f.data, at |-> f.at, source |-> f.source]
          /\ g = [of |-> g.of, key |-> g.key, id |-> g.id, data |-> g.data, at |-> g.at, source |-> g.source]
      BY <1>3, <3>2
    <3> QED BY <3>1, <3>3, <3>4
  <2> QED BY <2>1, <2>2, <2>3
<1>6. ASSUME NEW k \in Keys PROVE Contract!Agreed(k) <=> AllIdentical(Group(k))
  <2>1. \A f : Strip(f).data = f.data
    OBVIOUS
  <2> HIDE DEF Strip
  <2>2. ASSUME Contract!Agreed(k), NEW f \in Group(k), NEW g \in Group(k) PROVE f.data = g.data
    <3>1. Strip(f) \in Contract!Under(k) /\ Strip(g) \in Contract!Under(k)
      BY <1>5
    <3>2. Strip(f).data = Strip(g).data
      BY <3>1, <2>2 DEF Contract!Agreed
    <3> QED BY <2>1, <3>2
  <2>3. ASSUME AllIdentical(Group(k)), NEW t \in Contract!Under(k), NEW u \in Contract!Under(k)
        PROVE  t.data = u.data
    <3>1. PICK f \in Group(k) : t = Strip(f)
      BY <1>5
    <3>2. PICK g \in Group(k) : u = Strip(g)
      BY <1>5
    <3> QED BY <2>1, <2>3, <3>1, <3>2 DEF AllIdentical
  <2> QED BY <2>2, <2>3 DEF Contract!Agreed, AllIdentical
<1>7. ASSUME NEW k \in Keys
      PROVE  (\E s, t \in Contract!Under(k) : s # t) <=> Cardinality(Group(k)) # 1
  <2> HIDE DEF Strip
  <2>1. Group(k) # {} /\ (Cardinality(Group(k)) = 1 <=> \E f : Group(k) = {f})
    BY Groups, FS_Singleton DEF IInv
  <2>2. (\E s, t \in Contract!Under(k) : s # t) <=> \E f, g \in Group(k) : f # g
    BY <1>5
  <2> QED BY <2>1, <2>2
<1>8. ASSUME NEW k \in Keys, NEW f \in Group(k)
      PROVE  /\ f.id = Strip(f).id /\ f.data = Strip(f).data
             /\ f.at = Entry(Strip(f).of[1]).at /\ f.source = Entry(Strip(f).of[1]).id
  BY <1>3 DEF Group
<1> HIDE DEF Strip
<1> QED BY <1>4, <1>5, <1>6, <1>7, <1>8

\* The fact made of an agreed group is the fact of the key.
LEMMA MergedIsFact ==
    ASSUME IInv, pc = "deduplicate" \/ Answered, NEW k \in Keys, AllIdentical(Group(k))
    PROVE  Contract!IsFactOf(Merged(Group(k)), k)
<1> DEFINE g == Group(k)
           u == Contract!Under(k)
           latest == Latest(g)
           times == {Entry(s.of[1]).at : s \in u}
<1>1. latest \in g /\ latest.at \in Int /\ \A r \in g : r.at <= latest.at
  BY Groups, LatestExists DEF IInv
<1>2. /\ \A s \in u : \E r \in g : r.id = s.id /\ r.data = s.data /\ r.at = Entry(s.of[1]).at
                                   /\ r.source = Entry(s.of[1]).id
      /\ \A r \in g : \E s \in u : r.id = s.id /\ r.data = s.data /\ r.at = Entry(s.of[1]).at
                                   /\ r.source = Entry(s.of[1]).id
  BY SameSayings
<1>3. ASSUME NEW r \in g PROVE r.id = latest.id /\ r.data = latest.data
  <2>1. r.data = latest.data
    BY <1>1 DEF AllIdentical
  <2>2. r \in raw /\ latest \in raw /\ r.key = k /\ latest.key = k
    BY <1>1 DEF Group
  <2>3. r.id = IdOf(r.key[2][1], r.data) /\ latest.id = IdOf(latest.key[2][1], latest.data)
    BY <2>2, RawFactsSound
  <2> QED BY <2>1, <2>2, <2>3
<1>4. \A s \in u : latest.id = s.id /\ latest.data = s.data
  BY <1>2, <1>3
<1>5. latest.at \in times /\ \A t \in times : t <= latest.at
  BY <1>1, <1>2
<1>6. {r.source : r \in g} = {Entry(s.of[1]).id : s \in u}
  BY <1>2
<1>7. Merged(g).key = k
  BY Groups DEF IInv
<1>8. /\ Merged(g).id = latest.id /\ Merged(g).data = latest.data /\ Merged(g).at = latest.at
      /\ Merged(g).sources = {r.source : r \in g}
  BY DEF Merged
<1> HIDE DEF g, u, latest
<1>9. Contract!IsFactOf(Merged(g), k)
  BY <1>4, <1>5, <1>6, <1>7, <1>8, SameRecords DEF Contract!IsFactOf, u
<1> QED BY <1>9 DEF g

\* A refusal is what the contract asks for a call that is not acceptable.
LEMMA RefusalIsAnswer ==
    ASSUME IInv, pc # "done", call' = call, ~Contract!AcceptableCall,
           NEW problems, problems # {}, Reject(problems),
           \A r \in problems : r[2] = "auth_field_detected" => "auth" \in Entry(r[1]).flaws
    PROVE  Contract!Answer
<1>1. answer = Pending
  BY DEF IInv, Returned
<1>2. Contract!Refused(answer')
  BY RejectReturns, SameRecords DEF Contract!Refused
<1> QED BY <1>1, <1>2, RejectReturns DEF Contract!Answer

\* The end of a call is the contract's answer to an acceptable one.
LEMMA ConclusionIsAnswer == IInv /\ Conclude => Contract!Answer
<1> SUFFICES ASSUME IInv, Conclude PROVE Contract!Answer
  OBVIOUS
<1> DEFINE found == answer'.issues
<1>1. /\ pc = "deduplicate" /\ pending = {} /\ call' = call /\ answer' # Pending
      /\ answer'.outcome = Outcome(found) /\ answer'.exit = ExitCode(Outcome(found))
      /\ answer'.facts = facts
      /\ found = [rejected |-> issues.rejected, unsupported |-> issues.unsupported,
                  malformed |-> issues.malformed, duplicate |-> issues.duplicate,
                  conflicting |-> issues.conflicting,
                  stale |-> {f.key : f \in {g \in facts : IsStale(g)}}]
  BY Concluded
<1> HIDE DEF found
<1>2. answer = Pending
  BY <1>1 DEF IInv, Returned
<1>3. Contract!AcceptableCall
  BY <1>1, Acceptable DEF IInv, Checked
<1>4. Resolved = Keys /\ Contract!Keys = Keys
  BY <1>1, SameSayings DEF Resolved
<1>5. /\ facts = {Merged(Group(k)) : k \in {j \in Keys : AllIdentical(Group(j))}}
      /\ issues.duplicate = {k \in Keys : AllIdentical(Group(k)) /\ Cardinality(Group(k)) # 1}
      /\ issues.conflicting = {k \in Keys : ~AllIdentical(Group(k))}
  BY <1>1, <1>4 DEF IInv, Deduplicating
<1>6. \A k \in Keys : Contract!Agreed(k) <=> AllIdentical(Group(k))
  BY <1>1, SameSayings
<1>7. \A k \in Contract!Keys : Contract!Agreed(k) => \E f \in answer'.facts : Contract!IsFactOf(f, k)
  BY <1>1, <1>4, <1>5, <1>6, MergedIsFact
<1>8. \A f \in answer'.facts :
         f.key \in Contract!Keys /\ Contract!Agreed(f.key) /\ Contract!IsFactOf(f, f.key)
  <2> SUFFICES ASSUME NEW f \in facts
               PROVE  f.key \in Keys /\ Contract!Agreed(f.key) /\ Contract!IsFactOf(f, f.key)
    BY <1>1, <1>4
  <2>1. f.key \in Keys /\ f = Merged(Group(f.key)) /\ AllIdentical(Group(f.key))
    BY FactsSound
  <2>2. Contract!IsFactOf(Merged(Group(f.key)), f.key)
    BY <1>1, <2>1, MergedIsFact
  <2> QED BY <1>6, <2>1, <2>2
<1>9. found.rejected = {} /\ found.unsupported = {i \in Given : ~Recognised(i)}
      /\ found.malformed = {r \in Records : Said(r) = {}}
  BY <1>1, AllAdapted
<1>10. found.unsupported = {i \in Contract!Given : Contract!Unsupported(call.provider, Contract!Exchange(i))}
  BY <1>9, SameRecords, SameAdapters DEF Recognised
<1>11. found.malformed = {r \in Contract!Records : Contract!Said(r) = {}}
  BY <1>9, SameRecords
<1>12. found.duplicate = {k \in Contract!Keys : Contract!Agreed(k) /\ \E s, t \in Contract!Under(k) : s # t}
  <2>1. \A k \in Keys : (\E s, t \in Contract!Under(k) : s # t) <=> Cardinality(Group(k)) # 1
    BY <1>1, SameSayings
  <2> QED BY <1>1, <1>4, <1>5, <1>6, <2>1
<1>13. found.conflicting = {k \in Contract!Keys : ~Contract!Agreed(k)}
  BY <1>1, <1>4, <1>5, <1>6
<1>14. found.stale = {f.key : f \in {g \in answer'.facts : call.asOf - g.at > call.maxAge}}
  BY <1>1 DEF IsStale
<1>15. <<answer'.outcome, answer'.exit>> =
          IF answer'.facts = {} /\ found.unsupported # {} THEN <<"unsupported_schema", 3>>
          ELSE IF (found.malformed # {} \/ found.conflicting # {}) \/ found.unsupported # {}
          THEN <<"partial", 2>> ELSE <<"ok", 0>>
  BY <1>1, Outcomes
<1>16. Contract!Translated(answer')
  BY <1>7, <1>8, <1>9, <1>10, <1>11, <1>12, <1>13, <1>14, <1>15, Zenon DEF Contract!Translated, found
<1> QED BY <1>1, <1>2, <1>3, <1>16 DEF Contract!Answer

\* The engine gives the answer of the contract, in one step, whatever the call.
THEOREM ContractImplemented == Spec => ImplementsContract
<1>1. Init => Contract!Init
  BY DEF Init, Contract!Init
<1>2. IInv /\ [Next]_vars => [Contract!Answer]_<<call, answer>>
  <2> SUFFICES ASSUME IInv, [Next]_vars PROVE Contract!Answer \/ UNCHANGED <<call, answer>>
    OBVIOUS
  <2>1. CASE UNCHANGED vars
    BY <2>1 DEF vars
  <2>2. CASE CheckArguments
    <3>1. CASE BadArguments
      <4>1. ~Contract!AcceptableCall
        BY <3>1, Acceptable DEF IInv
      <4> DEFINE problems == {<<0, "invalid_input">>}
      <4>2. Reject(problems) /\ problems # {} /\ pc # "done" /\ call' = call
        BY <2>2, <3>1 DEF CheckArguments
      <4>3. \A r \in problems : r[2] # "auth_field_detected"
        OBVIOUS
      <4> HIDE DEF problems
      <4> QED BY <4>1, <4>2, <4>3, RefusalIsAnswer
    <3> QED BY <2>2, <3>1 DEF CheckArguments
  <2>3. CASE Parse
    <3> DEFINE bad == {i \in Lines : NotAnObject(i)}
    <3>1. CASE Unreadable
      <4>1. ~Contract!AcceptableCall
        BY <3>1, Acceptable DEF IInv
      <4> DEFINE problems == {<<0, "invalid_input">>}
      <4>2. Reject(problems) /\ problems # {} /\ pc # "done" /\ call' = call
        BY <2>3, <3>1 DEF Parse
      <4>3. \A r \in problems : r[2] # "auth_field_detected"
        OBVIOUS
      <4> HIDE DEF problems
      <4> QED BY <4>1, <4>2, <4>3, RefusalIsAnswer
    <3>2. CASE ~Unreadable /\ bad # {}
      <4>1. ~Contract!AcceptableCall
        BY <3>2, Acceptable DEF IInv
      <4> DEFINE problems == bad \X {"invalid_input"}
      <4>2. Reject(problems) /\ pc # "done" /\ call' = call
        BY <2>3, <3>2 DEF Parse
      <4>3. \A r \in problems : r[2] # "auth_field_detected"
        OBVIOUS
      <4>4. problems # {}
        <5>1. PICK i : i \in bad
          BY <3>2
        <5>2. <<i, "invalid_input">> \in problems
          BY <5>1
        <5> QED BY <5>2
      <4> HIDE DEF problems
      <4> QED BY <4>1, <4>2, <4>3, <4>4, RefusalIsAnswer
    <3> QED BY <2>3, <3>1, <3>2 DEF Parse
  <2>4. CASE Validated
    <3>1. CASE issues.rejected # {}
      <4>1. issues.rejected = {<<i, Code(Entry(i))>> : i \in {j \in Given : ~Accepted(j)}}
        BY <2>4, AllValidated DEF Validated
      <4>2. ~Contract!AcceptableCall
        BY <3>1, <4>1, Acceptable DEF IInv
      <4>3. \A r \in issues.rejected : r[2] = "auth_field_detected" => "auth" \in Entry(r[1]).flaws
        BY <4>1 DEF Code
      <4> QED BY <2>4, <3>1, <4>2, <4>3, RefusalIsAnswer DEF Validated
    <3> QED BY <2>4, <3>1 DEF Validated
  <2>5. CASE Conclude
    BY <2>5, ConclusionIsAnswer
  <2>6. CASE Validate \/ GiveUp \/ Adapt \/ NextExchange \/ Adapted \/ Deduplicate
    BY <2>6 DEF Validate, GiveUp, Adapt, NextExchange, Adapted, Deduplicate
  <2> QED BY <2>1, <2>2, <2>3, <2>4, <2>5, <2>6 DEF Next
<1> QED BY <1>1, <1>2, Inductive, PTL DEF Spec, ImplementsContract, Contract!Spec
=============================================================================
