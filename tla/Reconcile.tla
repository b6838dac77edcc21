----------------------------- MODULE Reconcile -----------------------------
(***************************************************************************)
(* The offline reconciliation of motim/reconcile/engine.py, with the       *)
(* validator, the deduplication and the staleness check it calls, step by  *)
(* step over one call.                                                     *)
(*                                                                         *)
(* A call is [source, readable, lines, provider, asOf, maxAge, strict].  A *)
(* line is blank, broken (no JSON, repeated keys, a non-finite constant,   *)
(* no object) or an object: an exchange                                    *)
(*    [form, id, provider, at, scope, route, flaws, body]                  *)
(* where flaws are the checks of the validator it fails.  Issues are sets, *)
(* one per code, of what they are about: lines with their code, exchanges, *)
(* records and keys.                                                       *)
(***************************************************************************)
EXTENDS ExchangeAdapters, FiniteSets

CONSTANT Calls                     \* the calls considered

VARIABLES call,                    \* the arguments
          pc,                      \* where reconcile() is
          line, item,              \* the exchange and the record at hand
          seen,                    \* seen_exchange_ids
          raw,                     \* raw_facts, each with the record it is from
          pending,                 \* the keys of groups still to be resolved
          facts, issues,
          answer                   \* what reconcile() returns

\* What a call may hold: lines of three kinds; an exchange with its time, a list of
\* records and flaws the validator knows; and a reason to be unreadable, which only a
\* file has.
Flaws == {"auth", "non_finite", "schema", "unknown_field", "request", "response", "unknown_nested"}
IsSequence(s) == s \in Seq({s[i] : i \in DOMAIN s})
ASSUME CallsAssumption ==
    \A c \in Calls :
        /\ IsSequence(c.lines)
        /\ c.source \in {"file", "text", "items", "other"}
        /\ c.readable \in BOOLEAN /\ (c.source # "file" => c.readable)
        /\ c.asOf \in Int \cup {Missing} /\ c.maxAge \in Int /\ c.strict \in BOOLEAN
        /\ \A i \in DOMAIN c.lines :
              LET l == c.lines[i]
              IN /\ l.form \in {"blank", "broken", "object"}
                 /\ l.form = "object" => /\ l.at \in Int \cup {Missing} /\ l.flaws \subseteq Flaws
                                         /\ IsSequence(l.body.items)

\* No result yet.
Pending == [outcome |-> "pending"]

vars == <<call, pc, line, item, seen, raw, pending, facts, issues, answer>>

NoIssues == [rejected |-> {}, unsupported |-> {}, malformed |-> {},
             duplicate |-> {}, conflicting |-> {}, stale |-> {}]

Init == /\ call \in Calls
        /\ pc = "arguments" /\ line = 1 /\ item = 1
        /\ seen = {} /\ raw = {} /\ pending = {} /\ facts = {} /\ issues = NoIssues
        /\ answer = Pending

Exchange == call.lines[line]
Lines == DOMAIN call.lines
Given == {i \in Lines : call.lines[i].form = "object"}

ExitCode(outcome) == CASE outcome = "ok" -> 0 [] outcome = "partial" -> 2
                       [] outcome = "unsupported_schema" -> 3 [] OTHER -> 4

Return(outcome, found, problems) ==
    /\ pc' = "done"
    /\ answer' = [outcome |-> outcome, exit |-> ExitCode(outcome), facts |-> found, issues |-> problems]

Reject(problems) == Return("invalid_input", {}, [NoIssues EXCEPT !.rejected = problems])

(***************************************************************************)
(* Arguments and input.                                                    *)
(***************************************************************************)
BadArguments == \/ call.provider \notin Providers
                \/ call.maxAge < 0
                \/ call.asOf = Missing

CheckArguments ==
    /\ pc = "arguments"
    /\ IF BadArguments THEN Reject({<<0, "invalid_input">>})
       ELSE pc' = "parse" /\ UNCHANGED answer
    /\ UNCHANGED <<call, line, item, seen, raw, pending, facts, issues>>

\* Lines of a text may be blank; items of a list may only be objects.
NotAnObject(i) == \/ call.lines[i].form = "broken"
                  \/ call.lines[i].form = "blank" /\ call.source = "items"

\* There is nothing to parse: no such file, no text in it, or no iterable.
Unreadable == \/ call.source = "other"
              \/ call.source = "file" /\ ~call.readable
              \/ call.source # "items" /\ \A i \in Lines : call.lines[i].form = "blank"

Parse ==
    /\ pc = "parse"
    /\ LET bad == {i \in Lines : NotAnObject(i)}
       IN IF Unreadable THEN Reject({<<0, "invalid_input">>})
          ELSE IF bad # {} THEN Reject(bad \X {"invalid_input"})
          ELSE pc' = "validate" /\ UNCHANGED answer
    /\ UNCHANGED <<call, line, item, seen, raw, pending, facts, issues>>

(***************************************************************************)
(* The validator.  An id is recorded between the early and the late checks *)
(* whatever the late ones say.                                             *)
(***************************************************************************)
EarlyFlaws == {"auth", "non_finite", "schema"} \cup IF call.strict THEN {"unknown_field"} ELSE {}
LateFlaws == {"request", "response"} \cup IF call.strict THEN {"unknown_nested"} ELSE {}

PassesEarly(e) == e.flaws \cap EarlyFlaws = {} /\ e.id # Missing
PassesLate(e) == /\ e.provider = call.provider /\ e.at # Missing
                 /\ e.flaws \cap LateFlaws = {}

Valid(e) == PassesEarly(e) /\ e.id \notin seen /\ PassesLate(e)

Code(e) == IF "auth" \in e.flaws THEN "auth_field_detected" ELSE "invalid_input"

Validate ==
    /\ pc = "validate" /\ line \in Lines
    /\ line' = line + 1
    /\ IF Exchange.form # "object" THEN UNCHANGED <<seen, issues>>
       ELSE /\ seen' = IF PassesEarly(Exchange) THEN seen \cup {Exchange.id} ELSE seen
            /\ issues' = IF Valid(Exchange) THEN issues
                         ELSE [issues EXCEPT !.rejected = @ \cup {<<line, Code(Exchange)>>}]
    /\ UNCHANGED <<call, pc, item, raw, pending, facts, answer>>

\* One bad exchange is enough: invalid_input with zero facts.
Validated ==
    /\ pc = "validate" /\ line \notin Lines
    /\ line' = 1
    /\ IF issues.rejected # {} THEN Reject(issues.rejected)
       ELSE pc' = "adapt" /\ UNCHANGED answer
    /\ UNCHANGED <<call, item, seen, raw, pending, facts, issues>>

(***************************************************************************)
(* The adapter, exchange by exchange and record by record.                 *)
(***************************************************************************)
Body == Items(call.provider, Exchange.body)

GiveUp ==
    /\ pc = "adapt" /\ line \in Lines /\ Exchange.form = "object"
    /\ Unsupported(call.provider, Exchange)
    /\ issues' = [issues EXCEPT !.unsupported = @ \cup {line}]
    /\ line' = line + 1
    /\ UNCHANGED <<call, pc, item, seen, raw, pending, facts, answer>>

\* An entry that is no object is left out; a record that cannot be converted is an issue.
Adapt ==
    /\ pc = "adapt" /\ line \in Lines /\ Exchange.form = "object"
    /\ ~Unsupported(call.provider, Exchange)
    /\ item \in DOMAIN Body
    /\ item' = item + 1
    /\ LET said == IF Body[item] = Junk THEN {} ELSE Reports(call.provider, Exchange, Body[item])
       IN /\ raw' = raw \cup {[of |-> <<line, item>>, key |-> <<Exchange.scope, s.key>>, id |-> s.id,
                               data |-> s.data, at |-> Exchange.at, source |-> Exchange.id] : s \in said}
          /\ issues' = IF Body[item] # Junk /\ said = {}
                       THEN [issues EXCEPT !.malformed = @ \cup {<<line, item>>}] ELSE issues
    /\ UNCHANGED <<call, pc, line, seen, pending, facts, answer>>

NextExchange ==
    /\ pc = "adapt" /\ line \in Lines
    /\ Exchange.form = "object" => /\ ~Unsupported(call.provider, Exchange)
                                   /\ item \notin DOMAIN Body
    /\ line' = line + 1 /\ item' = 1
    /\ UNCHANGED <<call, pc, seen, raw, pending, facts, issues, answer>>

\* Fault: the account is not part of what facts are grouped by.
AdaptedForgetsScope ==
    /\ pc = "adapt" /\ line \notin Lines
    /\ pc' = "deduplicate" /\ pending' = {r.key[2] : r \in raw}
    /\ UNCHANGED <<call, line, item, seen, raw, facts, issues, answer>>

Adapted ==
    /\ pc = "adapt" /\ line \notin Lines
    /\ pc' = "deduplicate" /\ pending' = {r.key : r \in raw}
    /\ UNCHANGED <<call, line, item, seen, raw, facts, issues, answer>>

(***************************************************************************)
(* deduplicate_facts(), group by group.                                    *)
(***************************************************************************)
Group(k) == {r \in raw : r.key = k}
AllIdentical(g) == \A r, s \in g : r.data = s.data

\* Fault: the record read last, whatever its time.
LatestIsLast(g) ==
    CHOOSE r \in g : \A s \in g : \/ s.of[1] < r.of[1]
                                  \/ s.of[1] = r.of[1] /\ s.of[2] <= r.of[2]

Latest(g) == CHOOSE r \in g : \A s \in g : s.at <= r.at

\* Fault: a duplicate's own source is dropped with it.
MergedKeepsOneSource(g) ==
    LET r == Latest(g)
    IN [key |-> r.key, id |-> r.id, data |-> r.data, at |-> r.at, sources |-> {r.source}]

Merged(g) == LET r == Latest(g)
             IN [key |-> r.key, id |-> r.id, data |-> r.data, at |-> r.at,
                 sources |-> {s.source : s \in g}]

Deduplicate ==
    /\ pc = "deduplicate" /\ pending # {}
    /\ LET k == CHOOSE k \in pending : TRUE
           g == Group(k)
       IN /\ pending' = pending \ {k}
          /\ facts' = IF AllIdentical(g) THEN facts \cup {Merged(g)} ELSE facts
          /\ issues' = IF Cardinality(g) = 1 THEN issues
                       ELSE IF AllIdentical(g) THEN [issues EXCEPT !.duplicate = @ \cup {k}]
                       ELSE [issues EXCEPT !.conflicting = @ \cup {k}]
    /\ UNCHANGED <<call, pc, line, item, seen, raw, answer>>

(***************************************************************************)
(* check_staleness() and the outcome.                                      *)
(***************************************************************************)
IsStale(f) == call.asOf - f.at > call.maxAge

Outcome(problems) ==
    IF facts = {} /\ problems.unsupported # {} THEN "unsupported_schema"
    ELSE IF problems.malformed # {} \/ problems.conflicting # {} \/ problems.unsupported # {}
    THEN "partial" ELSE "ok"

Conclude ==
    /\ pc = "deduplicate" /\ pending = {}
    /\ LET all == [issues EXCEPT !.stale = {f.key : f \in {g \in facts : IsStale(g)}}]
       IN issues' = all /\ Return(Outcome(all), facts, all)
    /\ UNCHANGED <<call, line, item, seen, raw, pending, facts>>

Next == \/ CheckArguments \/ Parse \/ Validate \/ Validated
        \/ GiveUp \/ Adapt \/ NextExchange \/ Adapted
        \/ Deduplicate \/ Conclude

Spec == Init /\ [][Next]_vars

(***************************************************************************)
(* Properties.                                                             *)
(***************************************************************************)
RawFact == [of : (Nat \X Nat), key : {r.key : r \in raw}, id : {r.id : r \in raw},
            data : {r.data : r \in raw}, at : Int, source : {call.lines[i].id : i \in Given}]

\* Type correctness of reconcile()'s locals: positions within the input, raw facts
\* of exchanges of the input, and a result exactly when it has returned.
TypeOK ==
    /\ call \in Calls
    /\ pc \in {"arguments", "parse", "validate", "adapt", "deduplicate", "done"}
    /\ line \in 1 .. Len(call.lines) + 1 /\ item \in Nat \ {0}
    /\ seen \subseteq {call.lines[i].id : i \in Given}
    /\ raw \subseteq RawFact
    /\ pending \subseteq {r.key : r \in raw} /\ {f.key : f \in facts} \subseteq {r.key : r \in raw}
    /\ (answer = Pending) <=> (pc # "done")

\* reconcile() gives the answer of the contract, which looks at the set of exchanges
\* and not at their order, validates them all before it says anything about one, and
\* ties outcome and exit code to facts and issues.
Contract == INSTANCE AccountRead
ImplementsContract == Contract!Spec

\* No record of a recognised exchange disappears: it is in the sources of the facts it
\* reports, in a conflict, or malformed (the loops of the adapters with their except
\* branches, and deduplicate_facts()).
EveryRecordAccounted ==
    pc = "done" /\ answer.outcome # "invalid_input" =>
        \A i \in Given : ~Unsupported(call.provider, call.lines[i]) =>
            LET e == call.lines[i]
                body == Items(call.provider, e.body)
            IN \A n \in DOMAIN body : body[n] # Junk =>
                 LET said == Reports(call.provider, e, body[n])
                 IN /\ said = {} => <<i, n>> \in answer.issues.malformed
                    /\ \A s \in said :
                         \/ <<e.scope, s.key>> \in answer.issues.conflicting
                         \/ \E f \in answer.facts : /\ f.key = <<e.scope, s.key>> /\ f.data = s.data
                                                    /\ e.id \in f.sources /\ e.at <= f.at

\* A fact_id names one fact of an account: two facts share one only if a record without
\* native id is involved (compute_dedup_key() and the fact_ids of the adapters).
FactIdNamesOne ==
    \A f, g \in facts : f.id = g.id /\ f.key[1] = g.key[1] =>
        f = g \/ "hash" \in {f.key[2][2], g.key[2][2]}

\* "ok: every selected exchange is valid and recognized" (SPEC.md:64): nothing in the
\* bodies of an input with outcome ok was passed over.
OkMeansRecognised ==
    pc = "done" /\ answer.outcome = "ok" =>
        \A i \in Given : LET body == call.lines[i].body
                       IN body.shape \notin {"scalar", "hollow"} /\ \A n \in DOMAIN body.items : body.items[n] # Junk
=============================================================================
