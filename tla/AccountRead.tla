---------------------------- MODULE AccountRead ----------------------------
(***************************************************************************)
(* What a reconciliation promises: an answer that depends on the set of    *)
(* exchanges given, on the time it is given as of, and on nothing else.    *)
(* There is one step, from no answer to the answer.                        *)
(***************************************************************************)
EXTENDS ExchangeAdapters

CONSTANT Pending                   \* no answer yet

VARIABLES call, answer

\* An exchange that keeps the input contract, its id apart.
Lawful(e) ==
    /\ e.id # Missing /\ e.at # Missing /\ e.provider = call.provider
    /\ e.flaws \subseteq (IF call.strict THEN {} ELSE {"unknown_field", "unknown_nested"})

Given == {i \in DOMAIN call.lines : call.lines[i].form = "object"}
Exchange(i) == call.lines[i]

AcceptableCall ==
    /\ call.provider \in Providers /\ call.maxAge >= 0 /\ call.asOf # Missing
    /\ call.source \in {"file", "text", "items"} /\ call.readable
    /\ \A i \in DOMAIN call.lines \ Given : call.lines[i].form = "blank" /\ call.source # "items"
    /\ Given # {} \/ call.source = "items"
    /\ \A i \in Given : Lawful(Exchange(i))
    /\ \A i, j \in Given : Exchange(i).id = Exchange(j).id => i = j

\* The records of recognised exchanges, by exchange id and place, and what each reports.
Body(i) == Items(call.provider, Exchange(i).body)
Records ==
    {r \in UNION {{i} \X DOMAIN Body(i) : i \in Given} :
        ~Unsupported(call.provider, Exchange(r[1])) /\ Body(r[1])[r[2]] # Junk}

Said(r) == Reports(call.provider, Exchange(r[1]), Body(r[1])[r[2]])

SayingsOf(r) == {[of |-> r, key |-> <<Exchange(r[1]).scope, s.key>>, id |-> s.id, data |-> s.data] :
                    s \in Said(r)}
Sayings == UNION {SayingsOf(r) : r \in Records}
Keys == {s.key : s \in Sayings}
Under(k) == {s \in Sayings : s.key = k}
Agreed(k) == \A s, t \in Under(k) : s.data = t.data

\* The one fact of a key all of whose records agree: the last time it was seen,
\* and every exchange it was seen in.
IsFactOf(f, k) ==
    LET times == {Exchange(s.of[1]).at : s \in Under(k)}
    IN /\ f.key = k
       /\ \A s \in Under(k) : f.id = s.id /\ f.data = s.data
       /\ f.at \in times /\ \A t \in times : t <= f.at
       /\ f.sources = {Exchange(s.of[1]).id : s \in Under(k)}

\* A call that breaks the input contract: no facts, and a complaint.
Refused(a) ==
    /\ a.outcome = "invalid_input" /\ a.exit = 4 /\ a.facts = {}
    /\ a.issues.rejected # {}
    /\ \A r \in a.issues.rejected :
         r[2] = "auth_field_detected" => "auth" \in Exchange(r[1]).flaws

\* A call that keeps it: exactly the agreed facts, and an issue for all that is not one.
Translated(a) ==
    /\ \A k \in Keys : Agreed(k) => \E f \in a.facts : IsFactOf(f, k)
    /\ \A f \in a.facts : f.key \in Keys /\ Agreed(f.key) /\ IsFactOf(f, f.key)
    /\ a.issues.rejected = {}
    /\ a.issues.unsupported = {i \in Given : Unsupported(call.provider, Exchange(i))}
    /\ a.issues.malformed = {r \in Records : Said(r) = {}}
    /\ a.issues.duplicate = {k \in Keys : Agreed(k) /\ \E s, t \in Under(k) : s # t}
    /\ a.issues.conflicting = {k \in Keys : ~Agreed(k)}
    /\ a.issues.stale = {f.key : f \in {g \in a.facts : call.asOf - g.at > call.maxAge}}
    /\ LET flawed == a.issues.malformed # {} \/ a.issues.conflicting # {}
           unknown == a.issues.unsupported # {}
       IN <<a.outcome, a.exit>> =
            IF a.facts = {} /\ unknown THEN <<"unsupported_schema", 3>>
            ELSE IF flawed \/ unknown THEN <<"partial", 2>> ELSE <<"ok", 0>>

Init == answer = Pending
Answer == /\ answer = Pending /\ answer' # Pending
          /\ IF AcceptableCall THEN Translated(answer') ELSE Refused(answer')
          /\ UNCHANGED call
Spec == Init /\ [][Answer]_<<call, answer>>
=============================================================================
