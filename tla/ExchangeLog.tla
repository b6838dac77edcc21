----------------------------- MODULE ExchangeLog -----------------------------
(***************************************************************************)
(* What BufferedExchangeWriter promises, without threads, queues or        *)
(* transactions: exchanges are accepted one at a time and numbered in that *)
(* order; the oldest of them are settled together, and a settled group is  *)
(* either appended to the durable log as a whole or lost as a whole.       *)
(***************************************************************************)
EXTENDS Integers, Sequences

VARIABLES
    accepted,   \* number of exchanges accepted so far
    settled,    \* number of them that are written or lost
    log         \* the durable exchanges

vars == <<accepted, settled, log>>

Init == accepted = 0 /\ settled = 0 /\ log = <<>>

\* The n oldest exchanges that are not settled yet.
Oldest(n) == [i \in 1..n |-> settled + i]

Accept ==
    /\ accepted' = accepted + 1
    /\ UNCHANGED <<settled, log>>

Write(n) ==
    /\ settled' = settled + n
    /\ log' = log \o Oldest(n)
    /\ UNCHANGED accepted

Lose(n) ==
    /\ settled' = settled + n
    /\ UNCHANGED <<accepted, log>>

Next ==
    \/ Accept
    \/ \E n \in 1..(accepted - settled) : Write(n) \/ Lose(n)

Spec == Init /\ [][Next]_vars
=============================================================================
