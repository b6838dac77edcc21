----------------------------- MODULE SpecSamples -----------------------------
(***************************************************************************)
(* motim/store.py: what update() makes of a spec, the part of Store that   *)
(* SpecStore takes for one observation more.  A spec keeps a bounded list  *)
(* of distinct samples, the endpoints it has seen and the last WebSocket   *)
(* messages.                                                               *)
(*                                                                         *)
(* What _compute_hash() hashes of a sample is its endpoint and its body;   *)
(* "body" stands for the status, the query and both bodies after           *)
(* redaction.  Left out: authentication metadata, response headers, base   *)
(* URLs and the truncation of long bodies.                                 *)
(***************************************************************************)
EXTENDS Integers, Sequences, FiniteSets

CONSTANTS
    MaxPerEndpoint,  \* capture.max_samples_per_endpoint
    MaxTotal,        \* capture.max_samples_total
    MaxMessages      \* WebSocket messages of a spec, a constant of the code: 1000

ASSUME SamplesAssumption ==
    /\ MaxPerEndpoint \in Nat \ {0}
    /\ MaxTotal \in Nat \ {0}
    /\ MaxMessages \in Nat \ {0, 1}

EmptySpec == [samples |-> <<>>, endpoints |-> {}, messages |-> <<>>]

\* The slice list[-n:], which for n = 0 is the whole list.
LastOf(list, n) ==
    IF n = 0 \/ n >= Len(list) THEN list ELSE SubSeq(list, Len(list) - n + 1, Len(list))

Sample(endpoint, body, now) == [endpoint |-> endpoint, body |-> body, seen |-> now]

\* The samples with the same hash: at most one, if update() made them all.
Same(samples, endpoint, body) ==
    {i \in DOMAIN samples : samples[i].endpoint = endpoint /\ samples[i].body = body}

\* A sample that is known gets a new time and keeps its place.
Refreshed(samples, endpoint, body, now) ==
    LET first == CHOOSE i \in Same(samples, endpoint, body) :
                    \A j \in Same(samples, endpoint, body) : i <= j
    IN [samples EXCEPT ![first].seen = now]

\* The items of an endpoint, in order, or those of the others.
Select(list, endpoint, own) ==
    LET selected[n \in 0 .. Len(list)] ==
            IF n = 0 THEN <<>>
            ELSE IF (list[n].endpoint = endpoint) = own THEN Append(selected[n - 1], list[n])
            ELSE selected[n - 1]
    IN selected[Len(list)]

\* Fault: the oldest sample of an endpoint stays, the newest go.
InsertedNextToOldest(samples, endpoint, body, now) ==
    LET own == Select(samples, endpoint, TRUE)
    IN LastOf(Select(samples, endpoint, FALSE)
                \o SubSeq(own, 1, IF own = <<>> THEN 0 ELSE 1)
                \o <<Sample(endpoint, body, now)>>, MaxTotal)

\* A new one goes to the end; its endpoint moves there with it.
Inserted(samples, endpoint, body, now) ==
    LastOf(Select(samples, endpoint, FALSE)
             \o LastOf(Select(samples, endpoint, TRUE), MaxPerEndpoint - 1)
             \o <<Sample(endpoint, body, now)>>, MaxTotal)

Known(spec, endpoint, body) == Same(spec.samples, endpoint, body) # {}

\* Fault: an endpoint is listed when it is seen again.
WithSampleUnlisted(spec, endpoint, body, now) ==
    IF Known(spec, endpoint, body)
    THEN [spec EXCEPT !.endpoints = @ \cup {endpoint},
                      !.samples = Refreshed(@, endpoint, body, now)]
    ELSE [spec EXCEPT !.samples = Inserted(@, endpoint, body, now)]

WithSample(spec, endpoint, body, now) ==
    [spec EXCEPT
        !.endpoints = @ \cup {endpoint},
        !.samples = IF Known(spec, endpoint, body)
                    THEN Refreshed(@, endpoint, body, now)
                    ELSE Inserted(@, endpoint, body, now)]

WithMessage(spec, message) ==
    [spec EXCEPT !.messages = LastOf(@, MaxMessages - 1) \o <<message>>]
=============================================================================
