--------------------------- MODULE MCExchangeIndex ---------------------------
(* Instances of ExchangeIndex small enough for TLC.                        *)
EXTENDS ExchangeIndex

CONSTANTS svc1, svc2, bearer, cookie

\* Two endpoints, a failure and two kinds of auth in one service; another
\* service to tell them apart.
Traffic == {
    [key |-> svc1, endpoint |-> "GET /a", status |-> "2xx", auth |-> bearer],
    [key |-> svc1, endpoint |-> "GET /a", status |-> "5xx", auth |-> bearer],
    [key |-> svc1, endpoint |-> "GET /b", status |-> "2xx", auth |-> cookie],
    [key |-> svc2, endpoint |-> "GET /a", status |-> "2xx", auth |-> NoAuth]}
=============================================================================
