\* The proxy and the command line on one database.
CONSTANTS
    svc1 = svc1
    svc2 = svc2
    bearer = bearer
    cookie = cookie
    NoAuth = NoAuth
    None = None
    Exchanges <- Traffic
    BatchSize = 2
    MaxId = 4
SPECIFICATION Spec
INVARIANTS
    TypeOK
    CountsExact
    OrderExact
    ExampleExists
