\* An exchange captured between the two transactions of a rebuild.
CONSTANTS
    svc1 = svc1
    svc2 = svc2
    bearer = bearer
    cookie = cookie
    NoAuth = NoAuth
    None = None
    Exchanges <- Traffic
    BatchSize = 2
    MaxId = 3
SPECIFICATION Spec
PROPERTY RebuildIsExact
