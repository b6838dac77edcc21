\* Two starts, a stop and a status; PIDs are handed out again.
CONSTANTS
    Starts = {s1, s2}
    Stops = {t1}
    Checks = {k1}
    Pids = {p1, p2}
    None = None
SYMMETRY Symmetry
SPECIFICATION Spec
INVARIANTS
    TypeOK
    OneNamedProxy
    FileGoesWithStart
    StopStops
