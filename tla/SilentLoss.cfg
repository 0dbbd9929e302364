CONSTANTS
    c1 = c1
    c2 = c2
    c3 = c3
    r1 = r1
    r2 = r2
    r3 = r3
    None = None
    Clients = {c1, c2, c3}
    Requests = {r2}
    Questions = {r2}
    Malformed = {}
    Ops = {"send", "interrupt"}
    MaxRuns = 2
SPECIFICATION Spec

CHECK_DEADLOCK FALSE
INVARIANT NothingDiscardedQuietly
