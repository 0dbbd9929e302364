CONSTANTS
    c1 = c1
    c2 = c2
    c3 = c3
    r1 = r1
    r2 = r2
    r3 = r3
    None = None
    Clients = {c1, c2}
    Requests = {r2, r3}
    Questions = {r2}
    Malformed = {r3}
    Ops = {"send", "stop", "reply", "permission", "interrupt", "unqueue"}
    MaxRuns = 2
SPECIFICATION FairSpec
CHECK_DEADLOCK FALSE
 
 
PROPERTY RepliesAreAwaited
PROPERTY StopEnds
 
PROPERTY WaitingSettles
