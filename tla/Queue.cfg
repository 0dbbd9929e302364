CONSTANTS
    c1 = c1
    c2 = c2
    c3 = c3
    r1 = r1
    r2 = r2
    r3 = r3
    None = None
    Clients = {c1, c2, c3}
    Requests = {r2}
    Questions = {r2}
    Malformed = {}
    Ops = {"send", "interrupt", "stop", "unqueue", "setting", "catalog", "update-stop"}
    MaxRuns = 2
SPECIFICATION Spec
SYMMETRY ClientSymmetry
CHECK_DEADLOCK FALSE
INVARIANT AtMostOnce
INVARIANT WriteAhead
 
INVARIANT WaitingIsNotForgotten
 
PROPERTY OneMessagePerTurn
PROPERTY KeepsDelivery
INVARIANT SlotIsFree
