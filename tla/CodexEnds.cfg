CONSTANTS
    c1 = c1
    c2 = c2
    c3 = c3
    c4 = c4
    r1 = r1
    r2 = r2
    q1 = q1
    None = None
    Clients = {c1, c2, c3}
    Requests = {}
    Questions = {}
    Ops = {"send", "interrupt"}
    Central = FALSE
    Deadline = FALSE
SPECIFICATION Spec
CHECK_DEADLOCK FALSE
SYMMETRY ClientSymmetry
INVARIANT EndsAreReal
