CONSTANTS
    c1 = c1
    c2 = c2
    Clients = {c1, c2}
    Limit = 4
    RawLimit = 1
    MaxRuns = 3
    MaxSeq = 7
SPECIFICATION Spec
SYMMETRY Alike
CHECK_DEADLOCK FALSE
INVARIANT Remembers
INVARIANT WholeTurns
 
INVARIANT NeverBehind
