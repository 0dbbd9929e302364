CONSTANTS
    p1 = p1
    p2 = p2
    p3 = p3
    None = None
    Proc = {p1, p2, p3}
    First = p1
    RecoveryAttempts = 1
    MaxRuns = 2
SPECIFICATION FairSpec
CHECK_DEADLOCK FALSE
INVARIANT OneRuntime
PROPERTY NoRequestCut
PROPERTY ActiveWorkWins
PROPERTY HealthyMeansFenced
 
