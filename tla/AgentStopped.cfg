CONSTANTS
    Deaths = 0
    Runs = 3
SPECIFICATION FairSpec
CHECK_DEADLOCK FALSE
INVARIANT StaysStopped
