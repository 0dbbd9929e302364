CONSTANTS
    Deaths = 2
    Runs = 5
SPECIFICATION FairSpec
CHECK_DEADLOCK FALSE
INVARIANT NotForgotten
PROPERTY SparesWork
PROPERTY ComesBack
