CONSTANTS
    j1 = j1
    j2 = j2
    Project = {j1, j2}
    MaxRuns = 2
    Restarts = 3
    Crashes = 2
    Docker = {"command", "stop", "session"}
    Forces = {FALSE, TRUE}
SPECIFICATION Spec
SYMMETRY Alike
CHECK_DEADLOCK FALSE
INVARIANT OneManager
INVARIANT FinishedServes
PROPERTY HandsOverQuiet
 
