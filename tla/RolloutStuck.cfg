CONSTANTS
    j1 = j1
    j2 = j2
    Project = {j1, j2}
    MaxRuns = 2
    Restarts = 3
    Crashes = 1
    Docker = {}
    Forces = {TRUE}
SPECIFICATION Spec
SYMMETRY Alike
CHECK_DEADLOCK FALSE
INVARIANT ManagerComesBack
