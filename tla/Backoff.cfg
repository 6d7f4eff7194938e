SPECIFICATION Spec
CONSTANTS
    Threshold = 2
    Base = 2
    Maximum = 4
    QuietReset = 2
    TableLimit = 1
    Keys = {k1, k2}
    MaxTime = 9
INVARIANTS TypeOK PruneInvisible GuessesArePaidFor
PROPERTIES LockoutStands
