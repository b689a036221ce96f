SPECIFICATION Spec
CONSTANTS
    MaxAddress = 1
    MaxPort = 1
    MaxToken = 2
    Saved <- Either
    MaxGeneration = 3
    Faults = {"start", "store", "status"}
INVARIANTS StoreAgrees NewestWins RollbackRestores
CHECK_DEADLOCK FALSE
