SPECIFICATION Spec
CONSTANTS
    MaxOurs = 2
    MaxForeign = 3
    MaxNonce = 3
    MaxTx = 2
    Modes = {"upload"}
    Faults = {"refuse", "restart"}
INVARIANT NothingOwedLost
CHECK_DEADLOCK FALSE
