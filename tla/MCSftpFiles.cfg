SPECIFICATION Spec
CONSTANTS
    MaxOurs = 2
    MaxForeign = 4
    MaxNonce = 4
    MaxTx = 2
    Modes = {"save", "upload", "download"}
    Faults = {"refuse", "drop", "restart"}
INVARIANTS NoHalfFile OwedKept RolledBack
PROPERTY SaveKeepsEdits
CHECK_DEADLOCK FALSE
