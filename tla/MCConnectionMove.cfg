SPECIFICATION FairSpec
CONSTANTS
    MaxAddress = 2
    MaxPort = 1
    MaxToken = 2
    Saved <- Either
    MaxGeneration = 2
    Faults = {"start", "store", "status"}
INVARIANTS TypeOK RoutesServe
PROPERTIES KeyKept LanRecovers
CHECK_DEADLOCK FALSE
