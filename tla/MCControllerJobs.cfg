SPECIFICATION Spec
CONSTANTS
    Workers = {w1, w2}
    MaxFiles = 2
    MaxStarts = 1
    MaxDrops = 1
    MaxCancels = 1
SYMMETRY Symmetry
INVARIANTS TypeOK CancelHonoured PublishersCounted PanelSettles
CHECK_DEADLOCK FALSE
