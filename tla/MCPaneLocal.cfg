SPECIFICATION Spec
CONSTANTS
    Setups <- Local
    MaxClis = 3
    MaxStreams = 2
    MaxIds = 2
INVARIANTS TypeOK OneAgentSpeaks SequenceAdvances  StatusAgrees
CHECK_DEADLOCK FALSE
