SPECIFICATION Spec
CONSTANTS
    Senders <- TwoSenders
    MaxSent = 3
    BatchSize = 3
    MaxStreams = 2
    MaxIds = 2
PROPERTY BatchKeepsAll
CHECK_DEADLOCK FALSE
