SPECIFICATION LiveSpec
CONSTANTS
    Setups <- Remotely
    MaxClis = 1
    MaxStreams = 2
    MaxIds = 2
PROPERTY Converges
CHECK_DEADLOCK FALSE
