SPECIFICATION FairSpec
CONSTANTS
    room1 = room1
    Rooms = {room1}
    MaxGeneration = 3
    MaxPeers = 2
    QueuePackets = 2
    MaxForwards = 1
    Mortal = {1}
INVARIANTS TypeOK LivePairIsLinked QueueHoldsLink QueueBounded DepartureCancelsPartner
PROPERTIES LinkSpec PartnerLossCloses SilentPeerEvicted ShutdownDrains
CHECK_DEADLOCK FALSE
