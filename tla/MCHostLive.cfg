SPECIFICATION FairSpec
CONSTANTS
    lan = lan
    relay = relay
    NoConnection = NoConnection
    c1 = c1
    c2 = c2
    c3 = c3
    Handles = {lan}
    Connections = {c1, c2}
    RouteOf <- MCRouteOf
    HandleOf <- MCHandleOf
    MaxInvitations = 2
    MaxGrants = 2
    MAX_DEVICES = 1
    MAX_REQUESTS = 2
    INVITATION_TTL = 1
    DECISION_TTL = 1
    MaxNow = 0
    MaxCrashes = 0
INVARIANTS OneUse BookBounded
PROPERTIES RequestsDrain CancelledEnds
CHECK_DEADLOCK FALSE
