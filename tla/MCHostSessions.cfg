SPECIFICATION Spec
CONSTANTS
    lan = lan
    relay = relay
    NoConnection = NoConnection
    c1 = c1
    c2 = c2
    c3 = c3
    Handles = {lan, relay}
    Connections = {c1, c3}
    RouteOf <- MCRouteOf
    HandleOf <- MCHandleOf
    MaxInvitations = 2
    MaxGrants = 1
    MAX_DEVICES = 2
    MAX_REQUESTS = 2
    INVITATION_TTL = 1
    DECISION_TTL = 1
    MaxNow = 1
    MaxCrashes = 1
INVARIANTS TypeOK SessionAuthorized PermissionAgrees GrantsDurable
PROPERTY LanKeepsDevice
CHECK_DEADLOCK FALSE
