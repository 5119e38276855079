SPECIFICATION BoxSpec
CONSTANTS
    Depths = {1, 2}
    Clients = {c1, c2}
    NoClient = NoClient
    IdlVersions = {3, 4}
    MaxRequests = 3
INVARIANTS
    ReadFaithful
CHECK_DEADLOCK FALSE
