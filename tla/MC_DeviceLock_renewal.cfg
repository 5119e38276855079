CONSTANTS
    c1 = c1
    c2 = c2
    d1 = d1
    d2 = d2
    NoClient = NoClient
    Server = Server
    NoCmd = NoCmd
    Devices <- BothDevices
    Clients <- BothClients
    Validities <- TwoValidities
    Admins <- OneAdmin
    Scenarios <- TwoLocks
    MaxRobbed = 0
SPECIFICATION Spec
INVARIANT RenewedInTime
