CONSTANTS
    c1 = c1
    c2 = c2
    d1 = d1
    d2 = d2
    NoClient = NoClient
    Server = Server
    NoCmd = NoCmd
    Devices <- BothDevices
    Clients <- BothClients
    Validities <- OneValidity
    Admins <- OneAdmin
    Scenarios <- All
    MaxRobbed = 1
SPECIFICATION FairSpec
INVARIANT RenewedInTime
INVARIANT CounterAgrees
INVARIANT NoAccidentalForce
PROPERTY DeadClientReleases
