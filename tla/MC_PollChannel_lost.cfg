CONSTANTS
    admin = admin
    local = local
    trig = trig
    Poller = Poller
    NoRequest = NoRequest
    Requesters <- AdminAndLocal
    MaxSelf = 1
    Kills <- AdminOnly
    Scenarios <- ByAdminAndLocal
SPECIFICATION FairSpec
CHECK_DEADLOCK FALSE
INVARIANT AckMeansServed
