CONSTANTS
    admin = admin
    local = local
    trig = trig
    Poller = Poller
    NoRequest = NoRequest
    Requesters <- AdminAndTrigger
    MaxSelf = 1
    Kills <- AdminOnly
    Scenarios <- AloneAndAll
SPECIFICATION FairSpec
CHECK_DEADLOCK FALSE
INVARIANT AckMeansServedAlone
INVARIANT NoPollOfEmptyList
INVARIANT NeverTwice
PROPERTY CommandTaken
PROPERTY QueueLeft
