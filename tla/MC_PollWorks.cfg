CONSTANTS
    NotPolled = NotPolled
    NoItem = NoItem
    NoSleep = NoSleep
    PollObjs <- ThreeObjects
    Periods <- TwoPeriods
    Scenarios <- All
    Uninitialised = {0, 5}
    DiscardThreshold = 1
    PollLoopNb = 3
    PollingBef9 = FALSE
    MaxSelf = 1
SPECIFICATION FairSpec
INVARIANT WorksMatchPollList
INVARIANT Sorted
INVARIANT AttributesMerged
PROPERTY NotStarved
