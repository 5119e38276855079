CONSTANTS
    NotPolled = NotPolled
    NoItem = NoItem
    NoSleep = NoSleep
    PollObjs <- SameName
    Periods <- TwoPeriods
    Scenarios <- FromTriggered
    Uninitialised = {0, 5}
    DiscardThreshold = 1
    PollLoopNb = 3
    PollingBef9 = FALSE
    MaxSelf = 1
SPECIFICATION FairSpec
INVARIANT WorksMatchPollList
