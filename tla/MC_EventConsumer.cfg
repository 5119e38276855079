SPECIFICATION Spec
CONSTANTS
    Events <- MCEvents
    ResubscribePeriod = 3
    ConfirmPeriod = 1
    Values <- MCValues
    Hwm = 2
    Scenarios <- MCScenarios
INVARIANTS
    CopyWithinRun
    GapReported
    NeverDeaf
    SubscriptionKept
    UpToDate
PROPERTY Reconnects
