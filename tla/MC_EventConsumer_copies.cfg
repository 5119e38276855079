SPECIFICATION Spec
CONSTANTS
    Events <- MCEvents
    ResubscribePeriod = 3
    ConfirmPeriod = 1
    Values <- MCValues
    Hwm = 2
    Scenarios <- MCBack
INVARIANT OnlyCopiesSuppressed
