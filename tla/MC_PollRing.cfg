SPECIFICATION Spec
CONSTANTS
    Depths = {1, 2, 3}
    Gaps = {1, 2}
    MaxInserts = 7
INVARIANTS
    TypeOK
    HistoryFaithful
    DeltasFaithful
    FreedOnce
    SlotsFaithful
PROPERTY IsBoundedLog
CHECK_DEADLOCK FALSE
