SPECIFICATION Spec
CONSTANTS
    Depths = {0, 1, 2, 3}
    UsedKinds = {"event", "conf", "ready"}
    CallbackKinds = {"ready"}
    MaxEvents = 7
INVARIANTS InBounds OneOwner OnlyOldestLost LastDateFaithful
PROPERTY IsBoundedLog
CHECK_DEADLOCK FALSE
