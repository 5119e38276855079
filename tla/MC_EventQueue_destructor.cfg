SPECIFICATION Spec
CONSTANTS
    Depths = {0, 1, 2, 3}
    UsedKinds = {"dev_inter", "pipe"}
    CallbackKinds = {}
    MaxEvents = 5
INVARIANT InBounds
CHECK_DEADLOCK FALSE
