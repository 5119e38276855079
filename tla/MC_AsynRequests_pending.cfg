SPECIFICATION Spec
CONSTANTS
    p1 = p1
    p2 = p2
    t1 = t1
    t2 = t2
    Proxies = {p1, p2}
    Users = {t1, t2}
    CbThread = CbThread
    Scenarios <- MCRedone
CHECK_DEADLOCK FALSE
INVARIANT PendingAgrees
