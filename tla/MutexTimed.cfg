SPECIFICATION Spec
CONSTANTS
    Thread = {t1, t2, t3}
    NULL = NULL
    Timeouts = {"FINITE", "INFINITE"}
    Destroyer = "nobody"
CHECK_DEADLOCK FALSE
INVARIANT NoLostWakeup
