SPECIFICATION Spec
CONSTANTS
    SEQ = 16
    TxFirst = 15
    RxFirst = 14
    MSS = 2
    RxSize = 3
    TxSize = 2
    Loads <- SomeLoads
    NULL = NULL
CHECK_DEADLOCK FALSE
INVARIANT TimeWaitAsserted
