SPECIFICATION NetSpec
CONSTANTS
    SEQ = 16
    TxFirst = 15
    RxFirst = 14
    MSS = 2
    RxSize = 3
    TxSize = 2
    Loads <- SomeLoads
    NULL = NULL
    Acceptor = {a1, a2}
    Connection = {c1, c2, c3}
    Sender = {n1}
    WORKER = WORKER
CHECK_DEADLOCK FALSE
INVARIANTS StreamIntact NothingStuck SocketRefsExact SlotHandedOver NicExact
