SPECIFICATION Spec
CONSTANTS
    Thread = {t1, t2}
    NULL = NULL
    WPort = {w1}
    RPort = {r1, r2}
    Group = {g1}
    Mode = {"PORT_MODE_BROADCAST", "PORT_MODE_UNICAST"}
    Timeouts = {"FINITE"}
    Counts = {1, 2}
    PORT_BUFF_SIZE = 2
    MaxPackets = 2
CHECK_DEADLOCK FALSE
INVARIANT ClosedReadersReturn
