SPECIFICATION TasksSpec
CONSTANTS
    Thread = {l1, l2, l3, l4}
    NULL = NULL
    Timeouts = {"ZERO", "FINITE", "INFINITE"}
    Destroyer = "owner"
    Producer = {l1, l2}
    CondTimeouts = {"ZERO", "FINITE", "INFINITE"}
    Porter = {t1, t2}
    WPort = {w1, w2}
    RPort = {r1, r2}
    Group = {g1}
    Broadcast = {b0}
    Task = {k0, k1, k2}
    FirstTask = k0
    Memory = {b1, b2}
    Alarm = {a1, a2}
    Cpu = {c1, c2}
    Dog = {d1}
    HW = HW
    Logger = {g1, g2}
    Drain = {d1}
SYMMETRY PortSymmetry
CHECK_DEADLOCK FALSE
INVARIANTS MutualExclusion CountExact NoMissedSignal PacketsDelivered ThreadsReaped TimersKept LogDelivered
PROPERTY NotEarly
