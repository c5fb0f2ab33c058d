SPECIFICATION Spec
CONSTANTS
    Thread = {t1, t2}
    NULL = NULL
    Cpu = {c0, c1}
    BootCpu = c0
    HIGHEST_PRIORITY = 2
    DEFAULT_PRIORITY = 1
    Priorities = {1}
    Pins = {NULL}
    Quantum = 1
    Calls = {"block", "timed_block", "irq_wake"}
    RealTimeTargets = "self"
CHECK_DEADLOCK FALSE
PROPERTIES WaitsIndefinitely
