SPECIFICATION FairSpec
CONSTANTS
    Thread = {t1, t2, t3}
    NULL = NULL
    Cpu = {c0}
    BootCpu = c0
    HIGHEST_PRIORITY = 2
    DEFAULT_PRIORITY = 1
    Priorities = {1}
    Pins = {NULL}
    Quantum = 2
    Calls = {"block", "timed_block", "wake", "wake_resched", "wake_all", "irq_wake", "yield", "set_real_time"}
    RealTimeTargets = "self"
CHECK_DEADLOCK FALSE
PROPERTIES ReadyRuns ImplementsWaits
