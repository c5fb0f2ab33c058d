SPECIFICATION CpusSpec
CONSTANTS
    Thread = {t1, t2, t3}
    NULL = NULL
    Cpu = {c0, c1}
    BootCpu = c0
    HIGHEST_PRIORITY = 2
    DEFAULT_PRIORITY = 1
    Priorities = {0, 3}
    Pins = {NULL, c1}
    Quantum = 1
    Calls = {"set_priority", "set_real_time", "exit", "sleep"}
    RealTimeTargets = "self"
SYMMETRY CpusSymmetry
CHECK_DEADLOCK FALSE
INVARIANTS RunQueuesExact NoneIdleWithWork PreemptTimerExact CpusExact
PROPERTY SwitchesToHighest
