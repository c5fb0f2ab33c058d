SPECIFICATION SyncSpec
CONSTANTS
    Thread = {t1, t2, t3, t4}
    NULL = NULL
    Timeouts = {"ZERO", "INFINITE"}
    Destroyer = "owner"
    Waiter = {t1, t2, t3}
    Initial = 1
    SemTimeouts = {"ZERO", "FINITE"}
    MaxCount = 2
    Flags = {TRUE, FALSE}
    EventTimeouts = {"ZERO", "FINITE", "INFINITE"}
    Client = {p1, c1, c2, c3}
    Producer = {p1}
    Caller = {d1, d2}
    Entry = {e1, e2}
INVARIANTS ResourcesExact SignalsExact CalledAsQueued
PROPERTIES ReleaseIsFinal ImplementsLock ConsumerServed AcquisitionsEnd WaitEnds QueuedIsCalled
