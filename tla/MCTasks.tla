------------------------------- MODULE MCTasks -------------------------------
(***************************************************************************)
(* Mutexes and conditions, ports, threads that join and exit, the stacks   *)
(* they leave behind, timers, watchdogs and the debug log with its         *)
(* threads, one in each behaviour: `part' tells which.  The mutex and the  *)
(* monitor have the variables of module Cond, which stay as they are in    *)
(* the other parts; those share queues, place and fault, and queue, tick   *)
(* and due.  A variable a behaviour has no use for is NULL.                *)
(***************************************************************************)
EXTENDS Cond, TLC

CONSTANTS
    Porter, WPort, RPort, Group,    \* of the parts "unicast" and "broadcast"
    Broadcast,          \* the write port of the part "broadcast"
    Task, FirstTask,    \* the threads of the parts "join" and "stacks"
    Memory,             \* the blocks their stacks are in
    Alarm,              \* the timers of the part "timer"
    Cpu, Dog, HW,       \* of the part "watchdog"
    Logger, Drain       \* the writers and readers of the part "log"

VARIABLES
    part,
    queues, place,                                      \* of Port, Join and DelayedFree
    fault,                                              \* of Port and Watchdog
    raced,                                              \* of Join and Watchdog
    write_port_list, wp, rp, pg, arg, skipped, wrote, got,      \* of Port
    life, detached, joiner, freed,                      \* of Join
    cpus, heap, delayed_free_list, list, stack,         \* of DelayedFree
    queue, tick,                                        \* of Timer and Watchdog
    due,                                                \* of Timer, Watchdog and Debuglog
    clock, timer, hw, setting,                          \* of Timer
    enabled, lock, call, callback, periodic, halted,     \* of Watchdog
    head, tail, data, event, readers, readers_lock,
    rdr, writer, notifier, at                           \* of Debuglog

portVars == <<write_port_list, wp, rp, pg, arg, skipped, wrote, got>>
joinVars == <<life, detached, joiner, freed>>
stackVars == <<cpus, heap, delayed_free_list, list, stack>>
timerVars == <<clock, timer, hw, setting>>
dogVars == <<enabled, lock, call, callback, periodic, halted>>
logVars == <<head, tail, data, event, readers, readers_lock, rdr, writer, notifier, at>>
others == <<queues, place, fault, raced, portVars, joinVars, stackVars, queue, tick, due, timerVars, dogVars, logVars>>
all == <<part, allVars, others>>

\* Unicast ports, as many as WPort has, or one broadcast port.
U == INSTANCE Port WITH
    Thread <- Porter, sched <- queues, pc <- place, Mode <- {"PORT_MODE_UNICAST"},
    Timeouts <- {"FINITE"}, Counts <- {1}, PORT_BUFF_SIZE <- 2, MaxPackets <- 1
B == INSTANCE Port WITH
    Thread <- Porter, sched <- queues, pc <- place, WPort <- Broadcast, Mode <- {"PORT_MODE_BROADCAST"},
    Timeouts <- {"FINITE"}, Counts <- {1, 2}, PORT_BUFF_SIZE <- 2, MaxPackets <- 2
J == INSTANCE Join WITH
    Thread <- Task, First <- FirstTask, sched <- queues, pc <- place, Timeouts <- Timeout
F == INSTANCE DelayedFree WITH
    Thread <- Task, First <- FirstTask, pc <- place, Block <- Memory, Cpus <- {1, 2}
T == INSTANCE Timer WITH
    Timer <- Alarm, WRAP <- 10, Delays <- {0, 1, 2}, MaxClock <- 12, MaxLatency <- 1
W == INSTANCE Watchdog
L == INSTANCE Debuglog WITH
    Writer <- Logger, Reader <- Drain, dlog_size <- 8, SIZE_T <- 32, First <- 28,
    WireSizes <- {2, 3, 5}, MaxRecords <- 4

NoPort ==
    /\ write_port_list = NULL /\ wp = NULL /\ rp = NULL /\ pg = NULL
    /\ arg = NULL /\ skipped = NULL /\ wrote = NULL /\ got = NULL
NoJoin == life = NULL /\ detached = NULL /\ joiner = NULL /\ freed = NULL
NoStacks == cpus = NULL /\ heap = NULL /\ delayed_free_list = NULL /\ list = NULL /\ stack = NULL
NoTimer == clock = NULL /\ timer = NULL /\ hw = NULL /\ setting = NULL
NoDog ==
    /\ enabled = NULL /\ lock = NULL /\ call = NULL /\ callback = NULL
    /\ periodic = NULL /\ halted = NULL
NoLog ==
    /\ head = NULL /\ tail = NULL /\ data = NULL /\ event = NULL /\ readers = NULL /\ readers_lock = NULL
    /\ rdr = NULL /\ writer = NULL /\ notifier = NULL /\ at = NULL
NoTicks == queue = NULL /\ tick = NULL /\ due = NULL
NoThreads == queues = NULL /\ place = NULL

TasksInit ==
    /\ CondInit
    /\ \/ /\ part \in {"mutex", "monitor"}
          /\ NoThreads /\ NoPort /\ NoJoin /\ NoStacks /\ NoTimer /\ NoDog /\ NoTicks /\ NoLog
          /\ fault = NULL /\ raced = NULL
       \/ /\ (part = "unicast" /\ U!Init) \/ (part = "broadcast" /\ B!Init)
          /\ NoJoin /\ NoStacks /\ NoTimer /\ NoDog /\ NoTicks /\ NoLog /\ raced = NULL
       \/ /\ part = "join" /\ J!Init
          /\ NoPort /\ NoStacks /\ NoTimer /\ NoDog /\ NoTicks /\ NoLog /\ fault = NULL
       \/ /\ part = "stacks" /\ F!Init
          /\ NoPort /\ NoJoin /\ NoTimer /\ NoDog /\ NoTicks /\ NoLog
          /\ fault = NULL /\ raced = NULL /\ queues = NULL
       \/ /\ part = "timer" /\ T!Init
          /\ NoPort /\ NoJoin /\ NoStacks /\ NoDog /\ NoThreads /\ NoLog
          /\ fault = NULL /\ raced = NULL
       \/ /\ part = "watchdog" /\ W!Init
          /\ NoPort /\ NoJoin /\ NoStacks /\ NoTimer /\ NoThreads /\ NoLog
       \/ /\ part = "log" /\ L!Init
          /\ NoPort /\ NoJoin /\ NoStacks /\ NoTimer /\ NoDog /\ NoThreads
          /\ queue = NULL /\ tick = NULL /\ fault = NULL /\ raced = NULL

\* The threads of the monitor neither time out nor destroy the mutex.
MonitorNext == CondNext /\ \A t \in Thread : pc'[t] = "acquire" => t \notin sched'.timer

\* The steps of each part, which leave the others alone.
TasksNext ==
    \/ /\ (part = "mutex" /\ Next /\ UNCHANGED condVars) \/ (part = "monitor" /\ MonitorNext)
       /\ UNCHANGED <<part, others>>
    \/ /\ (part = "unicast" /\ U!Next) \/ (part = "broadcast" /\ B!Next)
       /\ UNCHANGED <<part, allVars, joinVars, stackVars, timerVars, dogVars, logVars, queue, tick, due, raced>>
    \/ /\ part = "join" /\ J!Next
       /\ UNCHANGED <<part, allVars, portVars, stackVars, timerVars, dogVars, logVars, queue, tick, due, fault>>
    \/ /\ part = "stacks" /\ F!Next
       /\ UNCHANGED <<part, allVars, portVars, joinVars, timerVars, dogVars, logVars, queue, tick, due, fault, raced, queues>>
    \/ /\ part = "timer" /\ T!Next
       /\ UNCHANGED <<part, allVars, portVars, joinVars, stackVars, dogVars, logVars, fault, raced, queues, place>>
    \/ /\ part = "watchdog" /\ W!Next
       /\ UNCHANGED <<part, allVars, portVars, joinVars, stackVars, timerVars, logVars, queues, place>>
    \/ /\ part = "log" /\ L!Next
       /\ UNCHANGED <<part, allVars, portVars, joinVars, stackVars, timerVars, dogVars, queue, tick, fault, raced, queues, place>>

TasksSpec == TasksInit /\ [][TasksNext]_all

\* Interchangeable threads and ports.
PortSymmetry == Permutations(Porter) \cup Permutations(WPort) \cup Permutations(RPort)

-----------------------------------------------------------------------------

(***************************************************************************)
(* kernel/port.c: every read port yields the packets of its write port in  *)
(* the order they were written, a reader does not sleep on packets, and    *)
(* the lists that link ports and groups agree with each other.             *)
(***************************************************************************)
PacketsDelivered ==
    /\ part = "unicast" => U!PacketsInOrder /\ U!ReadersServed /\ U!PortsLinked
    /\ part = "broadcast" => B!PacketsInOrder /\ B!ReadersServed /\ B!PortsLinked

(***************************************************************************)
(* kernel/thread.c: while no thread joins or detaches a dead thread that   *)
(* another is about to free, a joiner that the exit has woken finds the    *)
(* structure of the thread valid and dead and no structure is freed twice; *)
(* in any case nobody stays blocked in thread_join() on a thread that has  *)
(* exited or has been detached.  With lib/heap/heap_wrapper.c: however the *)
(* callers of malloc() race for the delayed list, the stack of every       *)
(* exited thread is freed exactly once, on one cpu only after the thread   *)
(* has left it.                                                            *)
(***************************************************************************)
ThreadsReaped ==
    /\ part = "join" => J!JoinFindsThread /\ J!FreedOnce /\ J!NoJoinerLeftBehind
    /\ part = "stacks" => F!FreedExactlyOnce /\ F!StackKept

\* kernel/timer.c: no callback is called before its delay has passed.
NotEarly == [][part = "timer" => T!CallIsDue]_all

(***************************************************************************)
(* kernel/timer.c: no timer in the queue is forgotten, whatever is set,    *)
(* cancelled and requeued meanwhile, and none is there after it was        *)
(* cancelled.  lib/watchdog/watchdog.c on the timers of two cpus: while no *)
(* cpu sets or cancels a timer that another cpu's timer_tick() has taken,  *)
(* the timer of a watchdog is armed, once, exactly when the watchdog is    *)
(* enabled.                                                                *)
(***************************************************************************)
TimersKept ==
    /\ part = "timer" => T!NotLate /\ T!OnlyWhenAsked
    /\ part = "watchdog" => W!ArmedIffEnabled

(***************************************************************************)
(* lib/debuglog/debuglog.c: a reader is given every record once, whole and *)
(* in order, but for those that were discarded before it came to them, and *)
(* does not sleep on a record that nobody will announce.                   *)
(***************************************************************************)
LogDelivered == part = "log" => L!LogDelivered
==============================================================================
