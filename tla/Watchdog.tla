------------------------------ MODULE Watchdog -------------------------------
(***************************************************************************)
(* lib/watchdog/watchdog.c on several cpus, and with it what Timer leaves  *)
(* out of kernel/timer.c: timers in the queues of several cpus, set and    *)
(* cancelled on one cpu while timer_tick() is at work on another.  The     *)
(* calls of the watchdog hold its spinlock, with interrupts off; timer_set *)
(* writes the timer before it takes timer_lock, and timer_tick() reads the *)
(* timer after it has dropped it.  Time is abstract: a timer that is       *)
(* queued becomes due at some point.                                       *)
(***************************************************************************)
EXTENDS Naturals, Sequences, FiniteSets

CONSTANTS
    Cpu,
    Dog,        \* software watchdogs, each with its expire_timer
    HW,         \* the timer that pets the hardware watchdog
    NULL

Timer == Dog \cup {HW}

VARIABLES
    enabled,        \* of every watchdog
    lock,           \* the cpu that holds the watchdogs' lock, or NULL
    call,           \* the steps each cpu still has to do in it, and for which timer
    queue,          \* timers[cpu].timer_queue
    callback, periodic,     \* the fields of every timer: set or not
    due,            \* timers whose time has come
    tick,           \* the locals of timer_tick()
    halted,         \* the watchdog that has halted the system, or NULL
    fault,          \* the first thing that went wrong
    raced           \* history: a timer was set or cancelled while another
                    \* cpu's timer_tick() had it

vars == <<enabled, lock, call, queue, callback, periodic, due, tick, halted, fault, raced>>

NoCall == [todo |-> <<>>, timer |-> NULL]
NoTick == [phase |-> "none", timer |-> NULL, periodic |-> FALSE]

Init ==
    /\ enabled = [t \in Timer |-> FALSE]
    /\ lock = NULL
    /\ call = [c \in Cpu |-> NoCall]
    /\ queue = [c \in Cpu |-> {}]
    /\ callback = [t \in Timer |-> FALSE]
    /\ periodic = [t \in Timer |-> FALSE]
    /\ due = {}
    /\ tick = [c \in Cpu |-> NoTick]
    /\ halted = NULL
    /\ fault = "none"
    /\ raced = FALSE

list_in_list(t) == \E c \in Cpu : t \in queue[c]

-----------------------------------------------------------------------------

\* Cpu c enters a call on t: not while it handles an interrupt.
Enter(c, t, todo) ==
    /\ lock = NULL
    /\ tick[c] = NoTick
    /\ lock' = c
    /\ call' = [call EXCEPT ![c] = [todo |-> todo, timer |-> t]]
    /\ UNCHANGED <<queue, callback, periodic, due, tick, halted, fault, raced>>

\* watchdog_set_enabled() and watchdog_hw_set_enabled(), of one that is not
\* so already.
watchdog_set_enabled(c, t) ==
    /\ enabled' = [enabled EXCEPT ![t] = ~@]
    /\ Enter(c, t, IF enabled[t] THEN <<"cancel">> ELSE <<"write", "insert">>)

Pettable(d) == enabled[d]

watchdog_pet(c, d) ==
    /\ Pettable(d)
    /\ Enter(c, d, <<"cancel", "write", "insert">>)
    /\ UNCHANGED enabled

\* Cpu c does the next step of its call on t; the last one drops the lock.
Does(c, step, t) ==
    /\ call[c].todo # <<>>
    /\ Head(call[c].todo) = step
    /\ t = call[c].timer
    /\ call' = [call EXCEPT ![c] = IF Len(@.todo) = 1 THEN NoCall ELSE [@ EXCEPT !.todo = Tail(@)]]
    /\ lock' = IF Len(call[c].todo) = 1 THEN NULL ELSE lock
    /\ raced' = (raced \/ \E o \in Cpu : tick[o].timer = t)
    /\ UNCHANGED <<enabled, tick, halted>>

timer_cancel(c, t) ==
    /\ Does(c, "cancel", t)
    /\ queue' = [o \in Cpu |-> queue[o] \ {t}]
    /\ due' = due \ {t}
    /\ callback' = [callback EXCEPT ![t] = FALSE]
    /\ periodic' = [periodic EXCEPT ![t] = FALSE]
    /\ UNCHANGED fault

\* timer_set(), up to timer_lock.
timer_set_write(c, t) ==
    /\ Does(c, "write", t)
    /\ fault' = IF list_in_list(t) THEN "panic: timer already in list" ELSE fault
    /\ callback' = [callback EXCEPT ![t] = TRUE]
    /\ periodic' = [periodic EXCEPT ![t] = (t = HW)]
    /\ UNCHANGED <<queue, due>>

timer_set_insert(c, t) ==
    /\ Does(c, "insert", t)
    /\ fault' = IF list_in_list(t) THEN "timer in two lists" ELSE fault
    /\ queue' = [queue EXCEPT ![c] = @ \cup {t}]
    /\ UNCHANGED <<callback, periodic, due>>

-----------------------------------------------------------------------------

Expire(t) ==
    /\ list_in_list(t)
    /\ due' = due \cup {t}
    /\ UNCHANGED <<enabled, lock, call, queue, callback, periodic, tick, halted, fault, raced>>

\* timer_tick() takes a timer off the queue of its cpu and unlocks.
timer_tick(c, t) ==
    /\ call[c] = NoCall
    /\ tick[c] = NoTick
    /\ t \in queue[c] \cap due
    /\ queue' = [queue EXCEPT ![c] = @ \ {t}]
    /\ due' = due \ {t}
    /\ tick' = [tick EXCEPT ![c] = [phase |-> "taken", timer |-> t, periodic |-> FALSE]]
    /\ UNCHANGED <<enabled, lock, call, callback, periodic, halted, fault, raced>>

timer_tick_periodic(c) ==
    /\ tick[c].phase = "taken"
    /\ tick' = [tick EXCEPT ![c].phase = "call", ![c].periodic = periodic[tick[c].timer]]
    /\ UNCHANGED <<enabled, lock, call, queue, callback, periodic, due, halted, fault, raced>>

\* The callback halts the system, or pets the hardware watchdog.
timer_tick_call(c) ==
    /\ tick[c].phase = "call"
    /\ LET t == tick[c].timer
       IN /\ fault' = IF callback[t] THEN fault ELSE "call of NULL"
          /\ halted' = IF callback[t] /\ t \in Dog THEN t ELSE halted
    /\ tick' = [tick EXCEPT ![c].phase = "return"]
    /\ UNCHANGED <<enabled, lock, call, queue, callback, periodic, due, raced>>

Requeued(c, t) == tick[c].periodic /\ ~list_in_list(t) /\ periodic[t]

timer_tick_return(c) ==
    /\ tick[c].phase = "return"
    /\ LET t == tick[c].timer
       IN queue' = IF Requeued(c, t) THEN [queue EXCEPT ![c] = @ \cup {t}] ELSE queue
    /\ tick' = [tick EXCEPT ![c] = NoTick]
    /\ UNCHANGED <<enabled, lock, call, callback, periodic, due, halted, fault, raced>>

Next ==
    /\ halted = NULL /\ fault = "none"
    /\ \/ \E c \in Cpu, t \in Timer :
            \/ watchdog_set_enabled(c, t)
            \/ t \in Dog /\ watchdog_pet(c, t)
            \/ timer_cancel(c, t)
            \/ timer_set_write(c, t)
            \/ timer_set_insert(c, t)
            \/ timer_tick(c, t)
       \/ \E c \in Cpu : timer_tick_periodic(c) \/ timer_tick_call(c) \/ timer_tick_return(c)
       \/ \E t \in Timer : Expire(t)

Spec == Init /\ [][Next]_vars

-----------------------------------------------------------------------------

(***************************************************************************)
(* As long as no cpu sets or cancels a timer that timer_tick() has taken   *)
(* off another cpu's queue: between two calls the timer of a watchdog is   *)
(* in one queue, or in the hands of one timer_tick(), exactly when the     *)
(* watchdog is enabled, and only an enabled watchdog, or one that is being *)
(* disabled, halts the system.                                             *)
(***************************************************************************)
ArmedIffEnabled ==
    ~raced =>
        /\ fault = "none"
        /\ halted # NULL => enabled[halted] \/ (lock # NULL /\ call[lock].timer = halted)
        /\ lock = NULL /\ halted = NULL =>
              \A t \in Timer :
                  Cardinality({c \in Cpu : t \in queue[c]}) + Cardinality({c \in Cpu : tick[c].timer = t})
                      = IF enabled[t] THEN 1 ELSE 0

(***************************************************************************)
(* "After initialized, users may enable and disable the HW watchdog        *)
(* whenever appropriate.  The helper will maintain a timer which dismisses *)
(* the watchdog" (watchdog.h): timer_tick() finds its callback, and it is  *)
(* in one list.  Neither holds when one cpu disables, or disables and      *)
(* enables, the watchdog while timer_tick() of another has the timer.      *)
(***************************************************************************)
HwTimerMaintained == fault = "none"

=============================================================================
