-------------------------------- MODULE Timer --------------------------------
(***************************************************************************)
(* kernel/timer.c on one cpu with PLATFORM_HAS_DYNAMIC_TIMER: the queue of *)
(* timers ordered by a wrapping clock, the one-shot hardware timer armed   *)
(* for its head, and timer_tick(), whose callbacks may set and cancel any  *)
(* timer, their own included.                                              *)
(***************************************************************************)
EXTENDS Integers, Sequences, SequencesExt, FiniteSets

CONSTANTS
    Timer, NULL,
    WRAP,           \* lk_time_t wraps at this even value, 2^32 in the source
    Delays,         \* the delays and periods that callers use
    MaxClock,       \* bound: the time at which the model's clock stops
    MaxLatency      \* bound: how late an interrupt may be, how long its handler runs,
                    \* and how long timer_set() takes from the clock to the lock

VARIABLES
    clock,      \* milliseconds since boot; current_time() is this modulo WRAP
    queue,      \* timers[cpu].timer_queue
    timer,      \* scheduled_time and periodic_time of every timer
    hw,         \* when the one-shot hardware timer will interrupt, or NULL
    tick,       \* the locals of timer_tick()
    setting,    \* the timer_set() that has not taken timer_lock yet, or NULL
    due         \* history: when a timer should expire, in time since boot, or NULL

vars == <<clock, queue, timer, hw, tick, setting, due>>

NoTick == [phase |-> "none", now |-> 0, timer |-> NULL, periodic |-> FALSE]

Init ==
    /\ clock = 0
    /\ queue = <<>>
    /\ timer = [t \in Timer |-> [scheduled |-> 0, period |-> 0]]
    /\ hw = NULL
    /\ tick = NoTick
    /\ setting = NULL
    /\ due = [t \in Timer |-> NULL]

-----------------------------------------------------------------------------
(***************************************************************************)
(* The wrapping clock.                                                     *)
(***************************************************************************)

\* What is stored of a time in an lk_time_t.
Wrap(x) == x % WRAP

\* A difference of two lk_time_t read as an int32_t.
Signed(d) == IF d % WRAP < WRAP \div 2 THEN d % WRAP ELSE (d % WRAP) - WRAP

TIME_GT(a, b) == Signed(a - b) > 0
TIME_LT(a, b) == Signed(a - b) < 0

\* Mutant of Expired: off by one.
Expired_OffByOne(now, at) == ~TIME_LT(now + 1, at)

\* Whether timer_tick() at the time now takes a timer scheduled for at.
Expired(now, at) == ~TIME_LT(now, at)

-----------------------------------------------------------------------------
(***************************************************************************)
(* The queue and the hardware timer.                                       *)
(***************************************************************************)

\* The queue q with t put before the first timer that is scheduled later.
insert_timer_in_queue(q, t, tm) ==
    LET later == {i \in DOMAIN q : TIME_GT(tm[q[i]].scheduled, tm[t].scheduled)}
    IN  IF later = {} THEN Append(q, t)
        ELSE InsertAt(q, CHOOSE i \in later : \A j \in later : i <= j, t)

platform_set_oneshot_timer(delay) == clock + delay

\* The hardware timer once timer_set() has put t into the queue, giving q.
SetHardware(q, t, delay) ==
    IF Head(q) = t THEN platform_set_oneshot_timer(delay) ELSE hw

\* The hardware timer once timer_cancel() has left the queue q.
CancelHardware(q) ==
    IF q = <<>> THEN NULL
    ELSE IF Head(q) = Head(queue) THEN hw
    ELSE LET at == timer[Head(q)].scheduled
         IN  platform_set_oneshot_timer(IF TIME_LT(at, Wrap(clock)) THEN 0 ELSE Wrap(at - clock))

-----------------------------------------------------------------------------
(***************************************************************************)
(* The operations, called by threads between two ticks or by the callback  *)
(* inside one.  Nobody operates on a timer while it is being set.          *)
(***************************************************************************)

MayCall(t) == tick.phase \in {"none", "callback"} /\ (setting # NULL => setting.timer # t)

\* timer_set() up to the lock.  It panics on a timer that is in the queue:
\* callers do not do that.
timer_set_write(t, delay, period) ==
    /\ MayCall(t)
    /\ t \notin ToSet(queue)
    /\ clock + delay <= MaxClock
    /\ timer' = [timer EXCEPT ![t] = [scheduled |-> Wrap(clock + delay), period |-> period]]
    /\ due' = [due EXCEPT ![t] = clock + delay]

\* The callers with interrupts disabled, as kernel/thread.c and callbacks are,
\* go on at once; the others may be interrupted before they take the lock.
timer_set(t, delay, period) ==
    /\ timer_set_write(t, delay, period)
    /\ \/ /\ queue' = insert_timer_in_queue(queue, t, timer')
          /\ hw' = SetHardware(queue', t, delay)
          /\ UNCHANGED setting
       \/ /\ tick.phase = "none" /\ setting = NULL
          /\ setting' = [timer |-> t, delay |-> delay, now |-> clock]
          /\ UNCHANGED <<queue, hw>>
    /\ UNCHANGED <<clock, tick>>

timer_set_insert ==
    /\ tick.phase = "none" /\ setting # NULL
    /\ queue' = insert_timer_in_queue(queue, setting.timer, timer)
    /\ hw' = SetHardware(queue', setting.timer, setting.delay)
    /\ setting' = NULL
    /\ UNCHANGED <<clock, timer, tick, due>>

AtLeastOne(delay) == IF delay = 0 THEN 1 ELSE delay

timer_set_oneshot(t, delay) == timer_set(t, AtLeastOne(delay), 0)

timer_set_periodic(t, period) == timer_set(t, AtLeastOne(period), AtLeastOne(period))

\* Mutant of CancelledPeriod: a cancelled timer stays periodic.
CancelledPeriod_Kept(t) == timer[t].period

\* What timer_cancel() makes of the period, lest timer_tick() requeues the timer.
CancelledPeriod(t) == 0

timer_cancel(t) ==
    /\ MayCall(t)
    /\ queue' = SelectSeq(queue, LAMBDA u : u # t)
    /\ timer' = [timer EXCEPT ![t].period = CancelledPeriod(t)]
    /\ hw' = CancelHardware(queue')
    /\ due' = [due EXCEPT ![t] = NULL]
    /\ UNCHANGED <<clock, tick, setting>>

-----------------------------------------------------------------------------
(***************************************************************************)
(* timer_tick(): entry, one round of its loop up to the callback, the      *)
(* return of the callback, and the exit that arms the hardware again.      *)
(***************************************************************************)

timer_tick ==
    /\ tick.phase = "none"
    /\ hw # NULL
    /\ hw <= clock
    /\ hw' = NULL
    /\ tick' = [NoTick EXCEPT !.phase = "loop", !.now = clock]
    /\ UNCHANGED <<clock, queue, timer, setting, due>>

HeadExpired == queue # <<>> /\ Expired(Wrap(tick.now), timer[Head(queue)].scheduled)

timer_tick_fire ==
    /\ tick.phase = "loop"
    /\ HeadExpired
    /\ queue' = Tail(queue)
    /\ LET t == Head(queue)
           periodic == timer[t].period > 0
       IN  /\ tick' = [tick EXCEPT !.phase = "callback", !.timer = t, !.periodic = periodic]
           /\ due' = IF periodic THEN due ELSE [due EXCEPT ![t] = NULL]
    /\ UNCHANGED <<clock, timer, hw, setting>>

timer_tick_return ==
    /\ tick.phase = "callback"
    /\ tick' = [NoTick EXCEPT !.phase = "loop", !.now = tick.now]
    /\ LET t == tick.timer
           period == timer[t].period
       IN  IF tick.periodic /\ t \notin ToSet(queue) /\ period > 0
           THEN /\ timer' = [timer EXCEPT ![t].scheduled = Wrap(tick.now + period)]
                /\ queue' = insert_timer_in_queue(queue, t, timer')
                /\ due' = IF due[t] = NULL THEN due ELSE [due EXCEPT ![t] = tick.now + period]
           ELSE UNCHANGED <<timer, queue, due>>
    /\ UNCHANGED <<clock, hw, setting>>

timer_tick_done ==
    /\ tick.phase = "loop"
    /\ ~HeadExpired
    /\ hw' = IF queue = <<>> THEN hw
             ELSE platform_set_oneshot_timer(Wrap(timer[Head(queue)].scheduled - tick.now))
    /\ tick' = NoTick
    /\ UNCHANGED <<clock, queue, timer, setting, due>>

\* How far time can pass before the interrupt is taken or its handler ends, and
\* before a timer_set() that was interrupted goes on.
Deadlines ==
    {MaxClock}
    \cup (IF tick.phase # "none" THEN {tick.now + MaxLatency} ELSE IF hw # NULL THEN {hw + MaxLatency} ELSE {})
    \cup (IF setting # NULL THEN {setting.now + MaxLatency} ELSE {})

Elapse ==
    /\ \A d \in Deadlines : clock < d
    /\ clock' = clock + 1
    /\ UNCHANGED <<queue, timer, hw, tick, setting, due>>

Next ==
    \/ \E t \in Timer, d \in Delays : timer_set_oneshot(t, d) \/ timer_set_periodic(t, d)
    \/ timer_set_insert
    \/ \E t \in Timer : timer_cancel(t)
    \/ timer_tick \/ timer_tick_fire \/ timer_tick_return \/ timer_tick_done
    \/ Elapse

Spec == Init /\ [][Next]_vars

-----------------------------------------------------------------------------

\* Every variable has its type, and no timer is twice in the queue of timer.c.
TypeOK ==
    /\ clock \in 0..MaxClock
    /\ IsInjective(queue) /\ ToSet(queue) \subseteq Timer
    /\ timer \in [Timer -> [scheduled: 0..WRAP - 1, period: 0..WRAP - 1]]
    /\ hw = NULL \/ hw \in Nat
    /\ tick \in [phase: {"none", "loop", "callback"}, now: 0..MaxClock,
                 timer: Timer \cup {NULL}, periodic: BOOLEAN]
    /\ setting = NULL \/ setting \in [timer: Timer, delay: Nat, now: 0..MaxClock]
    /\ \A t \in Timer : due[t] = NULL \/ due[t] \in Nat

\* The timer whose callback this step calls, if it calls one, is due.
CallIsDue == tick.phase = "loop" /\ tick'.phase = "callback" => due[tick'.timer] <= clock

(***************************************************************************)
(* timer_tick() calls no callback before the delay given to timer_set()    *)
(* has passed, across the wrap of the clock.                               *)
(***************************************************************************)
NotEarly == [][CallIsDue]_vars

(***************************************************************************)
(* No timer is forgotten: the hardware timer is armed for the head of the  *)
(* queue whatever is set, cancelled and requeued meanwhile.  What delays a *)
(* timer is the interrupt, the handler, the `now' that timer_tick() read   *)
(* on entry, the delay that timer_set() gives the hardware some time after *)
(* it read the clock, and each cancelled timer for which timer_cancel()    *)
(* armed the hardware anew while its interrupt was pending.                *)
(***************************************************************************)
NotLate ==
    \A t \in ToSet(queue) : due[t] # NULL => clock <= due[t] + (Cardinality(Timer) + 2) * MaxLatency

(***************************************************************************)
(* A timer is in the queue only while its user wants it there: not after   *)
(* timer_cancel(), in particular not when that is called by the callback   *)
(* of a periodic timer, and not after a one-shot timer has run.            *)
(***************************************************************************)
OnlyWhenAsked == \A t \in ToSet(queue) : due[t] # NULL

=============================================================================
