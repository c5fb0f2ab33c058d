------------------------------- MODULE Thread -------------------------------
(***************************************************************************)
(* The scheduler of kernel/thread.c on one or more cpus, with the          *)
(* rescheduling interrupts of kernel/mp.c: run queues and their bitmap,    *)
(* pinned and real time threads, the quantum and the preemption timer,     *)
(* sleeping, and blocking on a wait queue (one queue stands for all).      *)
(*                                                                         *)
(* Each action is one critical section of thread_lock; one that ends in    *)
(* thread_resched() includes what the thread switched to does before it    *)
(* drops the lock, which is to cancel the timer of its wait.  Interrupts   *)
(* are taken by a cpu between the critical sections of its thread:         *)
(*   ipi      the cpus a reschedule interrupt has been sent to             *)
(*   firing   the timer that timer_tick() on a cpu has taken off its queue *)
(*            and whose callback does not have thread_lock yet             *)
(*   irq      the cpus of which a handler has asked for INT_RESCHEDULE and *)
(*            that will call thread_preempt() when they leave it           *)
(*   ticking  those of them that are still in the loop of timer_tick()     *)
(***************************************************************************)
EXTENDS Integers, Sequences, FiniteSetsExt

CONSTANTS
    Thread, NULL,
    Cpu,
    BootCpu,            \* the cpu that runs lk_main()
    HIGHEST_PRIORITY,   \* priorities are 0, which is LOWEST_PRIORITY, to this
    DEFAULT_PRIORITY,
    Priorities,         \* the priorities threads are created with and ask for
    Pins,               \* the values of pinned_cpu threads are created with, NULL: any cpu
    Quantum,            \* the quantum of a thread, 5 in the source
    Calls,              \* the operations threads and interrupt handlers use
    RealTimeTargets     \* "self" or "any": whom thread_set_real_time() is called for

Operations ==
    {"yield", "set_priority", "set_real_time", "exit", "sleep", "block", "timed_block",
     "wake", "wake_resched", "wake_all", "irq_wake"}

ASSUME CpuAssumption == BootCpu \in Cpu
ASSUME NULLAssumption ==
    /\ NULL \notin Cpu /\ NULL \notin Thread \X {"sleep", "wait"}
    /\ \A cpus \in SUBSET Cpu : NULL # cpus
ASSUME PriorityAssumption ==
    /\ HIGHEST_PRIORITY \in Nat \ {0} /\ DEFAULT_PRIORITY \in 1..HIGHEST_PRIORITY
    /\ Priorities \subseteq 0..HIGHEST_PRIORITY + 1
ASSUME PinsAssumption == Pins \subseteq Cpu \cup {NULL}
ASSUME QuantumAssumption == Quantum \in Nat \ {0}
ASSUME CallsAssumption == Calls \subseteq Operations /\ RealTimeTargets \in {"self", "any"}

VARIABLES
    state,      \* of every thread, idle threads included
    priority, pinned,
    realtime,   \* the threads flagged THREAD_FLAG_REAL_TIME
    quantum,    \* remaining_quantum
    rq,         \* run_queue and run_queue_bitmap
    cur,        \* the current thread of every cpu
    mp,         \* active_cpus, idle_cpus and realtime_cpus
    preempt,    \* the cpus whose preempt_timer is in the timer queue
    ipi, irq, ticking,
    loaded,     \* what a starting cpu has read of idle_cpus, or NULL
    yielding,   \* threads that will call thread_yield() next: see thread_resume
    wait,       \* the list of the wait queue
    ret,        \* wait_queue_block_ret
    timer,      \* the cpu in whose timer queue the timer of a thread is, or NULL
    firing,
    forever,    \* history: blocked threads that wait for INFINITE_TIME
    reverted    \* history: the cpus whose bit of idle_cpus another cpu that started
                \* has set back to what it had read, until they switch again

vars == <<state, priority, pinned, realtime, quantum, rq, cur, mp, preempt, ipi, irq, ticking, loaded,
          yielding, wait, ret, timer, firing, forever, reverted>>

\* Parts of the state that many actions leave alone.
threadAttrs == <<priority, pinned, realtime>>
irqVars == <<ipi, irq, ticking, firing>>
waitVars == <<wait, ret, forever>>
switchVars == <<rq, state, cur, quantum, mp, reverted, preempt, timer>>

idle_thread(c) == <<"idle", c>>
AllThreads == Thread \cup {idle_thread(c) : c \in Cpu}
Priority == 0..HIGHEST_PRIORITY

ASSUME IdleAssumption == \A c \in Cpu : idle_thread(c) \notin Thread

\* A lone thread is not given a new quantum; MinQuantum bounds how low it falls
\* (only the sign of remaining_quantum matters).
MinQuantum == 0

TypeOK ==
    /\ state \in [AllThreads -> {"SUSPENDED", "READY", "RUNNING", "BLOCKED", "SLEEPING", "DEATH"}]
    /\ priority \in [Thread -> Priority]
    /\ pinned \in [Thread -> Cpu \cup {NULL}]
    /\ realtime \subseteq Thread
    /\ quantum \in [Thread -> MinQuantum..Quantum]
    /\ DOMAIN rq.queue = Priority /\ \A p \in Priority : Range(rq.queue[p]) \subseteq Thread
    /\ rq.bitmap \subseteq Priority
    /\ cur \in [Cpu -> AllThreads]
    /\ mp \in [active: SUBSET Cpu, idle: SUBSET Cpu, realtime: SUBSET Cpu]
    /\ preempt \subseteq Cpu /\ ipi \subseteq Cpu /\ irq \subseteq Cpu /\ ticking \subseteq irq
    /\ loaded \in [Cpu -> (SUBSET Cpu) \cup {NULL}]
    /\ yielding \subseteq AllThreads
    /\ Range(wait) \subseteq Thread
    /\ ret \in [Thread -> {"NO_ERROR", "ERR_TIMED_OUT"}]
    /\ timer \in [Thread -> Cpu \cup {NULL}]
    /\ firing \in [Cpu -> (Thread \X {"sleep", "wait"}) \cup {NULL}]
    /\ forever \subseteq Thread
    /\ reverted \subseteq Cpu

(***************************************************************************)
(* After thread_init_early() and thread_secondary_cpu_init_early(): every  *)
(* cpu runs its idle-thread-to-be with interrupts off.  A thread in state  *)
(* DEATH stands for one that does not exist (any more).                    *)
(***************************************************************************)
Init ==
    /\ state = [t \in AllThreads |-> IF t \in Thread THEN "DEATH" ELSE "RUNNING"]
    /\ priority = [t \in Thread |-> 1]
    /\ pinned = [t \in Thread |-> NULL]
    /\ realtime = {}
    /\ quantum = [t \in Thread |-> 0]
    /\ rq = [queue |-> [p \in Priority |-> <<>>], bitmap |-> {}]
    /\ cur = [c \in Cpu |-> idle_thread(c)]
    /\ mp = [active |-> {}, idle |-> {}, realtime |-> {}]
    /\ preempt = {} /\ ipi = {} /\ irq = {} /\ ticking = {} /\ yielding = {}
    /\ loaded = [c \in Cpu |-> NULL]
    /\ wait = <<>>
    /\ ret = [t \in Thread |-> "NO_ERROR"]
    /\ timer = [t \in Thread |-> NULL]
    /\ firing = [c \in Cpu |-> NULL]
    /\ forever = {}
    /\ reverted = {}

-----------------------------------------------------------------------------

is_idle(t) == t \notin Thread
is_real_time_or_idle(t) == is_idle(t) \/ t \in realtime

\* thread_is_realtime(), for a thread of priority p.
is_realtime(t, p) == ~is_idle(t) /\ t \in realtime /\ p > DEFAULT_PRIORITY

insert_in_run_queue_head(r, t) ==
    [queue |-> [r.queue EXCEPT ![priority'[t]] = <<t>> \o @],
     bitmap |-> r.bitmap \cup {priority'[t]}]

insert_in_run_queue_tail(r, t) ==
    [queue |-> [r.queue EXCEPT ![priority'[t]] = Append(@, t)],
     bitmap |-> r.bitmap \cup {priority'[t]}]

\* Mutant of CanRunOn: pinning is ignored.
CanRunOn_Anywhere(t, c) == TRUE

CanRunOn(t, c) == pinned[t] \in {NULL, c}

\* Mutant of Candidates: only the first thread of a queue is looked at.
Candidates_FirstOnly(r, p, c) == {i \in DOMAIN r.queue[p] : i = 1 /\ CanRunOn(r.queue[p][i], c)}

\* The places in the queue of priority p of the threads that cpu c can run.
Candidates(r, p, c) == {i \in DOMAIN r.queue[p] : CanRunOn(r.queue[p][i], c)}

\* The count of leading zeroes finds the highest priority of a bitmap.
TopPriority(ps) == Max(ps)

get_top_thread(r, c) ==
    LET ps == {p \in r.bitmap : Candidates(r, p, c) # {}}
        top == TopPriority(ps)
    IN  IF ps = {} THEN idle_thread(c) ELSE r.queue[top][Min(Candidates(r, top, c))]

\* list_delete() of the node of thread t.
list_delete(l, t) ==
    LET k == CHOOSE i \in DOMAIN l : l[i] = t
    IN  SubSeq(l, 1, k - 1) \o SubSeq(l, k + 1, Len(l))

\* Mutant of Dequeue: the bitmap is not cleared.
Dequeue_KeepBit(r, t) ==
    IF is_idle(t) THEN r ELSE [r EXCEPT !.queue[priority'[t]] = list_delete(@, t)]

\* What get_top_thread() leaves of the run queues when it returns t.
Dequeue(r, t) ==
    IF is_idle(t) THEN r
    ELSE LET rest == list_delete(r.queue[priority'[t]], t)
         IN  [queue |-> [r.queue EXCEPT ![priority'[t]] = rest],
              bitmap |-> IF rest = <<>> THEN r.bitmap \ {priority'[t]} ELSE r.bitmap]

\* Mutant of PreemptTimer: not started when an idle cpu gets a thread to run.
PreemptTimer_NotFromIdle(c, old, new) ==
    IF is_real_time_or_idle(new) THEN preempt \ {c}
    ELSE IF old \in realtime THEN preempt \cup {c} ELSE preempt

\* The preemption timers after cpu c switched from old to new.
PreemptTimer(c, old, new) ==
    IF is_real_time_or_idle(new)
    THEN IF is_real_time_or_idle(old) THEN preempt ELSE preempt \ {c}
    ELSE IF is_real_time_or_idle(old) THEN preempt \cup {c} ELSE preempt

Mask(cpus, c, on) == IF on THEN cpus \cup {c} ELSE cpus \ {c}

\* The masks of kernel/mp.h after cpu c switched to new.
CpuMasks(c, new) ==
    [mp EXCEPT !.idle = Mask(@, c, is_idle(new)),
               !.realtime = Mask(@, c, is_realtime(new, IF is_idle(new) THEN 0 ELSE priority'[new]))]

(***************************************************************************)
(* thread_resched() on cpu c, given the run queues, states, quanta and     *)
(* timers its caller has left (priorities are the caller's new ones), and  *)
(* the return of the new thread to whatever it was blocked in.  (Bound by  *)
(* a quantifier, the new thread is looked up once.)                        *)
(***************************************************************************)
thread_resched(c, r, st, q, tm) ==
    \E new \in {get_top_thread(r, c)} :
        /\ rq' = Dequeue(r, new)
        /\ state' = [st EXCEPT ![new] = "RUNNING"]
        /\ cur' = [cur EXCEPT ![c] = new]
        /\ timer' = IF is_idle(new) THEN tm ELSE [tm EXCEPT ![new] = NULL]
        /\ \/ /\ new = cur[c]
              /\ quantum' = q
              /\ UNCHANGED <<mp, preempt, reverted>>
           \/ /\ new # cur[c]
              /\ quantum' = IF ~is_idle(new) /\ q[new] <= 0 THEN [q EXCEPT ![new] = Quantum] ELSE q
              /\ mp' = CpuMasks(c, new)
              /\ reverted' = reverted \ {c}
              /\ preempt' = PreemptTimer(c, cur[c], new)

\* Mutant of mp_reschedule: the interrupt is not sent.
mp_reschedule_None(c) == ipi

\* mp_reschedule(MP_CPU_ALL_BUT_LOCAL, 0) on cpu c: the pending interrupts.
mp_reschedule(c) == ipi \cup (mp.active \ (mp.realtime \cup {c}))

-----------------------------------------------------------------------------

\* Cpu c executes thread code with interrupts enabled, and not a handler.
Executes(c) == c \in mp.active /\ loaded[c] = NULL /\ c \notin irq /\ firing[c] = NULL

InThread(c) == Executes(c) /\ ~is_idle(cur[c]) /\ cur[c] \notin yielding
Runs(c, call) == call \in Calls /\ InThread(c)
Booting(c) == c = BootCpu /\ c \notin mp.active

(***************************************************************************)
(* thread_become_idle() and thread_secondary_cpu_entry(), with interrupts  *)
(* off: the cpu becomes active and reads idle_cpus, ...                    *)
(***************************************************************************)
thread_become_idle(c) ==
    /\ c \notin mp.active
    /\ c = BootCpu \/ (BootCpu \in mp.active /\ loaded[BootCpu] = NULL)
    /\ mp' = [mp EXCEPT !.active = @ \cup {c}]
    /\ loaded' = [loaded EXCEPT ![c] = mp.idle]
    /\ UNCHANGED <<state, threadAttrs, quantum, rq, cur, preempt, irqVars, yielding, waitVars, timer,
                   reverted>>

(***************************************************************************)
(* ... adds its own bit, without holding thread_lock, and goes on to       *)
(* yield.  A cpu that has become idle or busy since the read is back to    *)
(* what it was.                                                            *)
(***************************************************************************)
mp_set_cpu_idle(c) ==
    /\ loaded[c] # NULL
    /\ mp' = [mp EXCEPT !.idle = loaded[c] \cup {c}]
    /\ reverted' = (reverted \cup {d \in Cpu : d \in mp.idle <=> d \notin loaded[c]}) \ {c}
    /\ loaded' = [loaded EXCEPT ![c] = NULL]
    /\ yielding' = yielding \cup {idle_thread(c)}
    /\ UNCHANGED <<state, threadAttrs, quantum, rq, cur, preempt, irqVars, waitVars, timer>>

(***************************************************************************)
(* thread_create_etc(), by a thread or, at boot, by lk_main().  It stores  *)
(* the priority as it is; callers keep it between LOWEST_PRIORITY and      *)
(* HIGHEST_PRIORITY, since run_queue[] has no other elements.              *)
(***************************************************************************)
thread_create(c, t, p, pin) ==
    /\ InThread(c) \/ Booting(c)
    /\ state[t] = "DEATH" /\ t \notin {cur[d] : d \in Cpu}
    /\ \A d \in Cpu : firing[d] \notin {<<t, "sleep">>, <<t, "wait">>}
    /\ state' = [state EXCEPT ![t] = "SUSPENDED"]
    /\ priority' = [priority EXCEPT ![t] = p]
    /\ pinned' = [pinned EXCEPT ![t] = pin]
    /\ realtime' = realtime \ {t}
    /\ quantum' = [quantum EXCEPT ![t] = 0]
    /\ ret' = [ret EXCEPT ![t] = "NO_ERROR"]
    /\ UNCHANGED <<rq, cur, mp, preempt, loaded, irqVars, yielding, wait, timer, forever, reverted>>

(***************************************************************************)
(* thread_resume(): a caller with interrupts enabled that has resumed t    *)
(* then yields, see thread_yield.  If t is not suspended the other cpus    *)
(* are interrupted all the same.                                           *)
(***************************************************************************)
thread_resume(c, t) ==
    /\ InThread(c) \/ Booting(c)
    /\ state[t] # "DEATH"
    /\ UNCHANGED threadAttrs
    /\ \/ /\ state[t] = "SUSPENDED"
          /\ state' = [state EXCEPT ![t] = "READY"]
          /\ rq' = insert_in_run_queue_head(rq, t)
          /\ yielding' = IF Booting(c) THEN yielding ELSE yielding \cup {cur[c]}
       \/ state[t] # "SUSPENDED" /\ UNCHANGED <<state, rq, yielding>>
    /\ ipi' = mp_reschedule(c)
    /\ UNCHANGED <<quantum, cur, mp, preempt, loaded, irq, ticking, firing, waitVars, timer, reverted>>

\* thread_yield(): the idle thread of a cpu does so once, at boot.
thread_yield(c) ==
    /\ Executes(c)
    /\ cur[c] \in yielding \/ Runs(c, "yield")
    /\ yielding' = yielding \ {cur[c]}
    /\ UNCHANGED threadAttrs
    /\ thread_resched(c, IF is_idle(cur[c]) THEN rq ELSE insert_in_run_queue_tail(rq, cur[c]),
                      [state EXCEPT ![cur[c]] = "READY"],
                      [t \in Thread |-> IF t = cur[c] THEN 0 ELSE quantum[t]], timer)
    /\ UNCHANGED <<loaded, irqVars, waitVars>>

\* Mutant of Requeue: a preempted thread keeps its place whatever its quantum.
Requeue_AtHead(r, t) == IF is_idle(t) THEN r ELSE insert_in_run_queue_head(r, t)

Requeue(r, t) ==
    IF is_idle(t) THEN r
    ELSE IF quantum[t] > 0 THEN insert_in_run_queue_head(r, t) ELSE insert_in_run_queue_tail(r, t)

thread_preempt(c) ==
    /\ c \in irq /\ firing[c] = NULL
    /\ irq' = irq \ {c}
    /\ ticking' = ticking \ {c}
    /\ UNCHANGED threadAttrs
    /\ thread_resched(c, Requeue(rq, cur[c]), [state EXCEPT ![cur[c]] = "READY"], quantum, timer)
    /\ UNCHANGED <<loaded, ipi, firing, yielding, waitVars>>

ClampPriority(p) == IF p <= 0 THEN 1 ELSE IF p > HIGHEST_PRIORITY THEN HIGHEST_PRIORITY ELSE p

thread_set_priority(c, p) ==
    /\ Runs(c, "set_priority")
    /\ priority' = [priority EXCEPT ![cur[c]] = ClampPriority(p)]
    /\ UNCHANGED <<pinned, realtime>>
    /\ thread_resched(c, insert_in_run_queue_head(rq, cur[c]), [state EXCEPT ![cur[c]] = "READY"],
                      quantum, timer)
    /\ UNCHANGED <<loaded, irqVars, yielding, waitVars>>

thread_set_real_time(c, t) ==
    /\ Runs(c, "set_real_time")
    /\ RealTimeTargets = "any" \/ t = cur[c] \/ state[t] = "SUSPENDED"
    /\ state[t] # "DEATH"
    /\ preempt' = IF t = cur[c] THEN preempt \ {c} ELSE preempt
    /\ realtime' = realtime \cup {t}
    /\ UNCHANGED <<state, priority, pinned, quantum, rq, cur, mp, loaded, irqVars, yielding, waitVars, timer,
                   reverted>>

\* thread_exit(); the joiners it wakes and the memory it frees are in module Join.
thread_exit(c) ==
    /\ Runs(c, "exit")
    /\ UNCHANGED threadAttrs
    /\ thread_resched(c, rq, [state EXCEPT ![cur[c]] = "DEATH"], quantum, timer)
    /\ UNCHANGED <<loaded, irqVars, yielding, waitVars>>

thread_sleep(c) ==
    /\ Runs(c, "sleep")
    /\ UNCHANGED threadAttrs
    /\ thread_resched(c, rq, [state EXCEPT ![cur[c]] = "SLEEPING"], quantum,
                      [timer EXCEPT ![cur[c]] = c])
    /\ UNCHANGED <<loaded, irqVars, yielding, waitVars>>

Enqueue(t) == Append(wait, t)

\* wait_queue_block() for INFINITE_TIME, or for a time that may expire.
wait_queue_block(c, timed) ==
    /\ Runs(c, IF timed THEN "timed_block" ELSE "block")
    /\ UNCHANGED threadAttrs
    /\ wait' = Enqueue(cur[c])
    /\ ret' = [ret EXCEPT ![cur[c]] = "NO_ERROR"]
    /\ forever' = IF timed THEN forever ELSE forever \cup {cur[c]}
    /\ thread_resched(c, rq, [state EXCEPT ![cur[c]] = "BLOCKED"], quantum,
                      IF timed THEN [timer EXCEPT ![cur[c]] = c] ELSE timer)
    /\ UNCHANGED <<loaded, irqVars, yielding>>

-----------------------------------------------------------------------------

(***************************************************************************)
(* wait_queue_wake_one(): by a thread, with or without reschedule, or by   *)
(* an interrupt handler, which asks for a reschedule instead.              *)
(***************************************************************************)
Woken(ts, r) ==
    LET after[n \in 0..Len(ts)] ==
            IF n = 0 THEN r ELSE insert_in_run_queue_head(after[n - 1], ts[n])
    IN  after[Len(ts)]

WakeUp(ts) ==
    /\ ts # <<>>
    /\ wait' = SubSeq(wait, Len(ts) + 1, Len(wait))
    /\ ret' = [t \in Thread |-> IF t \in Range(ts) THEN "NO_ERROR" ELSE ret[t]]
    /\ forever' = forever \ Range(ts)
    /\ UNCHANGED <<threadAttrs, loaded, yielding, ticking, firing>>

MakeReady(ts) == [t \in AllThreads |-> IF t \in ts THEN "READY" ELSE state[t]]

\* The threads ts at the front of the queue are woken without a reschedule.
WakeQuietly(c, ts) ==
    /\ WakeUp(ts)
    /\ state' = MakeReady(Range(ts))
    /\ rq' = Woken(ts, rq)
    /\ ipi' = mp_reschedule(c)
    /\ UNCHANGED <<cur, quantum, mp, preempt, timer, reverted>>

\* They are woken and run before the current thread.
WakeAndReschedule(c, ts) ==
    /\ WakeUp(ts)
    /\ thread_resched(c, Woken(ts, insert_in_run_queue_head(rq, cur[c])),
                      MakeReady(Range(ts) \cup {cur[c]}), quantum, timer)
    /\ ipi' = mp_reschedule(c)

\* list_remove_head()
First == SubSeq(wait, 1, Min({1, Len(wait)}))

wait_queue_wake_one(c) ==
    \/ Runs(c, "wake") /\ WakeQuietly(c, First) /\ UNCHANGED irq
    \/ Runs(c, "wake_resched") /\ WakeAndReschedule(c, First) /\ UNCHANGED irq
    \/ "irq_wake" \in Calls /\ Executes(c) /\ WakeQuietly(c, First) /\ irq' = irq \cup {c}

wait_queue_wake_all(c) ==
    /\ Runs(c, "wake_all")
    /\ WakeQuietly(c, wait) \/ WakeAndReschedule(c, wait)
    /\ UNCHANGED irq

-----------------------------------------------------------------------------

(***************************************************************************)
(* timer_tick() on cpu c, at its start or in its loop after a callback has *)
(* asked for a reschedule: the expired timers are taken one by one, those  *)
(* of waits and sleeps here, the preemption timer in thread_timer_tick.    *)
(***************************************************************************)
TakesTimer(c) == Executes(c) \/ (c \in ticking /\ firing[c] = NULL)

\* It takes the timer of t off the queue of c.
timer_tick(c, t) ==
    /\ TakesTimer(c)
    /\ timer[t] = c
    /\ timer' = [timer EXCEPT ![t] = NULL]
    /\ firing' = [firing EXCEPT ![c] = <<t, IF state[t] = "SLEEPING" THEN "sleep" ELSE "wait">>]
    /\ UNCHANGED <<state, threadAttrs, quantum, rq, cur, mp, preempt, ipi, irq, ticking, loaded, yielding,
                   waitVars, reverted>>

\* Whether a callback of timer_tick() on cpu c returns INT_RESCHEDULE.
CallbackReturns(c, resched) ==
    IF resched THEN irq' = irq \cup {c} /\ ticking' = ticking \cup {c} ELSE UNCHANGED <<irq, ticking>>

thread_sleep_handler(c) ==
    /\ firing[c] # NULL /\ firing[c][2] = "sleep"
    /\ UNCHANGED threadAttrs
    /\ state' = [state EXCEPT ![firing[c][1]] = "READY"]
    /\ rq' = insert_in_run_queue_head(rq, firing[c][1])
    /\ firing' = [firing EXCEPT ![c] = NULL]
    /\ CallbackReturns(c, TRUE)
    /\ UNCHANGED <<quantum, cur, mp, preempt, ipi, loaded, yielding, waitVars, timer, reverted>>

\* Mutant of Without: takes the first thread of the queue off, whoever it is.
Without_Head(t) == Tail(wait)

Without(t) == list_delete(wait, t)

\* wait_queue_timeout_handler() and thread_unblock_from_wait_queue().
wait_queue_timeout_handler(c) ==
    /\ firing[c] # NULL /\ firing[c][2] = "wait"
    /\ firing' = [firing EXCEPT ![c] = NULL]
    /\ UNCHANGED <<threadAttrs, quantum, cur, mp, preempt, loaded, yielding, timer, reverted>>
    /\ forever' = forever \ {firing[c][1]}
    /\ LET t == firing[c][1]
       IN  \/ /\ state[t] = "BLOCKED"
              /\ wait' = Without(t)
              /\ state' = [state EXCEPT ![t] = "READY"]
              /\ ret' = [ret EXCEPT ![t] = "ERR_TIMED_OUT"]
              /\ rq' = insert_in_run_queue_head(rq, t)
              /\ ipi' = mp_reschedule(c)
              /\ CallbackReturns(c, TRUE)
           \/ /\ state[t] # "BLOCKED"
              /\ CallbackReturns(c, FALSE)
              /\ UNCHANGED <<wait, state, ret, rq, ipi>>

\* The preemption timer of cpu c expires.
thread_timer_tick(c) ==
    /\ TakesTimer(c)
    /\ c \in preempt
    /\ ~is_real_time_or_idle(cur[c])
    /\ LET left == Max({quantum[cur[c]] - 1, MinQuantum})
       IN  /\ quantum' = [quantum EXCEPT ![cur[c]] = left]
           /\ CallbackReturns(c, left <= 0)
    /\ UNCHANGED <<state, threadAttrs, rq, cur, mp, preempt, ipi, loaded, yielding, waitVars, timer, firing,
                   reverted>>

mp_mbx_reschedule_irq(c) ==
    /\ Executes(c)
    /\ c \in ipi
    /\ ipi' = ipi \ {c}
    /\ irq' = irq \cup {c}
    /\ UNCHANGED <<state, threadAttrs, quantum, rq, cur, mp, preempt, ticking, loaded, yielding, waitVars,
                   timer, firing, reverted>>

Interrupt(c) ==
    \/ \E t \in Thread : timer_tick(c, t)
    \/ thread_sleep_handler(c)
    \/ wait_queue_timeout_handler(c)
    \/ thread_timer_tick(c)
    \/ mp_mbx_reschedule_irq(c)
    \/ thread_preempt(c)

Next ==
    \E c \in Cpu :
        \/ thread_become_idle(c)
        \/ mp_set_cpu_idle(c)
        \/ \E t \in Thread, p \in Priorities \cap Priority, pin \in Pins : thread_create(c, t, p, pin)
        \/ \E t \in Thread : thread_resume(c, t)
        \/ thread_yield(c)
        \/ \E p \in Priorities : thread_set_priority(c, p)
        \/ \E t \in Thread : thread_set_real_time(c, t)
        \/ thread_exit(c)
        \/ thread_sleep(c)
        \/ \E timed \in BOOLEAN : wait_queue_block(c, timed)
        \/ wait_queue_wake_one(c)
        \/ wait_queue_wake_all(c)
        \/ Interrupt(c)

Spec == Init /\ [][Next]_vars

-----------------------------------------------------------------------------

(***************************************************************************)
(* The run queues hold exactly the ready threads, each once and at its     *)
(* current priority, and the bitmap exactly the queues that are not empty: *)
(* no thread is lost, run twice or hidden from get_top_thread() by what    *)
(* wake-ups, preemptions, priority changes and pinning do to the queues.   *)
(***************************************************************************)
RunQueuesExact ==
    \A p \in Priority :
        /\ Range(rq.queue[p]) = {t \in Thread : state[t] = "READY" /\ priority[t] = p}
        /\ IsInjective(rq.queue[p])
        /\ p \in rq.bitmap <=> rq.queue[p] # <<>>

(***************************************************************************)
(* A thread is running exactly when it is the current thread of one cpu,   *)
(* one it may run on: no two cpus ever execute the same thread.            *)
(***************************************************************************)
RunsOnOneCpu ==
    /\ \A t \in AllThreads : state[t] = "RUNNING" <=> \E c \in Cpu : cur[c] = t
    /\ \A c, d \in Cpu : cur[c] = cur[d] => c = d
    /\ \A c \in Cpu : IF is_idle(cur[c]) THEN cur[c] = idle_thread(c) ELSE pinned[cur[c]] \in {NULL, c}

(***************************************************************************)
(* "if we're switching from a real time (or idle thread) to a regular one, *)
(* set up a periodic timer", and cancel it the other way: the preemption   *)
(* timer is in the queue exactly while the cpu runs a regular thread.      *)
(* timer_set_periodic() panics on a timer that already is.                 *)
(***************************************************************************)
PreemptTimerExact ==
    \A c \in Cpu : c \in preempt <=> ~is_real_time_or_idle(cur[c])

(***************************************************************************)
(* What the check in timer_set() insists on ("timer already in list"): the *)
(* preemption timer is never set while it is already in the queue.  Fails  *)
(* when thread_set_real_time() is called for a thread of another cpu.      *)
(***************************************************************************)
TimerNotSetTwice ==
    [][\A c \in Cpu : is_real_time_or_idle(cur[c]) /\ ~is_real_time_or_idle(cur[c])' => c \notin preempt]_vars

(***************************************************************************)
(* idle_cpus are the cpus, of those started, that run their idle thread,   *)
(* although mp_set_cpu_idle() is called without the lock its comment asks  *)
(* for: what a starting cpu spoils is the bit of a cpu that switched since *)
(* it read the mask, and that cpu's next switch repairs it.                *)
(***************************************************************************)
IdleMaskExact ==
    \A c \in mp.active \ reverted : loaded[c] = NULL => (c \in mp.idle <=> is_idle(cur[c]))

(***************************************************************************)
(* thread_resched(): no two cpus run the same thread, none runs one pinned *)
(* to another, and idle_cpus are those of the started cpus that idle, but  *)
(* for a bit that a starting cpu has set back, until the next switch.      *)
(***************************************************************************)
CpusExact == RunsOnOneCpu /\ IdleMaskExact

(***************************************************************************)
(* mp_reschedule() masks out the cpus "that are currently running realtime *)
(* code": a cpu that it does not interrupt really runs a realtime thread,  *)
(* also after that thread changed its priority.  Fails: thread_resched()   *)
(* returns early when the same thread goes on.                             *)
(***************************************************************************)
RealtimeMaskSound ==
    \A c \in mp.realtime : ~is_idle(cur[c]) /\ is_realtime(cur[c], priority[cur[c]])

Eligible(c) == {t \in Thread : state[t] = "READY" /\ pinned[t] \in {NULL, c}}

(***************************************************************************)
(* A step of thread_resched() in which a cpu switches leaves no thread of  *)
(* higher priority waiting that it could have run instead.                 *)
(***************************************************************************)
HighestTaken ==
    \A c \in Cpu : cur'[c] # cur[c] =>
        \A t \in Eligible(c)' : ~is_idle(cur'[c]) /\ priority'[t] <= priority'[cur'[c]]

\* Every step is such a step: pinning hides no thread from get_top_thread().
SwitchesToHighest == [][HighestTaken]_vars

(***************************************************************************)
(* No cpu idles while a thread it could run is ready, except for as long   *)
(* as it takes the cpu to react: a reschedule interrupt is on its way, its *)
(* handler has not finished, or it is about to yield for the first time.   *)
(* It is true only while nobody sleeps and nobody is pinned:               *)
(* thread_sleep_handler() makes a thread ready and sends no                *)
(* mp_reschedule(), nor does a yield that leaves a thread to another cpu.  *)
(***************************************************************************)
WorkConserving ==
    \A c \in mp.active :
        is_idle(cur[c]) /\ loaded[c] = NULL /\ Eligible(c) # {} =>
            c \in ipi \/ c \in irq \/ firing[c] # NULL \/ cur[c] \in yielding

(***************************************************************************)
(* The contract of wait_queue_block(): "If the timeout is INFINITE_TIME,   *)
(* this function waits indefinitely": such a wait never times out.         *)
(***************************************************************************)
WaitsIndefinitely ==
    [][\A t \in forever : t \notin forever' => ret'[t] # "ERR_TIMED_OUT"]_vars

(***************************************************************************)
(* The contract of event_signal() without reschedule: "waiting threads are *)
(* placed at the end of the run queue".  Fails: they go to its head.       *)
(***************************************************************************)
WokenAtTheEnd ==
    [][\A t \in Thread : state[t] = "BLOCKED" /\ state'[t] = "READY" =>
            LET q == rq'.queue[priority[t]] IN q[Len(q)] = t]_vars

-----------------------------------------------------------------------------

\* The steps of cpu c that leave its handler, all thread_preempt(c) ...
HandlerEnds(c) == c \in irq /\ firing[c] = NULL /\ irq' = irq \ {c}
\* ... and that finish the yield its thread has begun, all thread_yield(c).
YieldEnds(c) == Executes(c) /\ cur[c] \in yielding /\ yielding' = yielding \ {cur[c]}

\* Steps of threads none of which becomes real time: nothing takes the cpu from
\* a thread that is.
RegularNext == Next /\ realtime' = {}

(***************************************************************************)
(* Fairness: cpus finish their handlers and yields and take the interrupts *)
(* that stay pending; the preemption timer is periodic, so that it keeps   *)
(* expiring while interrupts are enabled again and again (strong fairness).*)
(***************************************************************************)
FairSpec ==
    /\ Init /\ [][RegularNext]_vars
    /\ \A c \in Cpu :
        /\ WF_irq(HandlerEnds(c)) /\ WF_yielding(YieldEnds(c))
        /\ SF_vars(thread_timer_tick(c)) /\ WF_vars(mp_mbx_reschedule_irq(c))
        /\ WF_vars(thread_sleep_handler(c)) /\ WF_vars(wait_queue_timeout_handler(c))
        /\ WF_vars(thread_become_idle(c)) /\ WF_vars(mp_set_cpu_idle(c))

(***************************************************************************)
(* No starvation: a ready thread runs, if no other has a higher priority,  *)
(* even when the running thread never gives up the cpu and wake-ups keep   *)
(* putting threads in front of it.                                         *)
(***************************************************************************)
ReadyRuns == \A t \in Thread : state[t] = "READY" ~> state[t] = "RUNNING"

=============================================================================
