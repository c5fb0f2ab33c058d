---------------------------- MODULE ThreadWaits -----------------------------
(***************************************************************************)
(* The scheduler is the one that the synchronisation primitives assume:    *)
(* its blocking, waking and time-outs are those of module WaitSpec.        *)
(***************************************************************************)
EXTENDS ThreadProofs

\* The threads with a timer for their wait, in a queue or expiring.
Armed(st, tm, fr) ==
    {t \in Thread : st[t] # "SLEEPING" /\ (tm[t] # NULL \/ \E c \in Cpu : fr[c] = <<t, "wait">>)}

\* The scheduler as the primitives see it, for states st, results rt, timers tm
\* in queues, timers fr that expire, and the list l of the wait queue.
Sched(st, rt, tm, fr, l) ==
    [state |-> [t \in Thread |-> IF st[t] = "BLOCKED" THEN "BLOCKED" ELSE "READY"],
     blocking_wait_queue |-> [t \in Thread |-> IF st[t] = "BLOCKED" THEN "wait" ELSE NULL],
     wait_queue_block_ret |-> rt,
     timer |-> Armed(st, tm, fr),
     list |-> [q \in {"wait"} |-> l],
     count |-> [q \in {"wait"} |-> Len(l)]]

Waits == INSTANCE WaitSpec WITH sched <- Sched(state, ret, timer, firing, wait)

\* The scheduler implements the wait queue the primitives are built on.
ImplementsWaits == Waits!Spec

-----------------------------------------------------------------------------

(***************************************************************************)
(* What the refinement needs besides the invariant of the scheduler: the   *)
(* running threads have no timers, a thread that has not started has never *)
(* timed out, a timer that expires is in no queue any more, and if no wait *)
(* can time out the timers are those of threads that sleep.                *)
(***************************************************************************)
TimersSingle ==
    /\ \A c \in Cpu : ~is_idle(cur[c]) => timer[cur[c]] = NULL
    /\ \A t \in Thread : state[t] \in {"DEATH", "SUSPENDED"} => ret[t] = "NO_ERROR"
    /\ \A c \in Cpu, t \in Thread : firing[c] = <<t, "wait">> => timer[t] = NULL
    /\ "timed_block" \notin Calls =>
            /\ \A t \in Thread : timer[t] # NULL => state[t] = "SLEEPING"
            /\ \A c \in Cpu, t \in Thread : firing[c] # <<t, "wait">>

\* Threads do not exit, and if their waits can time out there is only one cpu.
NoTimerRaces == "exit" \notin Calls /\ (Cpu = {BootCpu} \/ "timed_block" \notin Calls)

-----------------------------------------------------------------------------

\* A step after which the threads of run have cancelled the timers of their waits.
LEMMA Run ==
    ASSUME NEW st, NEW tm, NEW fr, NEW run \in SUBSET Thread,
           \A t \in Thread : state'[t] = "BLOCKED" <=> st[t] = "BLOCKED",
           \A t \in run : st[t] # "BLOCKED",
           Armed(state', timer', firing') = Armed(st, tm, fr) \ run
    PROVE  Waits!SomeRun(Sched(st, ret', tm, fr, wait'))
<1> DEFINE s == Sched(st, ret', tm, fr, wait')
           n == Sched(state', ret', timer', firing', wait')
<1>1. n = [s EXCEPT !.timer = @ \ run]
  <2> DEFINE f(x) == [t \in Thread |-> IF x[t] = "BLOCKED" THEN "BLOCKED" ELSE "READY"]
             g(x) == [t \in Thread |-> IF x[t] = "BLOCKED" THEN "wait" ELSE NULL]
             A == Armed(st, tm, fr)
             l == [q \in {"wait"} |-> wait']
             k == [q \in {"wait"} |-> Len(wait')]
  <2>1. f(state') = f(st) /\ g(state') = g(st)
    OBVIOUS
  <2>2. /\ n = [state |-> f(state'), blocking_wait_queue |-> g(state'), wait_queue_block_ret |-> ret',
               timer |-> A \ run, list |-> l, count |-> k]
        /\ s = [state |-> f(st), blocking_wait_queue |-> g(st), wait_queue_block_ret |-> ret',
               timer |-> A, list |-> l, count |-> k]
    BY DEF Sched
  <2> HIDE DEF f, g, A, l, k, n, s
  <2>3. QED BY <2>1, <2>2
<1>2. run \in SUBSET {t \in Thread : s.state[t] = "READY"}
  BY DEF Sched
<1>3. Sched(state, ret, timer, firing, wait)' = n
  BY DEF Sched, Armed
<1> HIDE DEF s, n
<1>4. \E u \in SUBSET {t \in Thread : s.state[t] = "READY"} : Sched(state, ret, timer, firing, wait)' = [s EXCEPT !.timer = @ \ u]
  BY <1>1, <1>2, <1>3, ZenonT(30)
<1>5. QED BY <1>4, ZenonT(30) DEF Waits!SomeRun, s

\* A step that leaves the wait queue alone.
LEMMA Quiet ==
    ASSUME NEW run \in SUBSET Thread, ret' = ret, wait' = wait,
           \A t \in Thread : state'[t] = "BLOCKED" <=> state[t] = "BLOCKED",
           \A t \in run : state[t] # "BLOCKED",
           Armed(state', timer', firing') = Armed(state, timer, firing) \ run
    PROVE  Waits!Next
<1>1. Waits!SomeRun(Sched(state, ret', timer, firing, wait'))
  BY Run
<1>2. Sched(state, ret', timer, firing, wait') = Sched(state, ret, timer, firing, wait)
  OBVIOUS
<1>3. QED BY <1>1, <1>2 DEF Waits!Next

\* A switch of cpu c from states st and timers tm: the thread that goes on has no timer.
Resumes(c, st, tm) ==
    /\ ~is_idle(cur'[c]) => timer'[cur'[c]] = NULL
    /\ \A d \in Cpu : d # c => cur'[d] = cur[d]
    /\ \A t \in Thread : timer'[t] = tm[t] \/ timer'[t] = NULL
    /\ \A t \in Thread : state'[t] = st[t] \/ (st[t] = "READY" /\ state'[t] = "RUNNING")

\* thread_resched(): the thread switched to cancels its timer.
LEMMA Resched ==
    ASSUME NEW c \in Cpu, NEW r, NEW st, NEW q, NEW tm \in [Thread -> Cpu \cup {NULL}],
           IInv, Prepared(c, r, st), priority' \in [Thread -> Priority],
           thread_resched(c, r, st, q, tm), firing' = firing
    PROVE  /\ Waits!SomeRun(Sched(st, ret', tm, firing, wait'))
           /\ Resumes(c, st, tm)
<1> DEFINE new == cur'[c]
           run == {t \in Thread : t = new /\ \A d \in Cpu : firing[d] # <<t, "wait">>}
<1>1. Types /\ st \in [AllThreads -> States]
  BY DEF IInv, Prepared
<1>2. Switched(c, st)
  BY <1>1, ReschedSwitches
<1>3. new = get_top_thread(r, c) /\ timer' = (IF is_idle(new) THEN tm ELSE [tm EXCEPT ![new] = NULL])
  BY <1>1 DEF thread_resched, Types
<1>4. Top(new, st, c) /\ new \in AllThreads /\ state' = [st EXCEPT ![new] = "RUNNING"]
  BY <1>2 DEF Switched
<1>o. \A d \in Cpu : d # c => cur'[d] = cur[d]
  BY <1>1, <1>2, ZenonT(30) DEF Switched, Types
<1> HIDE DEF new
<1>5. (new \in Thread /\ ~is_idle(new) /\ st[new] = "READY") \/ (new \notin Thread /\ is_idle(new))
  BY <1>4, IdleThreads DEF Top, is_idle
<1>6. \A t \in Thread : /\ state'[t] = IF t = new THEN "RUNNING" ELSE st[t]
                        /\ timer'[t] = IF t = new THEN NULL ELSE tm[t]
  BY <1>1, <1>3, <1>4, <1>5, IdleThreads
<1>7. Armed(state', timer', firing') = Armed(st, tm, firing) \ run
  BY <1>5, <1>6 DEF Armed
<1>8. /\ run \in SUBSET Thread /\ \A t \in run : st[t] # "BLOCKED"
      /\ \A t \in Thread : state'[t] = "BLOCKED" <=> st[t] = "BLOCKED"
  BY <1>5, <1>6
<1> HIDE DEF run
<1>9. Waits!SomeRun(Sched(st, ret', tm, firing, wait'))
  BY <1>7, <1>8, Run
<1>10. Resumes(c, st, tm)
  BY <1>5, <1>6, <1>o DEF new, Resumes
<1>11. QED BY <1>9, <1>10

\* What the primitives see of a thread is whether it is blocked, and its timer.
LEMMA SchedSame ==
    ASSUME NEW st, NEW tm, NEW fr, NEW st2, NEW tm2, NEW fr2, NEW rt, NEW l,
           \A t \in Thread : st2[t] = "BLOCKED" <=> st[t] = "BLOCKED",
           Armed(st2, tm2, fr2) = Armed(st, tm, fr)
    PROVE  Sched(st2, rt, tm2, fr2, l) = Sched(st, rt, tm, fr, l)
<1> DEFINE f(x) == [t \in Thread |-> IF x[t] = "BLOCKED" THEN "BLOCKED" ELSE "READY"]
           g(x) == [t \in Thread |-> IF x[t] = "BLOCKED" THEN "wait" ELSE NULL]
<1>1. f(st2) = f(st) /\ g(st2) = g(st)
  OBVIOUS
<1>2. QED BY <1>1 DEF Sched

\* What the caller of thread_resched() has left of TimersSingle.
TimersLeft(c, st, tm) ==
    /\ \A d \in Cpu : d # c /\ ~is_idle(cur[d]) => tm[cur[d]] = NULL
    /\ \A t \in Thread : st[t] \in {"DEATH", "SUSPENDED"} => ret'[t] = "NO_ERROR"
    /\ \A d \in Cpu, t \in Thread : firing[d] = <<t, "wait">> => tm[t] = NULL
    /\ "timed_block" \notin Calls =>
            /\ \A t \in Thread : tm[t] # NULL => st[t] = "SLEEPING"
            /\ \A d \in Cpu, t \in Thread : firing[d] # <<t, "wait">>

\* A switch leaves no timer to the thread it switches to.
LEMMA SwitchSingle ==
    ASSUME NEW c \in Cpu, NEW st, NEW tm, firing' = firing, Resumes(c, st, tm), TimersLeft(c, st, tm)
    PROVE  TimersSingle'
<1>1. /\ ~is_idle(cur'[c]) => timer'[cur'[c]] = NULL
      /\ \A d \in Cpu : d # c => cur'[d] = cur[d]
      /\ \A t \in Thread : timer'[t] = tm[t] \/ timer'[t] = NULL
      /\ \A t \in Thread : state'[t] = st[t] \/ (st[t] = "READY" /\ state'[t] = "RUNNING")
  BY DEF Resumes
<1>2. ASSUME NEW d \in Cpu, ~is_idle(cur'[d]) PROVE timer'[cur'[d]] = NULL
  <2>1. CASE d = c
    BY <2>1, <1>1, <1>2
  <2>2. CASE d # c
    BY <2>2, <1>1, <1>2 DEF is_idle, TimersLeft
  <2>3. QED BY <2>1, <2>2
<1>3. /\ \A t \in Thread : state'[t] \in {"DEATH", "SUSPENDED"} => ret'[t] = "NO_ERROR"
      /\ \A d \in Cpu, t \in Thread : firing'[d] = <<t, "wait">> => timer'[t] = NULL
  BY <1>1 DEF TimersLeft
<1>4. ASSUME "timed_block" \notin Calls, NEW t \in Thread, timer'[t] # NULL PROVE state'[t] = "SLEEPING"
  BY <1>1, <1>4 DEF TimersLeft
<1>5. "timed_block" \notin Calls => \A d \in Cpu, t \in Thread : firing'[d] # <<t, "wait">>
  BY DEF TimersLeft
<1>6. QED BY <1>2, <1>3, <1>4, <1>5, ZenonT(30) DEF TimersSingle, is_idle

\* The current thread is requeued, and perhaps another one runs.
LEMMA Requeued ==
    ASSUME IInv, TimersSingle, NoTimerRaces, NEW c \in Cpu, NEW r, NEW q,
           thread_resched(c, r, [state EXCEPT ![cur[c]] = "READY"], q, timer),
           Exact(r, [state EXCEPT ![cur[c]] = "READY"], priority'),
           priority' \in [Thread -> Priority],
           firing' = firing, ret' = ret, wait' = wait
    PROVE  Waits!Next /\ TimersSingle'
<1> DEFINE st == [state EXCEPT ![cur[c]] = "READY"]
<1>1. timer \in [Thread -> Cpu \cup {NULL}] /\ state \in [AllThreads -> States] /\ "READY" \in States
  BY DEF IInv, Types, States
<1>2. Prepared(c, r, st)
  BY <1>1, Prepare, ZenonT(30)
<1>3. \A t \in Thread : st[t] = state[t] \/ (state[t] = "RUNNING" /\ st[t] = "READY")
  BY <1>1, Current, IdleThreads
<1>r. thread_resched(c, r, st, q, timer)
  OBVIOUS
<1> HIDE DEF st
<1>4. /\ Waits!SomeRun(Sched(st, ret', timer, firing, wait'))
      /\ Resumes(c, st, timer)
  BY <1>1, <1>2, <1>r, Resched
<1>5. Sched(st, ret, timer, firing, wait) = Sched(state, ret, timer, firing, wait)
  <2>1. Armed(st, timer, firing) = Armed(state, timer, firing)
    BY <1>3 DEF Armed
  <2>2. QED BY <2>1, <1>3, SchedSame
<1>6. Waits!Next
  BY <1>4, <1>5 DEF Waits!Next
<1>7. TimersSingle'
  <2>1. /\ \A t \in Thread : st[t] \in {"DEATH", "SUSPENDED"} => ret'[t] = "NO_ERROR"
        /\ \A d \in Cpu, t \in Thread : firing[d] = <<t, "wait">> => timer[t] = NULL
        /\ \A d \in Cpu : d # c /\ ~is_idle(cur[d]) => timer[cur[d]] = NULL
    BY <1>3 DEF TimersSingle
  <2>2. "timed_block" \notin Calls => /\ \A t \in Thread : timer[t] # NULL => st[t] = "SLEEPING"
                                      /\ \A d \in Cpu, t \in Thread : firing[d] # <<t, "wait">>
    BY <1>3 DEF TimersSingle
  <2>3. TimersLeft(c, st, timer)
    BY <2>1, <2>2 DEF TimersLeft
  <2>4. QED BY <2>3, <1>4, SwitchSingle
<1>8. QED BY <1>6, <1>7

LEMMA YieldRefines ==
    ASSUME IInv, TimersSingle, NoTimerRaces, NEW c \in Cpu, thread_yield(c)
    PROVE  Waits!Next /\ TimersSingle'
<1> DEFINE r == IF is_idle(cur[c]) THEN rq ELSE insert_in_run_queue_tail(rq, cur[c])
           q == [t \in Thread |-> IF t = cur[c] THEN 0 ELSE quantum[t]]
<1>1. /\ thread_resched(c, r, [state EXCEPT ![cur[c]] = "READY"], q, timer)
      /\ priority' = priority /\ firing' = firing /\ ret' = ret /\ wait' = wait
  BY DEF thread_yield, threadAttrs, irqVars, waitVars
<1>2. priority' \in [Thread -> Priority]
  BY <1>1 DEF IInv, Types
<1>3. Exact(r, [state EXCEPT ![cur[c]] = "READY"], priority')
  BY <1>1, <1>2, RequeuedExact, Current DEF is_idle
<1> HIDE DEF r, q
<1>4. QED BY <1>1, <1>2, <1>3, Requeued

LEMMA PreemptRefines ==
    ASSUME IInv, TimersSingle, NoTimerRaces, NEW c \in Cpu, thread_preempt(c)
    PROVE  Waits!Next /\ TimersSingle'
<1> DEFINE r == Requeue(rq, cur[c])
<1>1. /\ thread_resched(c, r, [state EXCEPT ![cur[c]] = "READY"], quantum, timer)
      /\ priority' = priority /\ firing' = firing /\ ret' = ret /\ wait' = wait
  BY DEF thread_preempt, threadAttrs, waitVars
<1>2. priority' \in [Thread -> Priority]
  BY <1>1 DEF IInv, Types
<1>3. Exact(r, [state EXCEPT ![cur[c]] = "READY"], priority')
  <2>1. \/ r = rq /\ cur[c] \notin Thread
        \/ cur[c] \in Thread /\ r = insert_in_run_queue_head(rq, cur[c])
        \/ cur[c] \in Thread /\ r = insert_in_run_queue_tail(rq, cur[c])
    BY DEF Requeue, is_idle
  <2> HIDE DEF r
  <2>2. QED BY <2>1, <1>1, <1>2, RequeuedExact
<1> HIDE DEF r
<1>4. QED BY <1>1, <1>2, <1>3, Requeued

LEMMA SetPriorityRefines ==
    ASSUME IInv, TimersSingle, NoTimerRaces, NEW c \in Cpu, NEW p \in Priorities, thread_set_priority(c, p)
    PROVE  Waits!Next /\ TimersSingle'
<1> DEFINE r == insert_in_run_queue_head(rq, cur[c])
<1>1. /\ thread_resched(c, r, [state EXCEPT ![cur[c]] = "READY"], quantum, timer)
      /\ priority' = [priority EXCEPT ![cur[c]] = ClampPriority(p)]
      /\ firing' = firing /\ ret' = ret /\ wait' = wait /\ cur[c] \in Thread
  BY Current DEF thread_set_priority, Runs, InThread, irqVars, waitVars
<1>2. /\ priority' \in [Thread -> Priority]
      /\ \A t \in Thread : t # cur[c] => priority'[t] = priority[t]
  <2>1. ClampPriority(p) \in Priority
    BY PriorityAssumption DEF ClampPriority, Priority
  <2>2. QED BY <2>1, <1>1 DEF IInv, Types
<1>3. Exact(r, [state EXCEPT ![cur[c]] = "READY"], priority')
  BY <1>1, <1>2, RequeuedExact, ZenonT(30)
<1> HIDE DEF r
<1>4. QED BY <1>1, <1>2, <1>3, Requeued, ZenonT(30)

\* While a cpu executes a thread, that thread has no timer at all.
LEMMA CurrentUnarmed ==
    ASSUME IInv, TimersSingle, NoTimerRaces, NEW c \in Cpu, InThread(c)
    PROVE  /\ cur[c] \in Thread /\ state[cur[c]] = "RUNNING" /\ timer[cur[c]] = NULL
           /\ \A d \in Cpu, t \in Thread : firing[d] # <<t, "wait">>
<1>1. firing[c] = NULL /\ ((\A d \in Cpu : d = c) \/ "timed_block" \notin Calls)
  BY DEF InThread, Executes, NoTimerRaces
<1>2. \A t \in Thread, x \in {"wait"} : NULL # <<t, x>>
  BY NULLAssumption
<1>3. \A d \in Cpu, t \in Thread : firing[d] # <<t, "wait">>
  BY <1>1, <1>2 DEF TimersSingle
<1>4. QED BY <1>3, Current, ZenonT(30) DEF TimersSingle, InThread

\* The threads of the other cpus are others, and have no timers.
LEMMA OthersUnarmed ==
    ASSUME IInv, TimersSingle, NEW c \in Cpu, NEW d \in Cpu, d # c, ~is_idle(cur[d])
    PROVE  cur[d] \in Thread /\ cur[d] # cur[c] /\ timer[cur[d]] = NULL
<1>1. cur[d] # cur[c]
  BY DEF IInv, RunsOnOneCpu
<1>2. QED BY <1>1, Current, ZenonT(30) DEF TimersSingle

LEMMA SleepRefines ==
    ASSUME IInv, TimersSingle, NoTimerRaces, NEW c \in Cpu, thread_sleep(c)
    PROVE  Waits!Next /\ TimersSingle'
<1> DEFINE st == [state EXCEPT ![cur[c]] = "SLEEPING"]
           tm == [timer EXCEPT ![cur[c]] = c]
<1>1. /\ thread_resched(c, rq, st, quantum, tm) /\ priority' = priority /\ firing' = firing
      /\ ret' = ret /\ wait' = wait /\ InThread(c)
  BY DEF thread_sleep, Runs, threadAttrs, irqVars, waitVars
<1>2. /\ cur[c] \in Thread /\ state[cur[c]] = "RUNNING" /\ timer[cur[c]] = NULL
      /\ \A d \in Cpu, t \in Thread : firing[d] # <<t, "wait">>
  BY <1>1, CurrentUnarmed
<1>3. /\ timer \in [Thread -> Cpu \cup {NULL}] /\ state \in [AllThreads -> States] /\ "SLEEPING" \in States
      /\ priority' \in [Thread -> Priority] /\ tm \in [Thread -> Cpu \cup {NULL}]
  BY <1>1, ZenonT(30) DEF IInv, Types, States
<1>4. Prepared(c, rq, st)
  BY <1>1, <1>2, <1>3, StopsExact, Prepare, ZenonT(30)
<1>5. /\ \A t \in Thread : st[t] = IF t = cur[c] THEN "SLEEPING" ELSE state[t]
      /\ \A t \in Thread : tm[t] = IF t = cur[c] THEN c ELSE timer[t]
  BY <1>3, IdleThreads
<1> HIDE DEF st, tm
<1>6. /\ Waits!SomeRun(Sched(st, ret', tm, firing, wait'))
      /\ Resumes(c, st, tm)
  BY <1>1, <1>3, <1>4, Resched
<1>7. Sched(st, ret, tm, firing, wait) = Sched(state, ret, timer, firing, wait)
  <2>1. Armed(st, tm, firing) = Armed(state, timer, firing)
    BY <1>2, <1>5 DEF Armed
  <2>2. QED BY <2>1, <1>2, <1>5, SchedSame
<1>8. Waits!Next
  BY <1>1, <1>6, <1>7 DEF Waits!Next
<1>9. TimersSingle'
  <2>1. \A t \in Thread : st[t] \in {"DEATH", "SUSPENDED"} => ret'[t] = "NO_ERROR"
    BY <1>1, <1>5 DEF TimersSingle
  <2>2. \A d \in Cpu : d # c /\ ~is_idle(cur[d]) => tm[cur[d]] = NULL
    BY <1>5, OthersUnarmed
  <2>3. "timed_block" \notin Calls => \A t \in Thread : tm[t] # NULL => st[t] = "SLEEPING"
    BY <1>5 DEF TimersSingle
  <2>4. TimersLeft(c, st, tm)
    BY <2>1, <2>2, <2>3, <1>2 DEF TimersLeft
  <2>5. QED BY <2>4, <1>1, <1>6, SwitchSingle
<1>10. QED BY <1>8, <1>9

LEMMA BlockRefines ==
    ASSUME IInv, TimersSingle, NoTimerRaces, NEW c \in Cpu, NEW timed \in BOOLEAN, wait_queue_block(c, timed)
    PROVE  Waits!Next /\ TimersSingle'
<1> DEFINE t == cur[c]
           st == [state EXCEPT ![t] = "BLOCKED"]
           tm == IF timed THEN [timer EXCEPT ![t] = c] ELSE timer
           timeout == IF timed THEN "FINITE" ELSE "INFINITE"
           s == Sched(state, ret, timer, firing, wait)
<1>r. thread_resched(c, rq, st, quantum, tm) /\ firing' = firing
  BY DEF wait_queue_block, Enqueue, Runs, irqVars
<1>1. /\ priority' = priority /\ ret' = [ret EXCEPT ![t] = "NO_ERROR"]
      /\ wait' = Append(wait, t) /\ InThread(c)
  BY DEF wait_queue_block, Enqueue, Runs, threadAttrs
<1>2. /\ t \in Thread /\ state[t] = "RUNNING" /\ timer[t] = NULL
      /\ \A d \in Cpu, u \in Thread : firing[d] # <<u, "wait">>
  BY <1>1, CurrentUnarmed
<1>3. /\ timer \in [Thread -> Cpu \cup {NULL}] /\ state \in [AllThreads -> States] /\ "BLOCKED" \in States
      /\ priority' \in [Thread -> Priority] /\ tm \in [Thread -> Cpu \cup {NULL}]
      /\ wait \in Seq(Thread) /\ ret \in [Thread -> {"NO_ERROR", "ERR_TIMED_OUT"}]
  BY <1>1, ZenonT(30) DEF IInv, Types, States, Waiting
<1>4. Prepared(c, rq, st)
  BY <1>1, <1>2, <1>3, StopsExact, Prepare, ZenonT(30)
<1>5. /\ \A u \in Thread : st[u] = IF u = t THEN "BLOCKED" ELSE state[u]
      /\ \A u \in Thread : tm[u] = IF u = t /\ timed THEN c ELSE timer[u]
      /\ timeout \in {"FINITE", "INFINITE"} /\ (timeout = "INFINITE" <=> ~timed)
  BY <1>2, <1>3, IdleThreads
<1> HIDE DEF t, st, tm, timeout
<1>6. /\ Waits!SomeRun(Sched(st, ret', tm, firing, wait'))
      /\ Resumes(c, st, tm)
  BY <1>r, <1>3, <1>4, Resched
<1>7. Sched(st, ret', tm, firing, wait') = Waits!wait_queue_block(s, "wait", t, timeout)
  <2> DEFINE f(x) == [u \in Thread |-> IF x[u] = "BLOCKED" THEN "BLOCKED" ELSE "READY"]
             g(x) == [u \in Thread |-> IF x[u] = "BLOCKED" THEN "wait" ELSE NULL]
             l(x) == [q \in {"wait"} |-> x]
  <2>1. f(st) = [f(state) EXCEPT ![t] = "BLOCKED"] /\ g(st) = [g(state) EXCEPT ![t] = "wait"]
    BY <1>2, <1>5, ZenonT(30)
  <2>2. Armed(st, tm, firing) = IF timeout = "INFINITE" THEN Armed(state, timer, firing)
                                ELSE Armed(state, timer, firing) \cup {t}
    BY <1>2, <1>5, NULLAssumption DEF Armed
  <2>3. /\ l(wait') = [l(wait) EXCEPT !["wait"] = Append(@, t)]
        /\ l(Len(wait')) = [l(Len(wait)) EXCEPT !["wait"] = @ + 1]
    <3>1. Len(wait') = Len(wait) + 1
      BY <1>1, <1>2, <1>3, AppendProperties
    <3>2. QED BY <3>1, <1>1, ZenonT(30)
  <2> DEFINE A == Armed(state, timer, firing)
             B == Armed(st, tm, firing)
  <2>4. /\ s = [state |-> f(state), blocking_wait_queue |-> g(state), wait_queue_block_ret |-> ret,
               timer |-> A, list |-> l(wait), count |-> l(Len(wait))]
        /\ Sched(st, ret', tm, firing, wait') =
              [state |-> f(st), blocking_wait_queue |-> g(st), wait_queue_block_ret |-> ret',
               timer |-> B, list |-> l(wait'), count |-> l(Len(wait'))]
    BY DEF Sched
  <2> HIDE DEF s, f, g, l, A, B
  <2>5. QED BY <2>1, <2>2, <2>3, <2>4, <1>1 DEF Waits!wait_queue_block, A, B
<1>8. s.state[t] = "READY" /\ t \notin s.timer
  BY <1>2 DEF Sched, Armed
<1>9. Waits!Next
  <2> HIDE DEF s
  <2>1. Waits!SomeRun(Waits!wait_queue_block(s, "wait", t, timeout))
    BY <1>6, <1>7
  <2>2. Waits!block(t, timeout)
    BY <2>1, <1>8 DEF Waits!block, Waits!QUEUE, s
  <2>3. QED BY <2>2, <1>2, <1>5 DEF Waits!Next
<1>10. TimersSingle'
  <2>1. \A u \in Thread : st[u] \in {"DEATH", "SUSPENDED"} => ret'[u] = "NO_ERROR"
    BY <1>1, <1>3, <1>5, SMTT(30) DEF TimersSingle
  <2>2. \A d \in Cpu : d # c /\ ~is_idle(cur[d]) => tm[cur[d]] = NULL
    BY <1>5, OthersUnarmed DEF t
  <2>3. timed => "timed_block" \in Calls
    BY DEF wait_queue_block, Runs
  <2>4. "timed_block" \notin Calls => \A u \in Thread : tm[u] # NULL => st[u] = "SLEEPING"
    BY <2>3, <1>2, <1>5 DEF TimersSingle
  <2>5. TimersLeft(c, st, tm)
    BY <2>1, <2>2, <2>4, <1>2 DEF TimersLeft
  <2>6. QED BY <2>5, <1>r, <1>6, SwitchSingle
<1>11. QED BY <1>9, <1>10

\* What a wake-up of the threads ts leaves to wait_queue_block() to return.
Returns(ts) == [t \in Thread |-> IF t \in Range(ts) THEN "NO_ERROR" ELSE ret[t]]

\* A wake-up is one step of the primitives, whether the waker goes on or is preempted.
LEMMA WakeRuns ==
    ASSUME IInv, TimersSingle, NoTimerRaces, NEW c \in Cpu, NEW ts, FromHead(ts),
           WakeQuietly(c, ts) \/ (WakeAndReschedule(c, ts) /\ InThread(c))
    PROVE  /\ Waits!SomeRun(Sched(MakeReady(Range(ts)), Returns(ts), timer, firing,
                                  SubSeq(wait, Len(ts) + 1, Len(wait))))
           /\ TimersSingle'
<1> DEFINE s1 == MakeReady(Range(ts))
<1>1. WakeUp(ts) /\ wait' = SubSeq(wait, Len(ts) + 1, Len(wait)) /\ ret' = Returns(ts)
  BY DEF WakeQuietly, WakeAndReschedule, WakeUp, Returns
<1>2. \A t \in Thread : /\ s1[t] = IF t \in Range(ts) THEN "READY" ELSE state[t]
                        /\ ret'[t] = IF t \in Range(ts) THEN "NO_ERROR" ELSE ret[t]
  BY <1>1, IdleThreads DEF MakeReady, Returns
<1>3. firing' = firing /\ priority' = priority
  BY <1>1 DEF WakeUp, threadAttrs
<1>4. CASE WakeQuietly(c, ts)
  <2>1. state' = s1 /\ timer' = timer /\ cur' = cur
    BY <1>4 DEF WakeQuietly
  <2> DEFINE none == {}
  <2>2. /\ Armed(state', timer', firing') = Armed(s1, timer, firing) \ none
        /\ none \in SUBSET Thread /\ \A t \in none : s1[t] # "BLOCKED"
    BY <2>1, <1>3
  <2> HIDE DEF s1, none
  <2>3. Waits!SomeRun(Sched(s1, ret', timer, firing, wait'))
    BY <2>1, <2>2, Run
  <2>4. TimersSingle'
    <3>1. \A t \in Range(ts) : state[t] = "BLOCKED"
      BY DEF FromHead
    <3>2. QED BY <3>1, <2>1, <1>2, <1>3 DEF TimersSingle, is_idle
  <2>5. QED BY <2>3, <2>4, <1>1 DEF s1
<1>5. CASE WakeAndReschedule(c, ts) /\ InThread(c)
  <2> DEFINE r == Woken(ts, insert_in_run_queue_head(rq, cur[c]))
             st == MakeReady(Range(ts) \cup {cur[c]})
  <2>1. thread_resched(c, r, st, quantum, timer)
    BY <1>5 DEF WakeAndReschedule
  <2>2. Prepared(c, r, st)
    BY <1>3, <1>5, WakePrepared
  <2>3. /\ cur[c] \in Thread /\ state[cur[c]] = "RUNNING"
        /\ \A d \in Cpu, t \in Thread : firing[d] # <<t, "wait">>
    BY <1>5, CurrentUnarmed
  <2>4. \A t \in Thread : st[t] = IF t = cur[c] THEN "READY" ELSE s1[t]
    BY IdleThreads DEF MakeReady
  <2>5. /\ timer \in [Thread -> Cpu \cup {NULL}] /\ priority' \in [Thread -> Priority]
    BY <1>3 DEF IInv, Types
  <2> HIDE DEF r, st, s1
  <2>6. /\ Waits!SomeRun(Sched(st, ret', timer, firing, wait'))
        /\ Resumes(c, st, timer)
    BY <2>1, <2>2, <2>5, <1>3, Resched
  <2>7. \A t \in Thread : (st[t] = "BLOCKED" <=> s1[t] = "BLOCKED") /\ (st[t] = "SLEEPING" <=> s1[t] = "SLEEPING")
    BY <2>3, <2>4, <1>2
  <2>8. Armed(st, timer, firing) = Armed(s1, timer, firing)
    BY <2>7 DEF Armed
  <2>9. Sched(st, ret', timer, firing, wait') = Sched(s1, ret', timer, firing, wait')
    BY <2>7, <2>8, SchedSame
  <2>10. TimersSingle'
    <3>1. \A t \in Thread : st[t] \in {"DEATH", "SUSPENDED"} => ret'[t] = "NO_ERROR"
      BY <2>4, <1>2 DEF TimersSingle
    <3>2. \A d \in Cpu : d # c /\ ~is_idle(cur[d]) => timer[cur[d]] = NULL
      BY DEF TimersSingle
    <3>3. \A t \in Range(ts) : state[t] = "BLOCKED"
      BY DEF FromHead
    <3>4. "timed_block" \notin Calls => \A t \in Thread : timer[t] # NULL => st[t] = "SLEEPING"
      BY <3>3, <2>3, <2>4, <1>2, SMTT(30) DEF TimersSingle
    <3>5. TimersLeft(c, st, timer)
      BY <3>1, <3>2, <3>4, <2>3 DEF TimersLeft
    <3>6. QED BY <3>5, <2>6, <1>3, SwitchSingle
  <2>11. Waits!SomeRun(Sched(s1, ret', timer, firing, wait'))
    BY <2>6, <2>9
  <2>12. QED BY <2>10, <2>11, <1>1 DEF s1
<1>6. QED BY <1>4, <1>5

\* wait_queue_wake_one() takes the first thread off the queue, ...
LEMMA WakeOneRefines ==
    ASSUME IInv, TimersSingle, NoTimerRaces, NEW c \in Cpu, wait_queue_wake_one(c)
    PROVE  Waits!Next /\ TimersSingle'
<1> DEFINE s == Sched(state, ret, timer, firing, wait)
           s1 == MakeReady(Range(First))
           l1 == SubSeq(wait, Len(First) + 1, Len(wait))
           h == Head(wait)
<1>1. /\ FromHead(First) /\ First # <<>>
      /\ WakeQuietly(c, First) \/ (WakeAndReschedule(c, First) /\ InThread(c))
  BY HeadsOfWait, ZenonT(30) DEF wait_queue_wake_one, Runs, WakeQuietly, WakeAndReschedule, WakeUp
<1>2. Waits!SomeRun(Sched(s1, Returns(First), timer, firing, l1)) /\ TimersSingle'
  BY <1>1, WakeRuns
<1>3. wait \in Seq(Thread) /\ IsInjective(wait) /\ ret \in [Thread -> {"NO_ERROR", "ERR_TIMED_OUT"}]
      /\ Range(wait) = {t \in Thread : state[t] = "BLOCKED"}
  BY DEF IInv, Waiting, Types
<1>4. wait # <<>> /\ h \in Thread /\ First = <<h>> /\ Len(First) = 1 /\ Len(wait) \in Nat /\ Len(wait) >= 1
  <2>1. Len(wait) \in Nat /\ (Len(wait) = 0 <=> wait = <<>>)
    BY <1>3, LenProperties, EmptySeq
  <2>2. {1, Len(wait)} \in SUBSET Nat /\ {1, Len(wait)} # {}
    BY <2>1
  <2>3. Min({1, Len(wait)}) \in {1, Len(wait)} /\ \A k \in {1, Len(wait)} : Min({1, Len(wait)}) <= k
    BY <2>2, MinIsLeast
  <2>4. CASE Len(wait) = 0
    <3>1. Min({1, Len(wait)}) = 0
      BY <2>3, <2>4
    <3>2. First = <<>>
      BY <3>1, SubSeqEmpty DEF First
    <3>3. QED BY <3>2, <1>1
  <2>5. CASE Len(wait) >= 1
    <3>1. Min({1, Len(wait)}) = 1
      BY <2>1, <2>3, <2>5
    <3>2. First = SubSeq(wait, 1, 1) /\ h = wait[1] /\ h \in Thread
      BY <3>1, <2>1, <2>5, <1>3, HeadTailProperties, ElementOfSeq DEF First
    <3>3. /\ First \in Seq(Thread) /\ Len(First) = 1 /\ First[1] = h
      BY <3>2, <2>1, <2>5, <1>3, SubSeqProperties
    <3>4. First = <<h>>
      BY <3>3
    <3>5. wait # <<>> /\ h \in Thread
      BY <3>2, <2>1, <2>5
    <3> HIDE DEF h
    <3>6. QED BY <3>3, <3>4, <3>5, <2>1, <2>5
  <2>6. QED BY <2>1, <2>4, <2>5
<1>5. l1 = Tail(wait) /\ Len(l1) = Len(wait) - 1
  BY <1>3, <1>4, HeadTailProperties
<1>6. Waits!list_delete(wait, h) = Tail(wait)
  BY <1>3, <1>4, CutHead, ZenonT(30) DEF Waits!list_delete
<1>7. Range(First) = {h} /\ \A t \in Thread : s1[t] = IF t = h THEN "READY" ELSE state[t]
  <2>1. Range(First) = {h}
    BY <1>4 DEF Range
  <2>2. QED BY <2>1, IdleThreads DEF MakeReady
<1>8. Sched(s1, Returns(First), timer, firing, l1) = Waits!wait_queue_wake_one(s, "wait", "NO_ERROR")
  <2> DEFINE f(x) == [u \in Thread |-> IF x[u] = "BLOCKED" THEN "BLOCKED" ELSE "READY"]
             g(x) == [u \in Thread |-> IF x[u] = "BLOCKED" THEN "wait" ELSE NULL]
             l(x) == [q \in {"wait"} |-> x]
  <2> HIDE DEF h, s1, l1
  <2>1. f(s1) = [f(state) EXCEPT ![h] = "READY"] /\ g(s1) = [g(state) EXCEPT ![h] = NULL]
    BY <1>4, <1>7, ZenonT(30)
  <2>2. Returns(First) = [ret EXCEPT ![h] = "NO_ERROR"]
    BY <1>3, <1>4, <1>7, ZenonT(30) DEF Returns
  <2>3. state[h] = "BLOCKED"
    BY <1>1, <1>7 DEF FromHead
  <2>4. Armed(s1, timer, firing) = Armed(state, timer, firing)
    BY <2>3, <1>7 DEF Armed
  <2>5. l(l1) = [l(wait) EXCEPT !["wait"] = Waits!list_delete(@, h)]
    BY <1>5, <1>6, ZenonT(30)
  <2>6. l(Len(l1)) = [l(Len(wait)) EXCEPT !["wait"] = @ - 1]
    BY <1>5, ZenonT(30)
  <2> DEFINE A == Armed(state, timer, firing)
  <2>7. /\ s = [state |-> f(state), blocking_wait_queue |-> g(state), wait_queue_block_ret |-> ret,
               timer |-> A, list |-> l(wait), count |-> l(Len(wait))]
        /\ Sched(s1, Returns(First), timer, firing, l1) =
              [state |-> f(s1), blocking_wait_queue |-> g(s1), wait_queue_block_ret |-> Returns(First),
               timer |-> A, list |-> l(l1), count |-> l(Len(l1))]
    BY <2>4 DEF Sched
  <2>8. s.list["wait"] = wait /\ Head(s.list["wait"]) = h
    BY DEF Sched, h
  <2> HIDE DEF s, f, g, l, A
  <2>9. Waits!wait_queue_wake_one(s, "wait", "NO_ERROR") = Waits!Wake(s, "wait", h, "NO_ERROR")
    BY <2>8, <1>4 DEF Waits!wait_queue_wake_one
  <2>10. QED BY <2>1, <2>2, <2>5, <2>6, <2>7, <2>9 DEF Waits!Wake
<1>9. Waits!wake_one
  BY <1>2, <1>8 DEF Waits!wake_one, Waits!QUEUE
<1>10. QED BY <1>2, <1>9 DEF Waits!Next

\* ... wait_queue_wake_all() all of them.
LEMMA WakeAllRefines ==
    ASSUME IInv, TimersSingle, NoTimerRaces, NEW c \in Cpu, wait_queue_wake_all(c)
    PROVE  Waits!Next /\ TimersSingle'
<1> DEFINE s == Sched(state, ret, timer, firing, wait)
           s1 == MakeReady(Range(wait))
           l1 == SubSeq(wait, Len(wait) + 1, Len(wait))
<1>1. FromHead(wait) /\ (WakeQuietly(c, wait) \/ (WakeAndReschedule(c, wait) /\ InThread(c)))
  BY HeadsOfWait DEF wait_queue_wake_all, Runs
<1>2. Waits!SomeRun(Sched(s1, Returns(wait), timer, firing, l1)) /\ TimersSingle'
  BY <1>1, WakeRuns
<1>3. Len(wait) \in Nat /\ l1 = <<>> /\ Len(l1) = 0
  <2>1. Len(wait) \in Nat
    BY LenProperties DEF IInv, Waiting
  <2>2. l1 = <<>>
    BY <2>1, SubSeqEmpty
  <2>3. QED BY <2>1, <2>2
<1>4. \A t \in Thread : s1[t] = IF t \in Range(wait) THEN "READY" ELSE state[t]
  BY IdleThreads DEF MakeReady
<1>5. Sched(s1, Returns(wait), timer, firing, l1) = Waits!wait_queue_wake_all(s, "wait", "NO_ERROR")
  <2> DEFINE f(x) == [u \in Thread |-> IF x[u] = "BLOCKED" THEN "BLOCKED" ELSE "READY"]
             g(x) == [u \in Thread |-> IF x[u] = "BLOCKED" THEN "wait" ELSE NULL]
             l(x) == [q \in {"wait"} |-> x]
             A == Armed(state, timer, firing)
             W == Range(wait)
  <2> HIDE DEF s1, l1
  <2>1. /\ f(s1) = [t \in Thread |-> IF t \in W THEN "READY" ELSE f(state)[t]]
        /\ g(s1) = [t \in Thread |-> IF t \in W THEN NULL ELSE g(state)[t]]
        /\ Returns(wait) = [t \in Thread |-> IF t \in W THEN "NO_ERROR" ELSE ret[t]]
    BY <1>4 DEF Returns
  <2>2. \A t \in W : state[t] = "BLOCKED"
    BY <1>1 DEF FromHead
  <2>3. Armed(s1, timer, firing) = A
    BY <2>2, <1>4 DEF Armed
  <2>4. l(l1) = [l(wait) EXCEPT !["wait"] = <<>>] /\ l(Len(l1)) = [l(Len(wait)) EXCEPT !["wait"] = @ - Len(wait)]
    <3>1. l1 = <<>> /\ Len(l1) = Len(wait) - Len(wait)
      BY <1>3
    <3>2. l(Len(l1)) = [l(Len(wait)) EXCEPT !["wait"] = @ - Len(wait)]
      BY <3>1
    <3>3. QED BY <3>1, <3>2, ZenonT(30)
  <2>5. /\ s = [state |-> f(state), blocking_wait_queue |-> g(state), wait_queue_block_ret |-> ret,
               timer |-> A, list |-> l(wait), count |-> l(Len(wait))]
        /\ Sched(s1, Returns(wait), timer, firing, l1) =
              [state |-> f(s1), blocking_wait_queue |-> g(s1), wait_queue_block_ret |-> Returns(wait),
               timer |-> A, list |-> l(l1), count |-> l(Len(l1))]
    BY <2>3, ZenonT(30) DEF Sched
  <2>6. s.list["wait"] = wait /\ Waits!On(s, "wait") = W
    BY ZenonT(30) DEF Sched, Waits!On, Waits!Range, Range
  <2> HIDE DEF s, f, g, l, A, W
  <2>7. /\ s.state = f(state) /\ s.blocking_wait_queue = g(state) /\ s.wait_queue_block_ret = ret
        /\ s.timer = A /\ s.list = l(wait) /\ s.count = l(Len(wait))
    BY <2>5
  <2>8. Waits!wait_queue_wake_all(s, "wait", "NO_ERROR") =
            [state |-> [t \in Thread |-> IF t \in W THEN "READY" ELSE f(state)[t]],
             blocking_wait_queue |-> [t \in Thread |-> IF t \in W THEN NULL ELSE g(state)[t]],
             wait_queue_block_ret |-> [t \in Thread |-> IF t \in W THEN "NO_ERROR" ELSE ret[t]],
             timer |-> A,
             list |-> [l(wait) EXCEPT !["wait"] = <<>>],
             count |-> [l(Len(wait)) EXCEPT !["wait"] = @ - Len(wait)]]
    BY <2>6, <2>7, ZenonT(30) DEF Waits!wait_queue_wake_all
  <2>9. QED BY <2>1, <2>4, <2>5, <2>8, ZenonT(30)
<1>6. Waits!wake_all
  BY <1>2, <1>5 DEF Waits!wake_all, Waits!QUEUE
<1>7. QED BY <1>2, <1>6 DEF Waits!Next

-----------------------------------------------------------------------------

\* A wait that times out, unless its thread was woken before.
LEMMA TimeoutRefines ==
    ASSUME IInv, TimersSingle, NoTimerRaces, NEW c \in Cpu, wait_queue_timeout_handler(c)
    PROVE  Waits!Next /\ TimersSingle'
<1> DEFINE t == firing[c][1]
           s == Sched(state, ret, timer, firing, wait)
<1>1. /\ firing[c] # NULL /\ firing[c][2] = "wait" /\ firing' = [firing EXCEPT ![c] = NULL]
      /\ timer' = timer /\ cur' = cur
      /\ \/ /\ state[t] = "BLOCKED" /\ wait' = list_delete(wait, t)
            /\ state' = [state EXCEPT ![t] = "READY"] /\ ret' = [ret EXCEPT ![t] = "ERR_TIMED_OUT"]
         \/ state[t] # "BLOCKED" /\ wait' = wait /\ state' = state /\ ret' = ret
  BY DEF wait_queue_timeout_handler, Without
<1>2. t \in Thread /\ firing[c] = <<t, "wait">>
  BY <1>1, Firing
<1> HIDE DEF t
<1>3. timer[t] = NULL /\ (\A d \in Cpu : d = c) /\ "timed_block" \in Calls
  BY <1>2 DEF TimersSingle, NoTimerRaces
<1>4. /\ state \in [AllThreads -> States] /\ ret \in [Thread -> {"NO_ERROR", "ERR_TIMED_OUT"}]
      /\ wait \in Seq(Thread) /\ IsInjective(wait) /\ Range(wait) = {u \in Thread : state[u] = "BLOCKED"}
      /\ firing \in [Cpu -> (Thread \X {"sleep", "wait"}) \cup {NULL}]
  BY DEF IInv, Types, Waiting
<1>5. \A d \in Cpu, u \in Thread : firing'[d] = NULL /\ firing'[d] # <<u, "wait">>
  <2>1. \A d \in Cpu : firing'[d] = NULL
    BY <1>1, <1>3, <1>4
  <2>2. \A u \in Thread, x \in {"wait"} : NULL # <<u, x>>
    BY NULLAssumption
  <2>3. QED BY <2>1, <2>2
<1>6. \A u \in Thread : u # t => \A d \in Cpu : firing[d] # <<u, "wait">>
  BY <1>2, <1>3
<1>7. /\ \A u \in Thread : u # t => state'[u] = state[u] /\ ret'[u] = ret[u]
      /\ (state'[t] = state[t] /\ ret'[t] = ret[t]) \/ state'[t] = "READY"
  BY <1>1, <1>2, <1>4, IdleThreads
<1>8. Armed(state', timer', firing') = Armed(state, timer, firing) \ {t}
  BY <1>1, <1>3, <1>5, <1>6, <1>7 DEF Armed
<1>9. TimersSingle'
  BY <1>1, <1>3, <1>5, <1>7, SMTT(30) DEF TimersSingle, is_idle
<1>10. CASE state[t] # "BLOCKED"
  <2> DEFINE run == {t}
  <2>1. /\ run \in SUBSET Thread /\ \A u \in run : state[u] # "BLOCKED"
        /\ Armed(state', timer', firing') = Armed(state, timer, firing) \ run
        /\ ret' = ret /\ wait' = wait /\ state' = state
    BY <1>1, <1>2, <1>8, <1>10, ZenonT(30)
  <2> HIDE DEF run
  <2>2. Waits!Next
    BY <2>1, Quiet
  <2>3. QED BY <2>2, <1>9
<1>11. CASE state[t] = "BLOCKED"
  <2>1. /\ wait' = list_delete(wait, t) /\ ret' = [ret EXCEPT ![t] = "ERR_TIMED_OUT"]
        /\ \A u \in Thread : state'[u] = IF u = t THEN "READY" ELSE state[u]
    BY <1>1, <1>2, <1>4, <1>11, IdleThreads
  <2>2. Len(wait') = Len(wait) - 1 /\ list_delete(wait, t) = Waits!list_delete(wait, t)
    <3>1. t \in Range(wait)
      BY <1>2, <1>4, <1>11
    <3>2. QED BY <3>1, <2>1, <1>4, DeleteElements, ZenonT(30) DEF list_delete, Waits!list_delete
  <2> DEFINE f(x) == [u \in Thread |-> IF x[u] = "BLOCKED" THEN "BLOCKED" ELSE "READY"]
             g(x) == [u \in Thread |-> IF x[u] = "BLOCKED" THEN "wait" ELSE NULL]
             l(x) == [q \in {"wait"} |-> x]
             A == Armed(state, timer, firing)
             n == Sched(state', ret', timer', firing', wait')
             one == {t}
             v == [state |-> f(state), blocking_wait_queue |-> g(state), wait_queue_block_ret |-> ret,
                   timer |-> A \ one, list |-> l(wait), count |-> l(Len(wait))]
  <2>3. f(state') = [f(state) EXCEPT ![t] = "READY"] /\ g(state') = [g(state) EXCEPT ![t] = NULL]
    BY <2>1, <1>2, ZenonT(30)
  <2>4. l(wait') = [l(wait) EXCEPT !["wait"] = Waits!list_delete(@, t)]
    BY <2>1, <2>2
  <2>5. l(Len(wait')) = [l(Len(wait)) EXCEPT !["wait"] = @ - 1]
    BY <2>2
  <2>s. s = [state |-> f(state), blocking_wait_queue |-> g(state), wait_queue_block_ret |-> ret,
             timer |-> A, list |-> l(wait), count |-> l(Len(wait))]
    BY DEF Sched
  <2>6. n = [state |-> f(state'), blocking_wait_queue |-> g(state'), wait_queue_block_ret |-> ret',
             timer |-> A \ {t}, list |-> l(wait'), count |-> l(Len(wait'))]
    BY <1>8 DEF Sched
  <2>7. f(state)[t] = "BLOCKED" /\ g(state)[t] = "wait" /\ t \in A
    BY <1>2, <1>11 DEF Armed
  <2> HIDE DEF s, f, g, l, A, n
  <2>8. v = [state |-> f(state), blocking_wait_queue |-> g(state), wait_queue_block_ret |-> ret,
             timer |-> A \ one, list |-> l(wait), count |-> l(Len(wait))]
    OBVIOUS
  <2> HIDE DEF v, one
  <2>w. v = [s EXCEPT !.timer = @ \ one]
    <3> DEFINE F == f(state)
               G == g(state)
               L == l(wait)
               K == l(Len(wait))
    <3>1. /\ s = [state |-> F, blocking_wait_queue |-> G, wait_queue_block_ret |-> ret,
                 timer |-> A, list |-> L, count |-> K]
          /\ v = [state |-> F, blocking_wait_queue |-> G, wait_queue_block_ret |-> ret,
                 timer |-> A \ one, list |-> L, count |-> K]
      BY <2>s, <2>8
    <3> HIDE DEF F, G, L, K
    <3>2. QED BY <3>1, SMTT(30)
  <2>9. Waits!wait_queue_timeout_handler(s, t) = Waits!thread_unblock_from_wait_queue(v, t, "ERR_TIMED_OUT")
    BY <2>w DEF Waits!wait_queue_timeout_handler, one
  <2>10. Waits!thread_unblock_from_wait_queue(v, t, "ERR_TIMED_OUT") = Waits!Wake(v, "wait", t, "ERR_TIMED_OUT")
    BY <2>7, <2>8 DEF Waits!thread_unblock_from_wait_queue
  <2>11. n = Waits!Wake(v, "wait", t, "ERR_TIMED_OUT")
    BY <2>1, <2>3, <2>4, <2>5, <2>6, <2>8 DEF Waits!Wake, one
  <2>12. Waits!SomeRun(n)
    <3> DEFINE none == {}
    <3>1. /\ none \in SUBSET Thread /\ \A u \in none : state'[u] # "BLOCKED"
          /\ Armed(state', timer', firing') = Armed(state', timer', firing') \ none
      OBVIOUS
    <3> HIDE DEF none
    <3>2. Waits!SomeRun(Sched(state', ret', timer', firing', wait'))
      BY <3>1, Run
    <3>3. QED BY <3>2 DEF n
  <2>13. Waits!SomeRun(Waits!wait_queue_timeout_handler(s, t)) /\ t \in s.timer
    BY <2>s, <2>7, <2>9, <2>10, <2>11, <2>12
  <2>14. Waits!timeout_handler(t)
    BY <2>13 DEF Waits!timeout_handler, s
  <2>15. QED BY <2>14, <1>2, <1>9 DEF Waits!Next
<1>12. QED BY <1>10, <1>11

\* A step that readies, creates or runs threads without a wait or a timer.
LEMMA QuietStep ==
    ASSUME TimersSingle, wait' = wait, ret' = ret, timer' = timer, firing' = firing, cur' = cur,
           \A t \in Thread : \/ state'[t] = state[t]
                            \/ (state[t] \in {"DEATH", "SUSPENDED"} /\ state'[t] \in {"SUSPENDED", "READY"})
    PROVE  Waits!Next /\ TimersSingle'
<1> DEFINE none == {}
<1>1. /\ Armed(state', timer', firing') = Armed(state, timer, firing) \ none
      /\ none \in SUBSET Thread /\ \A t \in none : state[t] # "BLOCKED"
      /\ \A t \in Thread : state'[t] = "BLOCKED" <=> state[t] = "BLOCKED"
  BY DEF Armed
<1> HIDE DEF none
<1>2. Waits!Next
  BY <1>1, Quiet
<1>3. TimersSingle'
  BY DEF TimersSingle, is_idle
<1>4. QED BY <1>2, <1>3

\* timer_tick() takes the timer off the queue and holds it until its handler has run.
LEMMA TickRefines ==
    ASSUME IInv, TimersSingle, NEW c \in Cpu, NEW t \in Thread, timer_tick(c, t)
    PROVE  Waits!Next /\ TimersSingle'
<1> DEFINE none == {}
           kind == IF state[t] = "SLEEPING" THEN "sleep" ELSE "wait"
<1>1. /\ timer[t] = c /\ firing[c] = NULL /\ timer' = [timer EXCEPT ![t] = NULL]
      /\ firing' = [firing EXCEPT ![c] = <<t, kind>>]
      /\ state' = state /\ cur' = cur /\ ret' = ret /\ wait' = wait
  BY DEF timer_tick, TakesTimer, Executes, waitVars
<1>2. /\ firing \in [Cpu -> (Thread \X {"sleep", "wait"}) \cup {NULL}] /\ timer \in [Thread -> Cpu \cup {NULL}]
  BY DEF IInv, Types
<1>3. /\ \A u \in Thread : timer'[u] = IF u = t THEN NULL ELSE timer[u]
      /\ \A u \in Thread : firing'[c] = <<u, "wait">> <=> u = t /\ state[t] # "SLEEPING"
      /\ \A d \in Cpu : d # c => firing'[d] = firing[d]
  BY <1>1, <1>2
<1>4. \A u \in Thread : firing[c] # <<u, "wait">>
  BY <1>1, NULLAssumption
<1>5. timer[t] # NULL
  BY <1>1, NULLAssumption
<1>6. Armed(state', timer', firing') = Armed(state, timer, firing) \ none
  <2>1. ASSUME NEW u \in Thread, u # t
        PROVE  u \in Armed(state', timer', firing') <=> u \in Armed(state, timer, firing)
    <3>1. (\E d \in Cpu : firing'[d] = <<u, "wait">>) <=> \E d \in Cpu : firing[d] = <<u, "wait">>
      BY <2>1, <1>3, <1>4
    <3>2. QED BY <3>1, <2>1, <1>1, <1>3, SMTT(30) DEF Armed
  <2>2. t \in Armed(state', timer', firing') <=> t \in Armed(state, timer, firing)
    BY <1>1, <1>3, <1>5 DEF Armed
  <2>3. Armed(state', timer', firing') \subseteq Thread /\ Armed(state, timer, firing) \subseteq Thread
    BY DEF Armed
  <2>4. QED BY <2>1, <2>2, <2>3
<1>7. none \in SUBSET Thread /\ \A u \in none : state[u] # "BLOCKED"
  OBVIOUS
<1> HIDE DEF none
<1>8. Waits!Next
  BY <1>1, <1>6, <1>7, Quiet, ZenonT(30)
<1>9. TimersSingle'
  <2>1. /\ \A d \in Cpu : ~is_idle(cur'[d]) => timer'[cur'[d]] = NULL
        /\ \A u \in Thread : state'[u] \in {"DEATH", "SUSPENDED"} => ret'[u] = "NO_ERROR"
    <3>1. \A d \in Cpu : ~is_idle(cur[d]) => timer'[cur[d]] = NULL
      BY <1>3 DEF TimersSingle, is_idle
    <3>2. \A u \in Thread : state[u] \in {"DEATH", "SUSPENDED"} => ret[u] = "NO_ERROR"
      BY DEF TimersSingle
    <3>3. QED BY <3>1, <3>2, <1>1
  <2>2. ASSUME NEW d \in Cpu, NEW u \in Thread, firing'[d] = <<u, "wait">>
        PROVE  timer'[u] = NULL /\ "timed_block" \in Calls
    <3>1. CASE d = c
      BY <3>1, <2>2, <1>3, <1>5 DEF TimersSingle
    <3>2. CASE d # c
      BY <3>2, <2>2, <1>3, SMTT(30) DEF TimersSingle
    <3>3. QED BY <3>1, <3>2
  <2>3. "timed_block" \notin Calls => \A u \in Thread : timer'[u] # NULL => state'[u] = "SLEEPING"
    BY <1>1, <1>3, SMTT(30) DEF TimersSingle
  <2>4. QED BY <2>1, <2>2, <2>3, ZenonT(30) DEF TimersSingle, is_idle
<1>10. QED BY <1>8, <1>9

LEMMA SleepHandlerRefines ==
    ASSUME IInv, TimersSingle, NoTimerRaces, NEW c \in Cpu, thread_sleep_handler(c)
    PROVE  Waits!Next /\ TimersSingle'
<1> DEFINE t == firing[c][1]
           none == {}
<1>1. /\ firing[c] # NULL /\ firing[c][2] = "sleep" /\ firing' = [firing EXCEPT ![c] = NULL]
      /\ state' = [state EXCEPT ![t] = "READY"]
      /\ timer' = timer /\ cur' = cur /\ ret' = ret /\ wait' = wait
  BY ZenonT(30) DEF thread_sleep_handler, waitVars
<1>2. t \in Thread /\ firing[c] = <<t, "sleep">>
  BY <1>1, Firing
<1> HIDE DEF t
<1>3. state[t] = "SLEEPING" /\ timer[t] = NULL /\ ((\A d \in Cpu : d = c) \/ "timed_block" \notin Calls)
  BY <1>2, ZenonT(30) DEF IInv, Sleeping, NoTimerRaces
<1>4. /\ state \in [AllThreads -> States]
      /\ firing \in [Cpu -> (Thread \X {"sleep", "wait"}) \cup {NULL}]
  BY ZenonT(30) DEF IInv, Types
<1>5. \A u \in Thread : state'[u] = IF u = t THEN "READY" ELSE state[u]
  BY <1>1, <1>2, <1>4, IdleThreads
<1>6. \A d \in Cpu, u \in Thread : firing'[d] # <<u, "wait">> /\ firing[d] # <<u, "wait">>
  <2>1. firing'[c] = NULL
    BY <1>1, <1>4
  <2>2. \A u \in Thread, x \in {"wait"} : NULL # <<u, x>>
    BY NULLAssumption
  <2>3. \A d \in Cpu, u \in Thread : firing[d] # <<u, "wait">>
    <3>1. CASE \A d \in Cpu : d = c
      BY <3>1, <1>2
    <3>2. CASE "timed_block" \notin Calls
      BY <3>2 DEF TimersSingle
    <3>3. QED BY <3>1, <3>2, <1>3
  <2>4. \A d \in Cpu : d # c => firing'[d] = firing[d]
    BY <1>1, <1>4
  <2>5. QED BY <2>1, <2>2, <2>3, <2>4
<1>7. Armed(state', timer', firing') = Armed(state, timer, firing) \ none
  BY <1>1, <1>3, <1>5, <1>6 DEF Armed
<1>8. /\ none \in SUBSET Thread /\ \A u \in none : state[u] # "BLOCKED"
      /\ \A u \in Thread : state'[u] = "BLOCKED" <=> state[u] = "BLOCKED"
  BY <1>3, <1>5
<1> HIDE DEF none
<1>9. Waits!Next
  BY <1>1, <1>7, <1>8, Quiet, ZenonT(30)
<1>10. TimersSingle'
  <2>1. \A d \in Cpu : ~is_idle(cur'[d]) => timer'[cur'[d]] = NULL
    BY <1>1 DEF TimersSingle, is_idle
  <2>2. \A u \in Thread : state'[u] \in {"DEATH", "SUSPENDED"} => ret'[u] = "NO_ERROR"
    BY <1>1, <1>5, SMTT(30) DEF TimersSingle
  <2>3. "timed_block" \notin Calls => \A u \in Thread : timer'[u] # NULL => state'[u] = "SLEEPING"
    BY <1>1, <1>3, <1>5, SMTT(30) DEF TimersSingle
  <2>4. QED BY <2>1, <2>2, <2>3, <1>6, ZenonT(30) DEF TimersSingle, is_idle
<1>11. QED BY <1>9, <1>10

LEMMA CreateRefines ==
    ASSUME IInv, TimersSingle, NEW c \in Cpu, NEW t \in Thread, NEW p \in Priority, NEW pin \in Pins,
           thread_create(c, t, p, pin)
    PROVE  Waits!Next /\ TimersSingle'
<1>1. /\ state[t] = "DEATH" /\ state' = [state EXCEPT ![t] = "SUSPENDED"]
      /\ ret' = [ret EXCEPT ![t] = "NO_ERROR"]
      /\ cur' = cur /\ wait' = wait /\ timer' = timer /\ firing' = firing
  BY DEF thread_create, irqVars
<1>2. state \in [AllThreads -> States] /\ ret \in [Thread -> {"NO_ERROR", "ERR_TIMED_OUT"}]
  BY ZenonT(30) DEF IInv, Types
<1>3. ret' = ret
  BY <1>1, <1>2 DEF TimersSingle
<1>4. \A u \in Thread : \/ state'[u] = state[u]
                        \/ (state[u] \in {"DEATH", "SUSPENDED"} /\ state'[u] \in {"SUSPENDED", "READY"})
  BY <1>1, <1>2, IdleThreads
<1>5. QED BY <1>1, <1>3, <1>4, QuietStep

LEMMA ResumeRefines ==
    ASSUME IInv, TimersSingle, NEW c \in Cpu, NEW t \in Thread, thread_resume(c, t)
    PROVE  Waits!Next /\ TimersSingle'
<1>1. /\ (state[t] = "SUSPENDED" /\ state' = [state EXCEPT ![t] = "READY"]) \/ state' = state
      /\ ret' = ret
      /\ cur' = cur /\ wait' = wait /\ timer' = timer /\ firing' = firing
  BY DEF thread_resume, waitVars
<1>2. state \in [AllThreads -> States]
  BY DEF IInv, Types
<1>3. \A u \in Thread : \/ state'[u] = state[u]
                        \/ (state[u] \in {"DEATH", "SUSPENDED"} /\ state'[u] \in {"SUSPENDED", "READY"})
  BY <1>1, <1>2, IdleThreads
<1>4. QED BY <1>1, <1>3, QuietStep

-----------------------------------------------------------------------------

\* No thread has started, none waits.
LEMMA InitRefines ==
    ASSUME Init
    PROVE  Waits!Init /\ TimersSingle
<1>1. /\ \A t \in Thread : state[t] = "DEATH"
      /\ timer = [t \in Thread |-> NULL] /\ firing = [c \in Cpu |-> NULL] /\ wait = <<>>
      /\ ret = [t \in Thread |-> "NO_ERROR"] /\ cur = [c \in Cpu |-> idle_thread(c)]
  BY IdleThreads DEF Init
<1>2. \A c \in Cpu, t \in Thread : firing[c] # <<t, "wait">>
  BY <1>1, NULLAssumption
<1>3. Armed(state, timer, firing) = {}
  BY <1>1, <1>2 DEF Armed
<1>4. Len(wait) = 0
  BY <1>1
<1>5. Waits!Init
  <2> DEFINE f(x) == [u \in Thread |-> IF x[u] = "BLOCKED" THEN "BLOCKED" ELSE "READY"]
             g(x) == [u \in Thread |-> IF x[u] = "BLOCKED" THEN "wait" ELSE NULL]
  <2>1. f(state) = [t \in Thread |-> "READY"] /\ g(state) = [t \in Thread |-> NULL]
    BY <1>1
  <2>2. Sched(state, ret, timer, firing, wait) =
            [state |-> f(state), blocking_wait_queue |-> g(state), wait_queue_block_ret |-> ret,
             timer |-> {}, list |-> [q \in {"wait"} |-> wait], count |-> [q \in {"wait"} |-> 0]]
    BY <1>3, <1>4 DEF Sched
  <2> HIDE DEF f, g
  <2>3. Sched(state, ret, timer, firing, wait) = Waits!SchedInit({"wait"})
    BY <2>1, <2>2, <1>1 DEF Waits!SchedInit
  <2>4. QED BY <2>3 DEF Waits!Init, Waits!QUEUE
<1>6. TimersSingle
  BY <1>1, <1>2, IdleThreads DEF TimersSingle, is_idle
<1>7. QED BY <1>5, <1>6

\* Every step of the scheduler is a step of the wait queue.
LEMMA NextRefines ==
    ASSUME IInv, TimersSingle, NoTimerRaces, [Next]_vars
    PROVE  Waits!Next /\ TimersSingle'
<1>1. CASE UNCHANGED vars
  BY <1>1, QuietStep DEF vars
<1>2. CASE Next
  <2>1. PICK c \in Cpu :
            \/ thread_become_idle(c)
            \/ mp_set_cpu_idle(c)
            \/ \E t \in Thread, p \in Priorities \cap Priority, pin \in Pins : thread_create(c, t, p, pin)
            \/ \E t \in Thread : thread_resume(c, t)
            \/ thread_yield(c)
            \/ \E p \in Priorities : thread_set_priority(c, p)
            \/ \E t \in Thread : thread_set_real_time(c, t)
            \/ thread_exit(c)
            \/ thread_sleep(c)
            \/ \E timed \in BOOLEAN : wait_queue_block(c, timed)
            \/ wait_queue_wake_one(c)
            \/ wait_queue_wake_all(c)
            \/ Interrupt(c)
    BY <1>2 DEF Next
  <2>2. CASE thread_become_idle(c) \/ mp_set_cpu_idle(c)
    BY <2>2, QuietStep DEF thread_become_idle, mp_set_cpu_idle, irqVars, waitVars
  <2>3. ASSUME NEW t \in Thread, NEW p \in Priorities \cap Priority, NEW pin \in Pins, thread_create(c, t, p, pin)
        PROVE  Waits!Next /\ TimersSingle'
    BY <2>3, CreateRefines
  <2>4. ASSUME NEW t \in Thread, thread_resume(c, t) PROVE Waits!Next /\ TimersSingle'
    BY <2>4, ResumeRefines
  <2>5. CASE thread_yield(c)
    BY <2>5, YieldRefines
  <2>6. ASSUME NEW p \in Priorities, thread_set_priority(c, p) PROVE Waits!Next /\ TimersSingle'
    BY <2>6, SetPriorityRefines
  <2>7. ASSUME NEW t \in Thread, thread_set_real_time(c, t) PROVE Waits!Next /\ TimersSingle'
    BY <2>7, QuietStep DEF thread_set_real_time, irqVars, waitVars
  <2>8. CASE thread_exit(c)
    BY <2>8 DEF thread_exit, Runs, NoTimerRaces
  <2>9. CASE thread_sleep(c)
    BY <2>9, SleepRefines
  <2>10. ASSUME NEW timed \in BOOLEAN, wait_queue_block(c, timed) PROVE Waits!Next /\ TimersSingle'
    BY <2>10, BlockRefines
  <2>11. CASE wait_queue_wake_one(c)
    BY <2>11, WakeOneRefines
  <2>12. CASE wait_queue_wake_all(c)
    BY <2>12, WakeAllRefines
  <2>13. CASE Interrupt(c)
    <3>1. ASSUME NEW t \in Thread, timer_tick(c, t) PROVE Waits!Next /\ TimersSingle'
      BY <3>1, TickRefines
    <3>2. CASE thread_sleep_handler(c)
      BY <3>2, SleepHandlerRefines
    <3>3. CASE wait_queue_timeout_handler(c)
      BY <3>3, TimeoutRefines
    <3>4. CASE thread_timer_tick(c) \/ mp_mbx_reschedule_irq(c)
      BY <3>4, QuietStep DEF thread_timer_tick, mp_mbx_reschedule_irq, waitVars
    <3>5. CASE thread_preempt(c)
      BY <3>5, PreemptRefines
    <3>6. QED BY <3>1, <3>2, <3>3, <3>4, <3>5, <2>13 DEF Interrupt
  <2>14. QED
    BY <2>1, <2>2, <2>3, <2>4, <2>5, <2>6, <2>7, <2>8, <2>9, <2>10, <2>11, <2>12, <2>13
<1>3. QED BY <1>1, <1>2

(***************************************************************************)
(* kernel/thread.c implements the wait queue that the mutex, the event,    *)
(* the semaphore and the condition variable are proved against, if no      *)
(* thread structure is used again and either there is one cpu or no wait   *)
(* times out: every step of the scheduler, of its interrupt handlers       *)
(* included, is a step of WaitSpec.                                        *)
(***************************************************************************)
THEOREM SchedulerImplementsWaits == ASSUME NoTimerRaces PROVE Spec => ImplementsWaits
<1>1. Init => IInv /\ TimersSingle /\ Waits!Init
  BY InitIInv, InitRefines
<1>2. IInv /\ TimersSingle /\ [Next]_vars => IInv' /\ TimersSingle' /\ Waits!Next
  BY NextIInv, NextRefines
<1>3. QED BY <1>1, <1>2, PTL DEF Spec, ImplementsWaits, Waits!Spec
=============================================================================
