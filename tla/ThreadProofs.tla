---------------------------- MODULE ThreadProofs ----------------------------
(***************************************************************************)
(* The scheduler keeps its books for every number of threads, of cpus and  *)
(* of priorities, whatever its callers do: run queues, bitmap, current     *)
(* threads, cpu masks and the preemption timers.                           *)
(***************************************************************************)
EXTENDS ThreadSteps

(***************************************************************************)
(* The threads ts that a wake-up takes off the wait queue, from its head.  *)
(***************************************************************************)
FromHead(ts) ==
    /\ ts \in Seq(Thread) /\ IsInjective(ts)
    /\ \A t \in Range(ts) : t \in Thread /\ state[t] = "BLOCKED"
    /\ Waiting(SubSeq(wait, Len(ts) + 1, Len(wait)), MakeReady(Range(ts)))

LEMMA HeadsOfWait ==
    ASSUME IInv
    PROVE  FromHead(First) /\ FromHead(wait)
<1>1. wait \in Seq(Thread) /\ IsInjective(wait) /\ Range(wait) = {t \in Thread : state[t] = "BLOCKED"}
  BY DEF IInv, Waiting
<1>2. Len(wait) \in Nat
  BY <1>1, LenProperties
<1>3. ASSUME NEW k \in 0..Len(wait) PROVE FromHead(SubSeq(wait, 1, k))
  <2> DEFINE a == SubSeq(wait, 1, k)
             b == SubSeq(wait, k + 1, Len(wait))
  <2>1. /\ a \in Seq(Thread) /\ IsInjective(a) /\ Len(a) = k /\ b \in Seq(Thread) /\ IsInjective(b)
        /\ \A x : x \in Range(b) <=> x \in Range(wait) /\ x \notin Range(a)
        /\ Range(a) \subseteq Range(wait)
    BY <1>1, SplitElements
  <2> HIDE DEF a, b
  <2>2. Range(b) = {t \in Thread : MakeReady(Range(a))[t] = "BLOCKED"}
    BY <2>1, <1>1, IdleThreads DEF MakeReady
  <2>3. Waiting(b, MakeReady(Range(a)))
    BY <2>1, <2>2 DEF Waiting
  <2>4. b = SubSeq(wait, Len(a) + 1, Len(wait))
    BY <2>1 DEF b
  <2>5. FromHead(a)
    BY <2>1, <2>3, <2>4, <1>1 DEF FromHead
  <2>6. QED BY <2>5 DEF a
<1>4. FromHead(First)
  <2>1. {1, Len(wait)} \in SUBSET Nat /\ {1, Len(wait)} # {}
    BY <1>2
  <2>2. Min({1, Len(wait)}) \in {1, Len(wait)} /\ \A k \in {1, Len(wait)} : Min({1, Len(wait)}) <= k
    BY <2>1, MinIsLeast
  <2>3. Min({1, Len(wait)}) \in 0..Len(wait)
    BY <2>2, <1>2
  <2>4. QED BY <2>3, <1>3 DEF First
<1>5. FromHead(wait)
  <2>1. Len(wait) \in 0..Len(wait) /\ SubSeq(wait, 1, Len(wait)) = wait
    BY <1>1, <1>2, SubSeqFull
  <2>2. FromHead(SubSeq(wait, 1, Len(wait)))
    BY <2>1, <1>3
  <2>3. QED BY <2>1, <2>2, ZenonT(30)
<1>6. QED BY <1>4, <1>5

\* They wake up and the waker is requeued before them.
LEMMA WakePrepared ==
    ASSUME IInv, NEW c \in Cpu, InThread(c), NEW ts, FromHead(ts), priority' = priority
    PROVE  Prepared(c, Woken(ts, insert_in_run_queue_head(rq, cur[c])), MakeReady(Range(ts) \cup {cur[c]}))
<1> DEFINE r == Woken(ts, insert_in_run_queue_head(rq, cur[c]))
           s0 == [state EXCEPT ![cur[c]] = "READY"]
           st == MakeReady(Range(ts) \cup {cur[c]})
<1>1. /\ c \in mp.active /\ loaded[c] = NULL
      /\ cur[c] \in Thread /\ state[cur[c]] = "RUNNING" /\ cur[c] \in AllThreads
  BY Started, Current DEF InThread
<1>2. priority' \in [Thread -> Priority] /\ state \in [AllThreads -> States]
  BY DEF IInv, Types
<1>3. /\ s0 \in [AllThreads -> States] /\ st \in [AllThreads -> States]
      /\ st = [t \in AllThreads |-> IF t \in Range(ts) THEN "READY" ELSE s0[t]]
  BY <1>1, <1>2 DEF MakeReady, States
<1>4. \A t \in Range(ts) : t \in Thread /\ state[t] = "BLOCKED" /\ t # cur[c] /\ s0[t] # "READY"
  BY <1>1, <1>2, IdleThreads DEF FromHead
<1>5. Exact(r, st, priority')
  <2>1. Exact(insert_in_run_queue_head(rq, cur[c]), s0, priority')
    BY <1>1, <1>2, RequeuedExact, ZenonT(30)
  <2>2. ts \in Seq(Thread) /\ IsInjective(ts)
    BY DEF FromHead
  <2> HIDE DEF s0, st
  <2>3. QED BY <2>1, <2>2, <1>2, <1>3, <1>4, WokenExact, ZenonT(30)
<1>6. st[cur[c]] # "RUNNING" /\ \A t \in AllThreads : t # cur[c] => (st[t] = "RUNNING" <=> state[t] = "RUNNING")
  BY <1>1, <1>4 DEF MakeReady
<1> HIDE DEF st, r
<1>7. Prepared(c, r, st)
  BY <1>3, <1>5, <1>6 DEF Prepared
<1>8. QED BY <1>7 DEF r, st

\* The waker is preempted.
LEMMA WakeReschedKeeps ==
    ASSUME IInv, NEW c \in Cpu, InThread(c), NEW ts, FromHead(ts), WakeAndReschedule(c, ts), irq' = irq
    PROVE  IInv' /\ HighestTaken
<1> DEFINE r == Woken(ts, insert_in_run_queue_head(rq, cur[c]))
           st == MakeReady(Range(ts) \cup {cur[c]})
<1>1. /\ thread_resched(c, r, st, quantum, timer)
      /\ priority' = priority /\ pinned' = pinned /\ realtime' = realtime /\ loaded' = loaded
      /\ firing' = firing /\ ipi' = mp_reschedule(c) /\ irq' = irq /\ ticking' = ticking /\ yielding' = yielding
      /\ wait' = SubSeq(wait, Len(ts) + 1, Len(wait))
      /\ ret' = [t \in Thread |-> IF t \in Range(ts) THEN "NO_ERROR" ELSE ret[t]]
      /\ forever' \subseteq forever
  BY DEF WakeAndReschedule, WakeUp, threadAttrs
<1>2. c \in mp.active /\ loaded[c] = NULL /\ cur[c] \in Thread /\ state[cur[c]] = "RUNNING"
  BY Started, Current DEF InThread
<1>3. Types /\ state \in [AllThreads -> States]
  BY DEF IInv, Types
<1>4. priority' \in [Thread -> Priority] /\ \A t \in Range(ts) : state[t] = "BLOCKED"
  BY <1>1, <1>3 DEF Types, FromHead
<1>5. Prepared(c, r, st)
  BY <1>1, WakePrepared
<1>6. \A t \in Thread : st[t] = IF t \in Range(ts) \/ t = cur[c] THEN "READY" ELSE state[t]
  BY IdleThreads DEF MakeReady
<1>7. Waiting(wait', st)
  <2>1. Waiting(wait', MakeReady(Range(ts)))
    BY <1>1 DEF FromHead
  <2>2. \A t \in Thread : MakeReady(Range(ts))[t] = "BLOCKED" <=> st[t] = "BLOCKED"
    BY <1>2, IdleThreads DEF MakeReady
  <2> HIDE DEF st
  <2>3. QED BY <2>1, <2>2, WaitingSame
<1> HIDE DEF st, r
<1>8. SleepersStay(st, timer)
  BY <1>2, <1>4, <1>6 DEF IInv, Sleeping, SleepersStay
<1>9. \A t \in Thread : st[t] = "SLEEPING" => state[t] = "SLEEPING"
  BY <1>6
<1>10. ret' \in [Thread -> {"NO_ERROR", "ERR_TIMED_OUT"}] /\ forever' \subseteq Thread
       /\ ipi \subseteq ipi' /\ ipi' \subseteq Cpu
  BY <1>1, <1>3 DEF Types, mp_reschedule
<1>11. Leaves(c, st, quantum, timer)
  BY <1>1, <1>2, <1>3, <1>4, <1>7, <1>8, <1>9, <1>10 DEF Leaves, Types
<1>12. QED BY <1>1, <1>5, <1>11, ReschedKeeps

-----------------------------------------------------------------------------

(***************************************************************************)
(* Steps of cpu c that make threads ready and switch to none of them.      *)
(***************************************************************************)
Readies(c) ==
    /\ priority' = priority /\ pinned' = pinned /\ realtime' = realtime /\ quantum' = quantum
    /\ cur' = cur /\ mp' = mp /\ preempt' = preempt /\ loaded' = loaded /\ timer' = timer
    /\ reverted' = reverted /\ ticking' \subseteq irq'
    /\ state' \in [AllThreads -> States]
    /\ \A t \in AllThreads : state'[t] = "RUNNING" <=> state[t] = "RUNNING"
    /\ \A t \in Thread : state'[t] = "SLEEPING" => state[t] = "SLEEPING"
    /\ Exact(rq', state', priority')
    /\ Waiting(wait', state')
    /\ Sleeping'
    /\ irq \subseteq irq'
    /\ irq' = irq \/ (irq' = irq \cup {c} /\ c \in mp.active /\ loaded[c] = NULL)
    /\ firing' \in [Cpu -> (Thread \X {"sleep", "wait"}) \cup {NULL}]
    /\ \A d \in Cpu : firing[d] = NULL => firing'[d] = NULL
    /\ yielding \subseteq yielding' /\ yielding' \subseteq AllThreads
    /\ ret' \in [Thread -> {"NO_ERROR", "ERR_TIMED_OUT"}] /\ forever' \subseteq Thread
    /\ ipi \subseteq ipi' /\ ipi' \subseteq Cpu
    /\ Unpinned => \/ \A t \in Thread : state'[t] = "READY" => state[t] = "READY"
                   \/ /\ mp_reschedule(c) \subseteq ipi'
                      /\ is_idle(cur[c]) => c \in irq' \/ c \notin mp.active

LEMMA ReadiesKeeps ==
    ASSUME IInv, NEW c \in Cpu, Readies(c)
    PROVE  IInv'
<1>1. Types /\ RunsOnOneCpu /\ Starting
  BY DEF IInv
<1>2. Types'
  <2>1. irq' \subseteq Cpu
    BY <1>1 DEF Types, Readies
  <2>2. QED BY <1>1, <2>1 DEF Types, Readies
<1>3. Exact(rq', state', priority') /\ Waiting(wait', state') /\ Sleeping'
  BY DEF Readies
<1>4. RunsOnOneCpu'
  <2>1. cur' = cur /\ pinned' = pinned /\ \A t \in AllThreads : state'[t] = "RUNNING" <=> state[t] = "RUNNING"
    BY DEF Readies
  <2>2. QED BY <1>1, <2>1 DEF RunsOnOneCpu, is_idle
<1>5. Starting'
  <2>1. /\ cur' = cur /\ mp' = mp /\ loaded' = loaded
        /\ irq' = irq \/ (irq' = irq \cup {c} /\ c \in mp.active /\ loaded[c] = NULL)
        /\ \A d \in Cpu : firing[d] = NULL => firing'[d] = NULL
    BY DEF Readies
  <2>2. QED BY <2>1, <1>1 DEF Starting
<1>6. ASSUME RealTimeTargets = "self" PROVE PreemptTimerExact'
  BY <1>6 DEF IInv, PreemptTimerExact, is_real_time_or_idle, is_idle, Readies
<1>7. IdleMaskExact'
  BY DEF IInv, IdleMaskExact, is_idle, Readies
<1>8. ASSUME Unpinned PROVE Told'
  <2>1. Told
    BY <1>8 DEF IInv
  <2>2. cur' = cur /\ mp' = mp /\ loaded' = loaded /\ pinned' = pinned
        /\ ipi \subseteq ipi' /\ irq \subseteq irq' /\ yielding \subseteq yielding'
        /\ \A t \in Thread : state'[t] # "SLEEPING"
    BY <2>1 DEF Readies, Told
  <2>3. ASSUME NEW d \in mp.active, NEW t \in Thread,
               is_idle(cur[d]), loaded[d] = NULL, state'[t] = "READY"
        PROVE  d \in ipi' \/ d \in irq' \/ cur[d] \in yielding'
    <3>1. CASE \A u \in Thread : state'[u] = "READY" => state[u] = "READY"
      BY <3>1, <2>1, <2>2, <2>3 DEF Told
    <3>2. CASE mp_reschedule(c) \subseteq ipi' /\ (is_idle(cur[c]) => c \in irq' \/ c \notin mp.active)
      <4>1. d \notin mp.realtime
        BY <2>1, <2>3 DEF Told
      <4>2. QED BY <4>1, <3>2, <2>3 DEF mp_reschedule
    <3>3. QED BY <3>1, <3>2, <1>8 DEF Readies
  <2>4. QED BY <2>1, <2>2, <2>3 DEF Told, is_idle
<1>9. QED
  BY <1>2, <1>3, <1>4, <1>5, <1>6, <1>7, <1>8 DEF IInv, Exact, RunQueues, Waiting, Unpinned

\* The timers of sleeps that expire are of threads that go on sleeping.
LEMMA SleepingSame ==
    ASSUME IInv, timer' = timer,
           \A d \in Cpu : firing'[d] = firing[d] \/ firing'[d] = NULL,
           \A d \in Cpu, t \in Thread :
                firing'[d] = <<t, "sleep">> /\ state[t] = "SLEEPING" => state'[t] = "SLEEPING"
    PROVE  Sleeping'
<1>1. Sleeping
  BY DEF IInv
<1>2. \A t \in Thread, x \in {"sleep"} : <<t, x>> # NULL
  BY NULLAssumption
<1>3. ASSUME NEW d \in Cpu, NEW t \in Thread, firing'[d] = <<t, "sleep">>
      PROVE  /\ state'[t] = "SLEEPING" /\ timer'[t] = NULL
             /\ \A e \in Cpu : firing'[e] = <<t, "sleep">> => e = d
  <2>1. firing[d] = <<t, "sleep">>
    BY <1>2, <1>3
  <2>2. /\ state[t] = "SLEEPING" /\ timer[t] = NULL
        /\ \A e \in Cpu : firing[e] = <<t, "sleep">> => e = d
    BY <1>1, <2>1 DEF Sleeping
  <2>3. \A e \in Cpu : firing'[e] = <<t, "sleep">> => firing[e] = <<t, "sleep">>
    BY <1>2
  <2>4. QED BY <2>2, <2>3, <1>3
<1>4. QED BY <1>3 DEF Sleeping

\* A suspended thread is resumed ...
LEMMA ResumeSuspended ==
    ASSUME IInv, NEW c \in Cpu, NEW t \in Thread, thread_resume(c, t), state[t] = "SUSPENDED"
    PROVE  IInv'
<1>1. Types /\ Exact(rq, state, priority) /\ Waiting(wait, state)
  BY DEF IInv
<1>2. /\ state[t] = "SUSPENDED" /\ state' = [state EXCEPT ![t] = "READY"]
      /\ rq' = insert_in_run_queue_head(rq, t) /\ ipi' = mp_reschedule(c)
      /\ priority' = priority /\ pinned' = pinned /\ realtime' = realtime /\ quantum' = quantum
      /\ cur' = cur /\ mp' = mp /\ preempt' = preempt /\ loaded' = loaded /\ timer' = timer
      /\ irq' = irq /\ firing' = firing /\ wait' = wait /\ ret' = ret /\ forever' = forever
      /\ ticking' = ticking /\ reverted' = reverted
      /\ \/ InThread(c) /\ yielding' = yielding \cup {cur[c]}
         \/ Booting(c) /\ yielding' = yielding
  BY DEF thread_resume, threadAttrs, waitVars
<1>3. /\ state \in [AllThreads -> States] /\ t \in AllThreads /\ "READY" \in States /\ cur[c] \in AllThreads
      /\ priority' \in [Thread -> Priority]
  BY <1>1, <1>2, IdleThreads DEF Types, States
<1>4. Exact(rq', state', priority')
  <2>1. Exact(insert_in_run_queue_head(rq, t), [state EXCEPT ![t] = "READY"], priority')
    BY <1>1, <1>2, <1>3, InsertHead, ZenonT(30)
  <2>2. QED BY <2>1, <1>2
<1>5. Waiting(wait', state')
  <2>1. \A u \in Thread : state[u] = "BLOCKED" <=> state'[u] = "BLOCKED"
    BY <1>2, <1>3, IdleThreads
  <2>2. Waiting(wait, state')
    BY <2>1, <1>1, WaitingSame
  <2>3. QED BY <2>2, <1>2
<1>6. Sleeping'
  <2>1. \A u \in Thread : state[u] = "SLEEPING" => state'[u] = "SLEEPING"
    BY <1>2, <1>3, IdleThreads
  <2>2. QED BY <2>1, <1>2, SleepingSame
<1>7. /\ state' \in [AllThreads -> States]
      /\ \A u \in AllThreads : state'[u] = "RUNNING" <=> state[u] = "RUNNING"
      /\ \A u \in Thread : state'[u] = "SLEEPING" => state[u] = "SLEEPING"
  BY <1>2, <1>3, IdleThreads
<1>8. is_idle(cur[c]) => c \notin mp.active
  BY <1>2 DEF InThread, Booting
<1>9. ipi \subseteq ipi' /\ ipi' \subseteq Cpu /\ yielding \subseteq yielding' /\ yielding' \subseteq AllThreads
  BY <1>1, <1>2, <1>3 DEF Types, mp_reschedule
<1>10. Readies(c)
  BY <1>1, <1>2, <1>4, <1>5, <1>6, <1>7, <1>8, <1>9 DEF Readies, Types
<1>11. QED BY <1>10, ReadiesKeeps

\* ... and one that is not stays as it is.
LEMMA ResumeKeeps ==
    ASSUME IInv, NEW c \in Cpu, NEW t \in Thread, thread_resume(c, t)
    PROVE  IInv'
<1>1. CASE state[t] = "SUSPENDED"
  BY <1>1, ResumeSuspended
<1>2. CASE state[t] # "SUSPENDED"
  <2>1. /\ state' = state /\ rq' = rq /\ yielding' = yielding /\ ipi' = mp_reschedule(c)
        /\ priority' = priority /\ pinned' = pinned /\ realtime' = realtime /\ quantum' = quantum
        /\ cur' = cur /\ mp' = mp /\ preempt' = preempt /\ loaded' = loaded /\ timer' = timer
        /\ irq' = irq /\ firing' = firing /\ wait' = wait /\ ret' = ret /\ forever' = forever
        /\ ticking' = ticking /\ reverted' = reverted
    BY <1>2 DEF thread_resume, threadAttrs, waitVars
  <2>2. Types /\ Exact(rq, state, priority) /\ Waiting(wait, state)
    BY DEF IInv
  <2>3. Exact(rq', state', priority') /\ Waiting(wait', state')
    BY <2>1, <2>2
  <2>4. Sleeping'
    BY <2>1, SleepingSame
  <2>5. ipi \subseteq ipi' /\ ipi' \subseteq Cpu
    BY <2>1, <2>2 DEF Types, mp_reschedule
  <2>6. Readies(c)
    BY <2>1, <2>2, <2>3, <2>4, <2>5 DEF Readies, Types
  <2>7. QED BY <2>6, ReadiesKeeps
<1>3. QED BY <1>1, <1>2

LEMMA WakeQuietKeeps ==
    ASSUME IInv, NEW c \in Cpu, NEW ts, FromHead(ts), WakeQuietly(c, ts), Executes(c),
           (~is_idle(cur[c]) /\ irq' = irq) \/ irq' = irq \cup {c}
    PROVE  IInv'
<1>1. Types /\ Exact(rq, state, priority)
  BY DEF IInv
<1>2. /\ state' = MakeReady(Range(ts)) /\ rq' = Woken(ts, rq) /\ ipi' = mp_reschedule(c)
      /\ priority' = priority /\ pinned' = pinned /\ realtime' = realtime /\ quantum' = quantum
      /\ cur' = cur /\ mp' = mp /\ preempt' = preempt /\ loaded' = loaded /\ timer' = timer
      /\ firing' = firing /\ yielding' = yielding /\ ticking' = ticking /\ reverted' = reverted
      /\ wait' = SubSeq(wait, Len(ts) + 1, Len(wait))
      /\ ret' = [t \in Thread |-> IF t \in Range(ts) THEN "NO_ERROR" ELSE ret[t]]
      /\ forever' \subseteq forever
  BY DEF WakeQuietly, WakeUp, threadAttrs
<1>3. /\ state \in [AllThreads -> States] /\ "READY" \in States
      /\ priority' \in [Thread -> Priority]
      /\ ts \in Seq(Thread) /\ IsInjective(ts)
      /\ \A t \in Range(ts) : t \in Thread /\ state[t] = "BLOCKED"
  BY <1>1, <1>2 DEF Types, States, FromHead
<1>4. Exact(rq', state', priority')
  <2>1. \A t \in Range(ts) : state[t] # "READY"
    BY <1>3
  <2>2. Exact(rq, state, priority')
    BY <1>1, <1>2
  <2>3. Exact(Woken(ts, rq), [t \in AllThreads |-> IF t \in Range(ts) THEN "READY" ELSE state[t]], priority')
    BY <2>1, <2>2, <1>3, WokenExact, ZenonT(30)
  <2>4. QED BY <2>3, <1>2 DEF MakeReady
<1>5. Waiting(wait', state')
  BY <1>2, ZenonT(30) DEF FromHead
<1>6. Sleeping'
  <2>1. \A u \in Thread : state[u] = "SLEEPING" => state'[u] = "SLEEPING"
    BY <1>2, <1>3, IdleThreads DEF MakeReady
  <2>2. QED BY <2>1, <1>2, SleepingSame
<1>7. /\ state' \in [AllThreads -> States]
      /\ \A u \in AllThreads : state'[u] = "RUNNING" <=> state[u] = "RUNNING"
      /\ \A u \in Thread : state'[u] = "SLEEPING" => state[u] = "SLEEPING"
  BY <1>2, <1>3, IdleThreads DEF MakeReady
<1>8. c \in mp.active /\ loaded[c] = NULL
  BY Started
<1>9. /\ ipi \subseteq ipi' /\ ipi' \subseteq Cpu /\ forever' \subseteq Thread
      /\ ret' \in [Thread -> {"NO_ERROR", "ERR_TIMED_OUT"}]
  BY <1>1, <1>2 DEF Types, mp_reschedule
<1>10. Readies(c)
  BY <1>1, <1>2, <1>4, <1>5, <1>6, <1>7, <1>8, <1>9 DEF Readies, Types
<1>11. QED BY <1>10, ReadiesKeeps

\* A step in which no cpu switches.
LEMMA NoSwitch == cur' = cur => HighestTaken
BY DEF HighestTaken

LEMMA WakeOneKeeps ==
    ASSUME IInv, NEW c \in Cpu, wait_queue_wake_one(c)
    PROVE  IInv' /\ HighestTaken
<1>1. FromHead(First)
  BY HeadsOfWait
<1>2. CASE Runs(c, "wake") /\ WakeQuietly(c, First) /\ UNCHANGED irq
  BY <1>1, <1>2, WakeQuietKeeps, NoSwitch DEF Runs, InThread, WakeQuietly
<1>3. CASE Runs(c, "wake_resched") /\ WakeAndReschedule(c, First) /\ UNCHANGED irq
  BY <1>1, <1>3, WakeReschedKeeps DEF Runs
<1>4. CASE "irq_wake" \in Calls /\ Executes(c) /\ WakeQuietly(c, First) /\ irq' = irq \cup {c}
  BY <1>1, <1>4, WakeQuietKeeps, NoSwitch DEF WakeQuietly
<1>5. QED BY <1>2, <1>3, <1>4 DEF wait_queue_wake_one

LEMMA WakeAllKeeps ==
    ASSUME IInv, NEW c \in Cpu, wait_queue_wake_all(c)
    PROVE  IInv' /\ HighestTaken
<1>1. FromHead(wait) /\ Runs(c, "wake_all") /\ irq' = irq
  BY HeadsOfWait DEF wait_queue_wake_all
<1>2. CASE WakeQuietly(c, wait)
  BY <1>1, <1>2, WakeQuietKeeps, NoSwitch DEF Runs, InThread, WakeQuietly
<1>3. CASE WakeAndReschedule(c, wait)
  BY <1>1, <1>3, WakeReschedKeeps DEF Runs
<1>4. QED BY <1>2, <1>3 DEF wait_queue_wake_all

\* The timer whose callback waits for thread_lock on cpu c.
LEMMA Firing ==
    ASSUME IInv, NEW c \in Cpu, firing[c] # NULL
    PROVE  firing[c][1] \in Thread /\ firing[c] = <<firing[c][1], firing[c][2]>>
<1>1. firing[c] \in Thread \X {"sleep", "wait"}
  BY DEF IInv, Types
<1>2. QED BY <1>1

LEMMA SleepHandlerKeeps ==
    ASSUME IInv, NEW c \in Cpu, thread_sleep_handler(c)
    PROVE  IInv'
<1> DEFINE t == firing[c][1]
<1>1. Types /\ Exact(rq, state, priority) /\ Waiting(wait, state)
  BY DEF IInv
<1>2. /\ firing[c] # NULL /\ firing[c][2] = "sleep" /\ state' = [state EXCEPT ![t] = "READY"]
      /\ rq' = insert_in_run_queue_head(rq, t) /\ firing' = [firing EXCEPT ![c] = NULL]
      /\ priority' = priority /\ pinned' = pinned /\ realtime' = realtime /\ quantum' = quantum
      /\ cur' = cur /\ mp' = mp /\ preempt' = preempt /\ loaded' = loaded /\ timer' = timer
      /\ irq' = irq \cup {c} /\ ticking' = ticking \cup {c} /\ ipi' = ipi /\ yielding' = yielding
      /\ reverted' = reverted
      /\ wait' = wait /\ ret' = ret /\ forever' = forever
  BY DEF thread_sleep_handler, CallbackReturns, threadAttrs, waitVars
<1>3. t \in Thread /\ firing[c] = <<t, "sleep">>
  BY <1>2, Firing
<1> HIDE DEF t
<1>4. state[t] = "SLEEPING" /\ \A d \in Cpu : firing[d] = <<t, "sleep">> => d = c
  BY <1>3 DEF IInv, Sleeping
<1>5. /\ state \in [AllThreads -> States] /\ t \in AllThreads /\ "READY" \in States
      /\ priority' \in [Thread -> Priority]
      /\ firing \in [Cpu -> (Thread \X {"sleep", "wait"}) \cup {NULL}]
  BY <1>1, <1>2, <1>3, IdleThreads DEF Types, States
<1>6. Exact(rq', state', priority')
  <2>1. Exact(insert_in_run_queue_head(rq, t), [state EXCEPT ![t] = "READY"], priority')
    BY <1>1, <1>2, <1>3, <1>4, <1>5, InsertHead, ZenonT(30)
  <2>2. QED BY <2>1, <1>2, ZenonT(30)
<1>7. Waiting(wait', state')
  <2>1. \A u \in Thread : state[u] = "BLOCKED" <=> state'[u] = "BLOCKED"
    BY <1>2, <1>4, <1>5, IdleThreads
  <2>2. Waiting(wait, state')
    BY <2>1, <1>1, WaitingSame
  <2>3. QED BY <2>2, <1>2
<1>8. Sleeping'
  <2>1. \A d \in Cpu : firing'[d] = IF d = c THEN NULL ELSE firing[d]
    BY <1>2, <1>5
  <2>2. NULL # <<t, "sleep">>
    BY <1>2, <1>3
  <2>3. ASSUME NEW d \in Cpu, NEW u \in Thread, firing'[d] = <<u, "sleep">>, state[u] = "SLEEPING"
        PROVE  state'[u] = "SLEEPING"
    <3>1. u # t
      BY <2>1, <2>2, <2>3, <1>4
    <3>2. QED BY <3>1, <2>3, <1>2, <1>5, IdleThreads
  <2>4. QED BY <2>1, <2>3, <1>2, SleepingSame
<1>9. /\ state' \in [AllThreads -> States]
      /\ \A u \in AllThreads : state'[u] = "RUNNING" <=> state[u] = "RUNNING"
      /\ \A u \in Thread : state'[u] = "SLEEPING" => state[u] = "SLEEPING"
  BY <1>2, <1>4, <1>5, IdleThreads
<1>10. c \in mp.active /\ loaded[c] = NULL
  BY <1>2, Started
<1>11. ~Unpinned
  BY <1>3, <1>4 DEF IInv, Told
<1>12. firing' \in [Cpu -> (Thread \X {"sleep", "wait"}) \cup {NULL}]
       /\ \A d \in Cpu : firing[d] = NULL => firing'[d] = NULL
  BY <1>2, <1>5
<1>13. Readies(c)
  BY <1>1, <1>2, <1>6, <1>7, <1>8, <1>9, <1>10, <1>11, <1>12 DEF Readies, Types
<1>14. QED BY <1>13, ReadiesKeeps

LEMMA TimeoutHandlerKeeps ==
    ASSUME IInv, NEW c \in Cpu, wait_queue_timeout_handler(c)
    PROVE  IInv'
<1> DEFINE t == firing[c][1]
<1>1. Types /\ Exact(rq, state, priority) /\ Waiting(wait, state)
  BY DEF IInv
<1>2. /\ firing[c] # NULL /\ firing' = [firing EXCEPT ![c] = NULL]
      /\ priority' = priority /\ pinned' = pinned /\ realtime' = realtime /\ quantum' = quantum
      /\ cur' = cur /\ mp' = mp /\ preempt' = preempt /\ loaded' = loaded /\ timer' = timer
      /\ yielding' = yielding /\ forever' \subseteq forever /\ reverted' = reverted
      /\ \/ /\ state[t] = "BLOCKED" /\ wait' = list_delete(wait, t)
            /\ state' = [state EXCEPT ![t] = "READY"] /\ ret' = [ret EXCEPT ![t] = "ERR_TIMED_OUT"]
            /\ rq' = insert_in_run_queue_head(rq, t) /\ ipi' = mp_reschedule(c)
            /\ irq' = irq \cup {c} /\ ticking' = ticking \cup {c}
         \/ /\ state[t] # "BLOCKED" /\ wait' = wait /\ state' = state /\ ret' = ret
            /\ rq' = rq /\ ipi' = ipi /\ irq' = irq /\ ticking' = ticking
  BY DEF wait_queue_timeout_handler, CallbackReturns, Without, threadAttrs
<1>3. t \in Thread
  BY <1>2, Firing
<1> HIDE DEF t
<1>5. /\ state \in [AllThreads -> States] /\ t \in AllThreads /\ "READY" \in States
      /\ priority' \in [Thread -> Priority]
      /\ firing \in [Cpu -> (Thread \X {"sleep", "wait"}) \cup {NULL}]
  BY <1>1, <1>2, <1>3, IdleThreads DEF Types, States
<1>6. Exact(rq', state', priority')
  <2>1. CASE state[t] = "BLOCKED"
    <3>1. Exact(insert_in_run_queue_head(rq, t), [state EXCEPT ![t] = "READY"], priority')
      BY <2>1, <1>1, <1>2, <1>3, <1>5, InsertHead, ZenonT(30)
    <3>2. QED BY <3>1, <2>1, <1>2, ZenonT(30)
  <2>2. CASE state[t] # "BLOCKED"
    BY <2>2, <1>1, <1>2
  <2>3. QED BY <2>1, <2>2
<1>7. Waiting(wait', state')
  <2>1. CASE state[t] = "BLOCKED"
    <3>1. /\ wait \in Seq(Thread) /\ IsInjective(wait) /\ t \in Range(wait)
          /\ Range(wait) = {u \in Thread : state[u] = "BLOCKED"}
      BY <2>1, <1>1, <1>3 DEF Waiting
    <3>2. wait' \in Seq(Thread) /\ IsInjective(wait') /\ Range(wait') = Range(wait) \ {t}
      BY <3>1, <2>1, <1>2, DeleteElements
    <3>3. \A u \in Thread : state'[u] = "BLOCKED" <=> state[u] = "BLOCKED" /\ u # t
      BY <2>1, <1>2, <1>5, IdleThreads
    <3>4. QED BY <3>1, <3>2, <3>3 DEF Waiting
  <2>2. CASE state[t] # "BLOCKED"
    BY <2>2, <1>1, <1>2
  <2>3. QED BY <2>1, <2>2
<1>8. Sleeping'
  <2>1. \A d \in Cpu : firing'[d] = firing[d] \/ firing'[d] = NULL
    BY <1>2, <1>5
  <2>2. \A u \in Thread : state[u] = "SLEEPING" => state'[u] = "SLEEPING"
    BY <1>2, <1>5, IdleThreads
  <2>3. QED BY <2>1, <2>2, <1>2, SleepingSame
<1>9. /\ state' \in [AllThreads -> States]
      /\ \A u \in AllThreads : state'[u] = "RUNNING" <=> state[u] = "RUNNING"
      /\ \A u \in Thread : state'[u] = "SLEEPING" => state[u] = "SLEEPING"
  BY <1>2, <1>5, IdleThreads
<1>10. c \in mp.active /\ loaded[c] = NULL
  BY <1>2, Started
<1>11. /\ ipi \subseteq ipi' /\ ipi' \subseteq Cpu /\ forever' \subseteq Thread
       /\ ret' \in [Thread -> {"NO_ERROR", "ERR_TIMED_OUT"}]
  BY <1>1, <1>2, <1>3 DEF Types, mp_reschedule
<1>12. firing' \in [Cpu -> (Thread \X {"sleep", "wait"}) \cup {NULL}]
       /\ \A d \in Cpu : firing[d] = NULL => firing'[d] = NULL
  BY <1>2, <1>5
<1>13. \/ \A u \in Thread : state'[u] = "READY" => state[u] = "READY"
       \/ mp_reschedule(c) \subseteq ipi' /\ c \in irq'
  BY <1>2
<1>14. Readies(c)
  BY <1>1, <1>2, <1>6, <1>7, <1>8, <1>9, <1>10, <1>11, <1>12, <1>13 DEF Readies, Types
<1>15. QED BY <1>14, ReadiesKeeps

-----------------------------------------------------------------------------

\* Steps that leave threads, queues and current threads as they are.
SameThreads ==
    /\ state' = state /\ priority' = priority /\ pinned' = pinned /\ rq' = rq /\ cur' = cur
    /\ wait' = wait /\ ret' = ret /\ forever' = forever

LEMMA SameBooks ==
    ASSUME IInv, SameThreads
    PROVE  Exact(rq', state', priority') /\ RunsOnOneCpu' /\ Waiting(wait', state')
<1>1. Exact(rq, state, priority) /\ RunsOnOneCpu /\ Waiting(wait, state)
  BY DEF IInv
<1>2. QED BY <1>1, ZenonT(30) DEF SameThreads, RunsOnOneCpu, is_idle

\* The invariant from its parts.
LEMMA Parts ==
    ASSUME Types', Exact(rq', state', priority'), RunsOnOneCpu', Waiting(wait', state'),
           Sleeping', Starting', RealTimeTargets = "self" => PreemptTimerExact',
           IdleMaskExact', Unpinned => Told'
    PROVE  IInv'
BY DEF IInv, Exact, RunQueues, Waiting, Unpinned

LEMMA BecomeIdleKeeps ==
    ASSUME IInv, NEW c \in Cpu, thread_become_idle(c)
    PROVE  IInv'
<1>1. /\ SameThreads /\ realtime' = realtime /\ quantum' = quantum /\ preempt' = preempt
      /\ ipi' = ipi /\ irq' = irq /\ ticking' = ticking /\ firing' = firing /\ yielding' = yielding
      /\ timer' = timer /\ reverted' = reverted
      /\ c \notin mp.active /\ mp' = [mp EXCEPT !.active = @ \cup {c}]
      /\ loaded' = [loaded EXCEPT ![c] = mp.idle]
  BY DEF thread_become_idle, SameThreads, threadAttrs, irqVars, waitVars
<1>2. Types /\ Starting /\ Sleeping
  BY DEF IInv
<1>3. /\ mp'.active = mp.active \cup {c} /\ mp'.idle = mp.idle /\ mp'.realtime = mp.realtime
      /\ mp' \in [active: SUBSET Cpu, idle: SUBSET Cpu, realtime: SUBSET Cpu]
      /\ mp.idle \in SUBSET Cpu
  BY <1>1, <1>2 DEF Types
<1>4. mp.idle # NULL
  BY <1>3, NULLAssumption
<1>5. /\ loaded' \in [Cpu -> (SUBSET Cpu) \cup {NULL}] /\ loaded'[c] # NULL
      /\ \A d \in Cpu : d # c => loaded'[d] = loaded[d]
  BY <1>1, <1>2, <1>3, <1>4 DEF Types
<1>6. Types'
  BY <1>1, <1>2, <1>3, <1>5 DEF Types, SameThreads
<1>7. Exact(rq', state', priority') /\ RunsOnOneCpu' /\ Waiting(wait', state')
  BY <1>1, SameBooks
<1>8. Sleeping'
  BY <1>1, SleepingSame DEF SameThreads
<1>9. Starting'
  BY <1>1, <1>2, <1>3, <1>5 DEF Starting, SameThreads
<1>10. ASSUME RealTimeTargets = "self" PROVE PreemptTimerExact'
  BY <1>1, <1>10 DEF IInv, PreemptTimerExact, is_real_time_or_idle, is_idle, SameThreads
<1>11. IdleMaskExact'
  BY <1>1, <1>2, <1>3, <1>5 DEF IInv, Types, IdleMaskExact, is_idle, SameThreads
<1>12. ASSUME Unpinned PROVE Told'
  <2>1. Told
    BY <1>12 DEF IInv
  <2>2. QED BY <2>1, <1>1, <1>2, <1>3, <1>5 DEF Told, is_idle, SameThreads, Types
<1>13. QED BY <1>6, <1>7, <1>8, <1>9, <1>10, <1>11, <1>12, Parts

LEMMA SetCpuIdleKeeps ==
    ASSUME IInv, NEW c \in Cpu, mp_set_cpu_idle(c)
    PROVE  IInv'
<1>1. /\ SameThreads /\ realtime' = realtime /\ quantum' = quantum /\ preempt' = preempt
      /\ ipi' = ipi /\ irq' = irq /\ ticking' = ticking /\ firing' = firing
      /\ yielding' = yielding \cup {idle_thread(c)} /\ timer' = timer /\ loaded[c] # NULL
      /\ reverted' = (reverted \cup {d \in Cpu : d \in mp.idle <=> d \notin loaded[c]}) \ {c}
      /\ mp' = [mp EXCEPT !.idle = loaded[c] \cup {c}] /\ loaded' = [loaded EXCEPT ![c] = NULL]
  BY DEF mp_set_cpu_idle, SameThreads, threadAttrs, irqVars, waitVars
<1>2. Types /\ Starting
  BY DEF IInv
<1>3. loaded[c] \in SUBSET Cpu
  BY <1>1, <1>2 DEF Types
<1>4. /\ mp'.active = mp.active /\ mp'.idle = loaded[c] \cup {c} /\ mp'.realtime = mp.realtime
      /\ mp' \in [active: SUBSET Cpu, idle: SUBSET Cpu, realtime: SUBSET Cpu]
  BY <1>1, <1>2, <1>3 DEF Types
<1>5. /\ loaded' \in [Cpu -> (SUBSET Cpu) \cup {NULL}] /\ loaded'[c] = NULL
      /\ \A d \in Cpu : d # c => loaded'[d] = loaded[d]
  BY <1>1, <1>2 DEF Types
<1>6. cur[c] = idle_thread(c) /\ is_idle(cur[c])
  BY <1>1, <1>2, IdleThreads DEF Starting
<1>7. Types'
  <2>1. yielding' \subseteq AllThreads
    BY <1>1, <1>2, IdleThreads DEF Types
  <2>2. reverted' \subseteq Cpu
    BY <1>1, <1>2 DEF Types
  <2>3. QED BY <2>1, <2>2, <1>1, <1>2, <1>4, <1>5 DEF Types, SameThreads
<1>8. Exact(rq', state', priority') /\ RunsOnOneCpu' /\ Waiting(wait', state')
  BY <1>1, SameBooks
<1>9. Sleeping'
  BY <1>1, SleepingSame DEF SameThreads
<1>10. Starting'
  BY <1>1, <1>2, <1>4, <1>5 DEF Starting, SameThreads
<1>11. ASSUME RealTimeTargets = "self" PROVE PreemptTimerExact'
  BY <1>1, <1>11 DEF IInv, PreemptTimerExact, is_real_time_or_idle, is_idle, SameThreads
<1>12. IdleMaskExact'
  <2>1. \A d \in mp.active \ reverted : loaded[d] = NULL => (d \in mp.idle <=> is_idle(cur[d]))
    BY DEF IInv, IdleMaskExact
  <2>2. ASSUME NEW d \in mp.active, d \notin reverted', loaded'[d] = NULL
        PROVE  d \in mp'.idle <=> is_idle(cur[d])
    <3>1. d \in Cpu
      BY <1>2 DEF Types
    <3>2. CASE d = c
      BY <3>2, <1>4, <1>6
    <3>3. CASE d # c
      <4>1. d \notin reverted /\ loaded[d] = NULL /\ (d \in mp.idle <=> d \in loaded[c])
        BY <3>1, <3>3, <2>2, <1>1, <1>5
      <4>2. QED BY <4>1, <3>3, <2>1, <1>4
    <3>4. QED BY <3>2, <3>3
  <2>3. QED BY <2>2, <1>1, <1>4 DEF IdleMaskExact, is_idle, SameThreads
<1>13. ASSUME Unpinned PROVE Told'
  <2>1. Told
    BY <1>13 DEF IInv
  <2>2. QED BY <2>1, <1>1, <1>2, <1>4, <1>5, <1>6 DEF Told, is_idle, SameThreads, Types
<1>14. QED BY <1>7, <1>8, <1>9, <1>10, <1>11, <1>12, <1>13, Parts

LEMMA CreateKeeps ==
    ASSUME IInv, NEW c \in Cpu, NEW t \in Thread, NEW p \in Priority, NEW pin \in Pins,
           thread_create(c, t, p, pin)
    PROVE  IInv'
<1>1. /\ rq' = rq /\ cur' = cur /\ mp' = mp /\ preempt' = preempt /\ loaded' = loaded
      /\ ipi' = ipi /\ irq' = irq /\ firing' = firing /\ yielding' = yielding /\ wait' = wait
      /\ timer' = timer /\ forever' = forever
      /\ state[t] = "DEATH" /\ \A d \in Cpu : cur[d] # t
      /\ ticking' = ticking /\ reverted' = reverted
      /\ state' = [state EXCEPT ![t] = "SUSPENDED"] /\ priority' = [priority EXCEPT ![t] = p]
      /\ pinned' = [pinned EXCEPT ![t] = pin] /\ realtime' = realtime \ {t}
      /\ quantum' = [quantum EXCEPT ![t] = 0] /\ ret' = [ret EXCEPT ![t] = "NO_ERROR"]
  BY DEF thread_create, irqVars
<1>2. Types /\ RunsOnOneCpu /\ Starting
  BY DEF IInv
<1>3. state \in [AllThreads -> States] /\ state' \in [AllThreads -> States] /\ t \in AllThreads
  BY <1>1, <1>2, IdleThreads DEF Types, States
<1>4. Types'
  <2>1. pin \in Cpu \cup {NULL}
    BY PinsAssumption
  <2>2. quantum' \in [Thread -> MinQuantum..Quantum]
    BY <1>1, <1>2, QuantumAssumption, SMTT(30) DEF Types, MinQuantum
  <2>3. QED BY <2>1, <2>2, <1>1, <1>2, <1>3 DEF Types
<1>5. Exact(rq', state', priority')
  <2>1. /\ \A u \in Thread : state[u] = "READY" <=> state'[u] = "READY"
        /\ \A u \in Thread : state[u] = "READY" => priority[u] = priority'[u]
    BY <1>1, <1>2, <1>3, IdleThreads DEF Types
  <2>2. Exact(rq, state, priority)
    BY DEF IInv
  <2>3. Exact(rq, state', priority')
    BY <2>1, <2>2, ExactSame
  <2>4. QED BY <2>3, <1>1
<1>6. Waiting(wait', state')
  <2>1. \A u \in Thread : state[u] = "BLOCKED" <=> state'[u] = "BLOCKED"
    BY <1>1, <1>3, IdleThreads
  <2>2. Waiting(wait, state)
    BY DEF IInv
  <2>3. Waiting(wait, state')
    BY <2>1, <2>2, WaitingSame
  <2>4. QED BY <2>3, <1>1
<1>7. RunsOnOneCpu'
  <2>1. \A u \in AllThreads : state'[u] = "RUNNING" <=> state[u] = "RUNNING"
    BY <1>1, <1>3
  <2>2. \A d \in Cpu : ~is_idle(cur[d]) => pinned'[cur[d]] = pinned[cur[d]]
    BY <1>1, <1>2, SMTT(30) DEF Types
  <2>3. QED BY <2>1, <2>2, <1>1, <1>2, SMTT(30) DEF RunsOnOneCpu, is_idle
<1>8. Sleeping'
  <2>1. \A u \in Thread : state[u] = "SLEEPING" => state'[u] = "SLEEPING"
    BY <1>1, <1>3, IdleThreads
  <2>2. QED BY <2>1, <1>1, SleepingSame
<1>9. Starting'
  BY <1>1, <1>2 DEF Starting
<1>10. ASSUME RealTimeTargets = "self" PROVE PreemptTimerExact'
  BY <1>1, <1>10 DEF IInv, PreemptTimerExact, is_real_time_or_idle, is_idle
<1>11. IdleMaskExact'
  BY <1>1 DEF IInv, IdleMaskExact, is_idle
<1>12. ASSUME Unpinned PROVE Told'
  <2>1. Told
    BY <1>12 DEF IInv
  <2>2. pin = NULL
    BY <1>12 DEF Unpinned
  <2>3. \A u \in Thread : /\ pinned'[u] = NULL /\ state'[u] # "SLEEPING"
                          /\ state'[u] = "READY" => state[u] = "READY"
    BY <2>1, <2>2, <1>1, <1>2, <1>3, IdleThreads DEF Told, Types
  <2>4. QED BY <2>1, <2>3, <1>1 DEF Told, is_idle
<1>13. QED BY <1>4, <1>5, <1>6, <1>7, <1>8, <1>9, <1>10, <1>11, <1>12, Parts

LEMMA SetRealTimeKeeps ==
    ASSUME IInv, NEW c \in Cpu, NEW t \in Thread, thread_set_real_time(c, t)
    PROVE  IInv'
<1>1. /\ SameThreads /\ quantum' = quantum /\ mp' = mp /\ loaded' = loaded
      /\ ipi' = ipi /\ irq' = irq /\ ticking' = ticking /\ firing' = firing /\ yielding' = yielding
      /\ timer' = timer /\ reverted' = reverted
      /\ RealTimeTargets = "any" \/ t = cur[c] \/ state[t] = "SUSPENDED"
      /\ preempt' = IF t = cur[c] THEN preempt \ {c} ELSE preempt
      /\ realtime' = realtime \cup {t}
  BY DEF thread_set_real_time, SameThreads, irqVars, waitVars
<1>2. Types /\ Starting /\ RunsOnOneCpu
  BY DEF IInv
<1>3. Types'
  <2>1. realtime' \subseteq Thread /\ preempt' \subseteq Cpu
    BY <1>1, <1>2 DEF Types
  <2>2. QED BY <2>1, <1>1, <1>2 DEF Types, SameThreads
<1>4. Exact(rq', state', priority') /\ RunsOnOneCpu' /\ Waiting(wait', state')
  BY <1>1, SameBooks, ZenonT(30)
<1>5. Sleeping'
  BY <1>1, SleepingSame DEF SameThreads
<1>6. Starting'
  BY <1>1, <1>2 DEF Starting, SameThreads
<1>7. ASSUME RealTimeTargets = "self" PROVE PreemptTimerExact'
  <2>1. PreemptTimerExact
    BY <1>7 DEF IInv
  <2>2. \A d \in Cpu : cur[d] = t => d = c /\ t = cur[c]
    <3>1. t = cur[c] \/ state[t] = "SUSPENDED"
      BY <1>1, <1>7
    <3>2. \A d \in Cpu : state[cur[d]] = "RUNNING"
      BY Current
    <3>3. \A d \in Cpu : cur[d] = cur[c] => d = c
      BY <1>2 DEF RunsOnOneCpu
    <3>4. QED BY <3>1, <3>2, <3>3
  <2>3. QED BY <2>1, <2>2, <1>1 DEF PreemptTimerExact, is_real_time_or_idle, is_idle, SameThreads
<1>8. IdleMaskExact'
  BY <1>1 DEF IInv, IdleMaskExact, is_idle, SameThreads
<1>9. ASSUME Unpinned PROVE Told'
  BY <1>1, <1>9, ZenonT(30) DEF IInv, Told, is_idle, SameThreads
<1>10. QED BY <1>3, <1>4, <1>5, <1>6, <1>7, <1>8, <1>9, Parts

\* A cpu that takes expired timers has started.
LEMMA TakesStarted ==
    ASSUME IInv, NEW c \in Cpu, TakesTimer(c)
    PROVE  c \in mp.active /\ loaded[c] = NULL
<1>1. ticking \subseteq irq
  BY DEF IInv, Types
<1>2. QED BY <1>1, Started DEF TakesTimer

LEMMA TimerTickKeeps ==
    ASSUME IInv, NEW c \in Cpu, NEW t \in Thread, timer_tick(c, t)
    PROVE  IInv'
<1> DEFINE x == IF state[t] = "SLEEPING" THEN "sleep" ELSE "wait"
<1>1. /\ SameThreads /\ realtime' = realtime /\ quantum' = quantum /\ mp' = mp /\ preempt' = preempt
      /\ ipi' = ipi /\ irq' = irq /\ ticking' = ticking /\ loaded' = loaded /\ yielding' = yielding
      /\ reverted' = reverted
      /\ timer[t] = c /\ timer' = [timer EXCEPT ![t] = NULL]
      /\ firing' = [firing EXCEPT ![c] = <<t, x>>] /\ TakesTimer(c)
  BY ZenonT(30) DEF timer_tick, SameThreads, threadAttrs, waitVars
<1>2. Types /\ Starting /\ Sleeping
  BY DEF IInv
<1>3. x \in {"sleep", "wait"} /\ (x = "sleep" => state[t] = "SLEEPING")
  OBVIOUS
<1> HIDE DEF x
<1>4. /\ firing' \in [Cpu -> (Thread \X {"sleep", "wait"}) \cup {NULL}]
      /\ \A d \in Cpu : firing'[d] = IF d = c THEN <<t, x>> ELSE firing[d]
      /\ timer' \in [Thread -> Cpu \cup {NULL}]
      /\ \A u \in Thread : timer'[u] = IF u = t THEN NULL ELSE timer[u]
  BY <1>1, <1>2, <1>3 DEF Types
<1>5. Types'
  BY <1>1, <1>2, <1>4 DEF Types, SameThreads
<1>6. Exact(rq', state', priority') /\ RunsOnOneCpu' /\ Waiting(wait', state')
  BY <1>1, SameBooks
<1>7. Sleeping'
  <2>1. \A d \in Cpu : firing[d] # <<t, "sleep">>
    BY <1>1, <1>2, NULLAssumption DEF Sleeping
  <2>2. ASSUME NEW d \in Cpu, NEW u \in Thread, firing'[d] = <<u, "sleep">>
        PROVE  /\ state'[u] = "SLEEPING" /\ timer'[u] = NULL
               /\ \A e \in Cpu : firing'[e] = <<u, "sleep">> => e = d
    <3>1. CASE u = t
      <4>1. d = c /\ x = "sleep" /\ \A e \in Cpu : firing'[e] = <<u, "sleep">> => e = c
        BY <3>1, <2>1, <2>2, <1>4, SMTT(30)
      <4>2. QED BY <4>1, <3>1, <1>1, <1>3, <1>4 DEF SameThreads
    <3>2. CASE u # t
      <4>1. \A e \in Cpu : firing'[e] = <<u, "sleep">> => firing[e] = <<u, "sleep">>
        BY <3>2, <1>4
      <4>2. firing[d] = <<u, "sleep">>
        BY <4>1, <2>2
      <4>3. state[u] = "SLEEPING" /\ timer[u] = NULL /\ \A e \in Cpu : firing[e] = <<u, "sleep">> => e = d
        BY <4>2, <1>2 DEF Sleeping
      <4>4. state'[u] = "SLEEPING" /\ timer'[u] = NULL
        BY <4>3, <3>2, <1>1, <1>4 DEF SameThreads
      <4>5. QED BY <4>1, <4>3, <4>4
    <3>3. QED BY <3>1, <3>2
  <2>3. QED BY <2>2 DEF Sleeping
<1>8. Starting'
  <2>1. c \in mp.active /\ loaded[c] = NULL
    BY <1>1, TakesStarted
  <2>2. QED BY <2>1, <1>1, <1>2, <1>4 DEF Starting, SameThreads
<1>9. ASSUME RealTimeTargets = "self" PROVE PreemptTimerExact'
  BY <1>1, <1>9 DEF IInv, PreemptTimerExact, is_real_time_or_idle, is_idle, SameThreads
<1>10. IdleMaskExact'
  BY <1>1 DEF IInv, IdleMaskExact, is_idle, SameThreads
<1>11. ASSUME Unpinned PROVE Told'
  BY <1>1, <1>11, ZenonT(30) DEF IInv, Told, is_idle, SameThreads
<1>12. QED BY <1>5, <1>6, <1>7, <1>8, <1>9, <1>10, <1>11, Parts

\* Steps of interrupt handlers that at most ask for a reschedule.
LEMMA AskKeeps ==
    ASSUME IInv, NEW c \in Cpu, c \in mp.active, loaded[c] = NULL, SameThreads, reverted' = reverted,
           realtime' = realtime, mp' = mp, preempt' = preempt, loaded' = loaded, ticking' \subseteq irq',
           yielding' = yielding, timer' = timer, firing' = firing,
           quantum' \in [Thread -> MinQuantum..Quantum],
           \/ ipi' = ipi /\ irq' = irq
           \/ ipi \ {c} \subseteq ipi' /\ ipi' \subseteq ipi /\ irq' = irq \cup {c}
    PROVE  IInv'
<1>1. Types /\ Starting
  BY DEF IInv
<1>2. Types'
  <2>1. ipi' \subseteq Cpu /\ irq' \subseteq Cpu
    BY <1>1 DEF Types
  <2>2. QED BY <2>1, <1>1 DEF Types, SameThreads
<1>3. Exact(rq', state', priority') /\ RunsOnOneCpu' /\ Waiting(wait', state')
  BY SameBooks
<1>4. Sleeping'
  BY SleepingSame DEF SameThreads
<1>5. Starting'
  BY <1>1 DEF Starting, SameThreads
<1>6. ASSUME RealTimeTargets = "self" PROVE PreemptTimerExact'
  BY <1>6 DEF IInv, PreemptTimerExact, is_real_time_or_idle, is_idle, SameThreads
<1>7. IdleMaskExact'
  BY DEF IInv, IdleMaskExact, is_idle, SameThreads
<1>8. ASSUME Unpinned PROVE Told'
  BY <1>8, ZenonT(30) DEF IInv, Told, is_idle, SameThreads
<1>9. QED BY <1>2, <1>3, <1>4, <1>5, <1>6, <1>7, <1>8, Parts

LEMMA TimerHandlerKeeps ==
    ASSUME IInv, NEW c \in Cpu, thread_timer_tick(c)
    PROVE  IInv'
<1> DEFINE left == Max({quantum[cur[c]] - 1, MinQuantum})
<1>1. /\ TakesTimer(c) /\ SameThreads /\ realtime' = realtime /\ mp' = mp /\ preempt' = preempt
      /\ loaded' = loaded /\ yielding' = yielding /\ timer' = timer /\ firing' = firing
      /\ quantum' = [quantum EXCEPT ![cur[c]] = left] /\ ~is_idle(cur[c])
      /\ ipi' = ipi /\ reverted' = reverted
      /\ (irq' = irq /\ ticking' = ticking) \/ (irq' = irq \cup {c} /\ ticking' = ticking \cup {c})
  BY DEF thread_timer_tick, CallbackReturns, SameThreads, threadAttrs, waitVars, is_real_time_or_idle
<1>2. cur[c] \in Thread /\ quantum \in [Thread -> MinQuantum..Quantum]
  BY <1>1, Current, ZenonT(30) DEF IInv, Types
<1>3. left \in MinQuantum..Quantum
  <2>1. CASE quantum[cur[c]] = 0
    <3>1. \A k \in {quantum[cur[c]] - 1, MinQuantum} : k <= 0
      BY <2>1 DEF MinQuantum
    <3>2. left = 0
      BY <2>1 DEF Max, MinQuantum
    <3>3. QED BY <3>2, QuantumAssumption DEF MinQuantum
  <2>2. CASE quantum[cur[c]] # 0
    <3>1. {quantum[cur[c]] - 1, MinQuantum} \in SUBSET (0..Quantum) /\ Quantum \in Nat
      BY <2>2, <1>2, QuantumAssumption DEF MinQuantum
    <3>2. left \in {quantum[cur[c]] - 1, MinQuantum}
      BY <3>1, MaxIsGreatest
    <3>3. QED BY <3>1, <3>2 DEF MinQuantum
  <2>3. QED BY <2>1, <2>2
<1> HIDE DEF left
<1>4. quantum' \in [Thread -> MinQuantum..Quantum]
  BY <1>1, <1>2, <1>3
<1>5. c \in mp.active /\ loaded[c] = NULL
  BY <1>1, TakesStarted
<1>6. ticking' \subseteq irq'
  BY <1>1 DEF IInv, Types
<1>7. QED BY <1>1, <1>4, <1>5, <1>6, AskKeeps

LEMMA RescheduleIrqKeeps ==
    ASSUME IInv, NEW c \in Cpu, mp_mbx_reschedule_irq(c)
    PROVE  IInv'
<1>1. quantum' \in [Thread -> MinQuantum..Quantum]
  BY ZenonT(30) DEF IInv, Types, mp_mbx_reschedule_irq
<1>2. c \in mp.active /\ loaded[c] = NULL
  BY Started, ZenonT(30) DEF mp_mbx_reschedule_irq
<1>3. ticking' \subseteq irq'
  BY DEF IInv, Types, mp_mbx_reschedule_irq
<1>4. QED
  BY <1>1, <1>2, <1>3, AskKeeps DEF mp_mbx_reschedule_irq, SameThreads, threadAttrs, waitVars

-----------------------------------------------------------------------------

LEMMA InitIInv ==
    ASSUME Init
    PROVE  IInv
<1>1. /\ state = [t \in AllThreads |-> IF t \in Thread THEN "DEATH" ELSE "RUNNING"]
      /\ priority = [t \in Thread |-> 1] /\ pinned = [t \in Thread |-> NULL] /\ realtime = {}
      /\ quantum = [t \in Thread |-> 0] /\ rq = [queue |-> [p \in Priority |-> <<>>], bitmap |-> {}]
      /\ cur = [c \in Cpu |-> idle_thread(c)] /\ mp = [active |-> {}, idle |-> {}, realtime |-> {}]
      /\ preempt = {} /\ ipi = {} /\ irq = {} /\ ticking = {} /\ yielding = {} /\ loaded = [c \in Cpu |-> NULL]
      /\ wait = <<>> /\ ret = [t \in Thread |-> "NO_ERROR"] /\ timer = [t \in Thread |-> NULL]
      /\ firing = [c \in Cpu |-> NULL] /\ forever = {} /\ reverted = {}
  BY ZenonT(30) DEF Init
<1>2. Types
  <2>1. state \in [AllThreads -> States]
    BY <1>1 DEF States
  <2>2. priority \in [Thread -> Priority] /\ quantum \in [Thread -> MinQuantum..Quantum]
    BY <1>1, PriorityAssumption, QuantumAssumption, SMTT(30) DEF MinQuantum, Priority
  <2>3. cur \in [Cpu -> AllThreads]
    BY <1>1, IdleThreads
  <2>4. QED BY <2>1, <2>2, <2>3, <1>1 DEF Types
<1>3. <<>> \in Seq(Thread) /\ IsInjective(<<>>) /\ Range(<<>>) = {}
  <2>1. <<>> \in Seq(Thread)
    OBVIOUS
  <2>2. IsInjective(<<>>)
    BY DEF IsInjective
  <2>3. QED BY <2>1, <2>2, EmptyList, ZenonT(30)
<1>4. \A t \in Thread : state[t] = "DEATH"
  BY <1>1, IdleThreads
<1>5. Exact(rq, state, priority)
  BY <1>1, <1>3, <1>4 DEF Exact, RunQueues
<1>6. Waiting(wait, state)
  BY <1>1, <1>3, <1>4 DEF Waiting
<1>7. RunsOnOneCpu
  <2>1. \A t \in AllThreads : state[t] = "RUNNING" <=> \E c \in Cpu : idle_thread(c) = t
    BY <1>1, IdleAssumption DEF AllThreads
  <2>2. \A t \in AllThreads : state[t] = "RUNNING" <=> \E c \in Cpu : cur[c] = t
    BY <2>1, <1>1
  <2>3. QED BY <2>2, <1>1, IdleThreads DEF RunsOnOneCpu
<1>8. Sleeping
  <2>1. \A t \in Thread, x \in {"sleep"} : <<t, x>> # NULL
    BY NULLAssumption
  <2>2. QED BY <2>1, <1>1 DEF Sleeping
<1>9. Starting /\ PreemptTimerExact /\ IdleMaskExact /\ Told
  BY <1>1, <1>4, IdleThreads DEF Starting, PreemptTimerExact, IdleMaskExact, Told, is_real_time_or_idle
<1>10. QED BY <1>2, <1>5, <1>6, <1>7, <1>8, <1>9 DEF IInv

LEMMA StutterKeeps ==
    ASSUME IInv, UNCHANGED vars
    PROVE  IInv'
<1>1. /\ SameThreads /\ realtime' = realtime /\ quantum' = quantum /\ mp' = mp /\ preempt' = preempt
      /\ ipi' = ipi /\ irq' = irq /\ ticking' = ticking /\ loaded' = loaded /\ yielding' = yielding
      /\ timer' = timer /\ firing' = firing /\ reverted' = reverted
  BY DEF vars, SameThreads
<1>2. Types' /\ Starting'
  BY <1>1, ZenonT(30) DEF IInv, Types, Starting, SameThreads
<1>3. Exact(rq', state', priority') /\ RunsOnOneCpu' /\ Waiting(wait', state')
  BY <1>1, SameBooks
<1>4. Sleeping'
  BY <1>1, SleepingSame DEF SameThreads
<1>5. ASSUME RealTimeTargets = "self" PROVE PreemptTimerExact'
  BY <1>1, <1>5 DEF IInv, PreemptTimerExact, is_real_time_or_idle, is_idle, SameThreads
<1>6. IdleMaskExact'
  BY <1>1 DEF IInv, IdleMaskExact, is_idle, SameThreads
<1>7. ASSUME Unpinned PROVE Told'
  BY <1>1, <1>7 DEF IInv, Told, is_idle, SameThreads
<1>8. QED BY <1>2, <1>3, <1>4, <1>5, <1>6, <1>7, Parts

\* Every step keeps the invariant, and a cpu that switches takes the highest priority.
LEMMA NextIInv ==
    ASSUME IInv, [Next]_vars
    PROVE  IInv' /\ HighestTaken
<1>1. CASE UNCHANGED vars
  BY <1>1, StutterKeeps, NoSwitch DEF vars
<1>2. CASE Next
  <2>1. PICK c \in Cpu :
            \/ thread_become_idle(c)
            \/ mp_set_cpu_idle(c)
            \/ \E t \in Thread, p \in Priorities \cap Priority, pin \in Pins : thread_create(c, t, p, pin)
            \/ \E t \in Thread : thread_resume(c, t)
            \/ thread_yield(c)
            \/ \E p \in Priorities : thread_set_priority(c, p)
            \/ \E t \in Thread : thread_set_real_time(c, t)
            \/ thread_exit(c)
            \/ thread_sleep(c)
            \/ \E timed \in BOOLEAN : wait_queue_block(c, timed)
            \/ wait_queue_wake_one(c)
            \/ wait_queue_wake_all(c)
            \/ Interrupt(c)
    BY <1>2 DEF Next
  <2>2. CASE thread_become_idle(c)
    BY <2>2, BecomeIdleKeeps, NoSwitch, ZenonT(30) DEF thread_become_idle
  <2>3. CASE mp_set_cpu_idle(c)
    BY <2>3, SetCpuIdleKeeps, NoSwitch, ZenonT(30) DEF mp_set_cpu_idle
  <2>4. ASSUME NEW t \in Thread, NEW p \in Priorities \cap Priority, NEW pin \in Pins, thread_create(c, t, p, pin)
        PROVE  IInv' /\ HighestTaken
    BY <2>4, CreateKeeps, NoSwitch, ZenonT(30) DEF thread_create
  <2>5. ASSUME NEW t \in Thread, thread_resume(c, t) PROVE IInv' /\ HighestTaken
    BY <2>5, ResumeKeeps, NoSwitch, ZenonT(30) DEF thread_resume
  <2>6. CASE thread_yield(c)
    BY <2>6, YieldKeeps
  <2>7. ASSUME NEW p \in Priorities, thread_set_priority(c, p) PROVE IInv' /\ HighestTaken
    BY <2>7, SetPriorityKeeps
  <2>8. ASSUME NEW t \in Thread, thread_set_real_time(c, t) PROVE IInv' /\ HighestTaken
    BY <2>8, SetRealTimeKeeps, NoSwitch DEF thread_set_real_time
  <2>9. CASE thread_exit(c)
    BY <2>9, ExitKeeps
  <2>10. CASE thread_sleep(c)
    BY <2>10, SleepKeeps
  <2>11. ASSUME NEW timed \in BOOLEAN, wait_queue_block(c, timed) PROVE IInv' /\ HighestTaken
    BY <2>11, BlockKeeps
  <2>12. CASE wait_queue_wake_one(c)
    BY <2>12, WakeOneKeeps
  <2>13. CASE wait_queue_wake_all(c)
    BY <2>13, WakeAllKeeps
  <2>14. CASE Interrupt(c)
    <3>1. ASSUME NEW t \in Thread, timer_tick(c, t) PROVE IInv' /\ HighestTaken
      BY <3>1, TimerTickKeeps, NoSwitch, ZenonT(30) DEF timer_tick
    <3>2. CASE thread_sleep_handler(c)
      BY <3>2, SleepHandlerKeeps, NoSwitch, ZenonT(30) DEF thread_sleep_handler
    <3>3. CASE wait_queue_timeout_handler(c)
      BY <3>3, TimeoutHandlerKeeps, NoSwitch, ZenonT(30) DEF wait_queue_timeout_handler
    <3>4. CASE thread_timer_tick(c)
      BY <3>4, TimerHandlerKeeps, NoSwitch, ZenonT(30) DEF thread_timer_tick
    <3>5. CASE mp_mbx_reschedule_irq(c)
      BY <3>5, RescheduleIrqKeeps, NoSwitch DEF mp_mbx_reschedule_irq
    <3>6. CASE thread_preempt(c)
      BY <3>6, PreemptKeeps
    <3>7. QED BY <3>1, <3>2, <3>3, <3>4, <3>5, <3>6, <2>14 DEF Interrupt
  <2>15. QED
    BY <2>1, <2>2, <2>3, <2>4, <2>5, <2>6, <2>7, <2>8, <2>9, <2>10, <2>11, <2>12, <2>13, <2>14
<1>3. QED BY <1>1, <1>2

-----------------------------------------------------------------------------

(***************************************************************************)
(* run_queue[] and run_queue_bitmap: whatever threads and interrupt        *)
(* handlers do, the run queues hold exactly the ready threads, each once   *)
(* and at its present priority, and the bitmap has exactly the bits of the *)
(* queues that are not empty.                                              *)
(***************************************************************************)
THEOREM SchedulerQueuesExact == Spec => []RunQueuesExact
<1>1. IInv => RunQueuesExact
  BY DEF IInv, Exact, RunQueuesExact
<1>2. QED BY InitIInv, NextIInv, <1>1, PTL DEF Spec

(***************************************************************************)
(* set_current_thread(): a thread runs on at most one cpu, one it is not   *)
(* pinned away from, and the threads in state THREAD_RUNNING are exactly   *)
(* the current threads.                                                    *)
(***************************************************************************)
THEOREM SchedulerOneCpu == Spec => []RunsOnOneCpu
<1>1. IInv => RunsOnOneCpu
  BY DEF IInv
<1>2. QED BY InitIInv, NextIInv, <1>1, PTL DEF Spec

(***************************************************************************)
(* mp_set_cpu_idle() and mp_set_cpu_busy(): idle_cpus has the bit of a     *)
(* started cpu exactly while the cpu runs its idle thread, but for cpus    *)
(* whose bit a starting cpu, which updates idle_cpus without thread_lock,  *)
(* has set back and that have not switched since.                          *)
(***************************************************************************)
THEOREM SchedulerCpusExact == Spec => []CpusExact
<1>1. IInv => CpusExact
  BY DEF IInv, CpusExact
<1>2. QED BY InitIInv, NextIInv, <1>1, PTL DEF Spec

(***************************************************************************)
(* thread_resched() and thread_set_real_time(): while threads make only    *)
(* themselves, or threads that have not started, real time, the preemption *)
(* timer of a cpu is set exactly while the cpu runs a regular thread.      *)
(***************************************************************************)
THEOREM SchedulerTimerExact == ASSUME RealTimeTargets = "self" PROVE Spec => []PreemptTimerExact
<1>1. IInv => PreemptTimerExact
  BY DEF IInv
<1>2. QED BY InitIInv, NextIInv, <1>1, PTL DEF Spec

(***************************************************************************)
(* mp_reschedule(): if no thread is pinned and none sleeps (the handler of *)
(* a sleep timer interrupts no other cpu), a cpu idles while a thread is   *)
(* ready only as long as it takes the cpu to react.                        *)
(***************************************************************************)
THEOREM SchedulerNoneIdle == ASSUME Unpinned PROVE Spec => []WorkConserving
<1>1. IInv => WorkConserving
  <2>1. SUFFICES ASSUME IInv, NEW c \in mp.active, is_idle(cur[c]), loaded[c] = NULL,
                        NEW t \in Eligible(c)
                 PROVE  c \in ipi \/ c \in irq \/ cur[c] \in yielding
    BY DEF WorkConserving
  <2>2. QED BY <2>1 DEF IInv, Told, Eligible
<1>2. QED BY InitIInv, NextIInv, <1>1, PTL DEF Spec

(***************************************************************************)
(* thread_resched() and get_top_thread(): a cpu that switches leaves no    *)
(* thread ready that it could have run and that has a higher priority than *)
(* the one it runs now.                                                    *)
(***************************************************************************)
THEOREM SchedulerSwitchesToHighest == Spec => SwitchesToHighest
BY InitIInv, NextIInv, PTL DEF Spec, SwitchesToHighest

\* Every variable of kernel/thread.c and kernel/mp.c that is modelled keeps its type.
THEOREM SchedulerTypeCorrect == Spec => []TypeOK
<1>1. IInv => TypeOK
  <2>1. SUFFICES ASSUME IInv PROVE TypeOK
    OBVIOUS
  <2>2. Types /\ rq \in RunQueues /\ wait \in Seq(Thread)
    BY <2>1 DEF IInv, Exact, Waiting
  <2>3. /\ Range(wait) \subseteq Thread /\ DOMAIN rq.queue = Priority
        /\ rq.bitmap \subseteq Priority /\ \A p \in Priority : Range(rq.queue[p]) \subseteq Thread
    BY <2>2, ElementsOfList DEF RunQueues
  <2>4. QED BY <2>2, <2>3 DEF Types, TypeOK, States
<1>2. QED BY InitIInv, NextIInv, <1>1, PTL DEF Spec

=============================================================================
