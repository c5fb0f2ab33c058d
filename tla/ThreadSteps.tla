----------------------------- MODULE ThreadSteps -----------------------------
(***************************************************************************)
(* The inductive invariant of the scheduler.  The operations by which a    *)
(* thread gives up the cpu keep it, for every number of threads, of cpus   *)
(* and of priorities.                                                      *)
(***************************************************************************)
EXTENDS Thread, ListProofs

RunQueues == [queue: [Priority -> Seq(Thread)], bitmap: SUBSET Priority]

\* The run queues r hold the threads that are ready in st, at priorities pr.
Exact(r, st, pr) ==
    /\ r \in RunQueues
    /\ \A p \in Priority :
        /\ Range(r.queue[p]) = {t \in Thread : st[t] = "READY" /\ pr[t] = p}
        /\ IsInjective(r.queue[p])
        /\ p \in r.bitmap <=> r.queue[p] # <<>>

States == {"SUSPENDED", "READY", "RUNNING", "BLOCKED", "SLEEPING", "DEATH"}

(***************************************************************************)
(* The inductive invariant: the types, ...                                 *)
(***************************************************************************)
Types ==
    /\ state \in [AllThreads -> States]
    /\ priority \in [Thread -> Priority]
    /\ pinned \in [Thread -> Cpu \cup {NULL}]
    /\ realtime \subseteq Thread
    /\ quantum \in [Thread -> MinQuantum..Quantum]
    /\ cur \in [Cpu -> AllThreads]
    /\ mp \in [active: SUBSET Cpu, idle: SUBSET Cpu, realtime: SUBSET Cpu]
    /\ preempt \subseteq Cpu /\ ipi \subseteq Cpu /\ irq \subseteq Cpu /\ ticking \subseteq irq
    /\ loaded \in [Cpu -> (SUBSET Cpu) \cup {NULL}]
    /\ yielding \subseteq AllThreads
    /\ ret \in [Thread -> {"NO_ERROR", "ERR_TIMED_OUT"}]
    /\ timer \in [Thread -> Cpu \cup {NULL}]
    /\ firing \in [Cpu -> (Thread \X {"sleep", "wait"}) \cup {NULL}]
    /\ forever \subseteq Thread
    /\ reverted \subseteq Cpu

\* ... the list l of the wait queue holds the threads that are blocked in st, ...
Waiting(l, st) ==
    /\ l \in Seq(Thread) /\ IsInjective(l)
    /\ Range(l) = {t \in Thread : st[t] = "BLOCKED"}

\* ... the timer of a sleep that expires is of a thread that sleeps and has no other, ...
Sleeping ==
    \A c \in Cpu, t \in Thread :
        firing[c] = <<t, "sleep">> =>
            /\ state[t] = "SLEEPING" /\ timer[t] = NULL
            /\ \A d \in Cpu : firing[d] = <<t, "sleep">> => d = c

\* ... a cpu that has not started runs nothing and takes no interrupts, ...
Starting ==
    \A c \in Cpu :
        c \notin mp.active \/ loaded[c] # NULL =>
            cur[c] = idle_thread(c) /\ c \notin irq /\ firing[c] = NULL

(***************************************************************************)
(* ... and where threads are not pinned and do not sleep, an idle cpu that *)
(* could run one of the ready threads has been told so.                    *)
(***************************************************************************)
Unpinned == Pins \subseteq {NULL} /\ "sleep" \notin Calls

Told ==
    /\ \A t \in Thread : pinned[t] = NULL /\ state[t] # "SLEEPING"
    /\ \A c \in mp.realtime : ~is_idle(cur[c])
    /\ \A c \in mp.active : \A t \in Thread :
        is_idle(cur[c]) /\ loaded[c] = NULL /\ state[t] = "READY" =>
            c \in ipi \/ c \in irq \/ cur[c] \in yielding

IInv ==
    /\ Types
    /\ Exact(rq, state, priority)
    /\ RunsOnOneCpu
    /\ Waiting(wait, state)
    /\ Sleeping
    /\ Starting
    /\ RealTimeTargets = "self" => PreemptTimerExact
    /\ IdleMaskExact
    /\ Unpinned => Told

LEMMA EmptyList ==
    ASSUME NEW l \in Seq(Thread)
    PROVE  l = <<>> <=> Range(l) = {}
<1>1. l = <<>> <=> Len(l) = 0
  BY EmptySeq
<1>2. Len(l) \in Nat /\ \A x : x \in Range(l) <=> \E i \in 1..Len(l) : l[i] = x
  BY ElementsOfList
<1>3. ASSUME Range(l) = {}, Len(l) # 0 PROVE FALSE
  <2>1. 1 \in 1..Len(l) BY <1>2, <1>3
  <2>2. QED BY <2>1, <1>2, <1>3
<1>4. QED BY <1>1, <1>2, <1>3

LEMMA DeleteElements ==
    ASSUME NEW l \in Seq(Thread), IsInjective(l), NEW t \in Range(l)
    PROVE  /\ list_delete(l, t) \in Seq(Thread)
           /\ Len(list_delete(l, t)) = Len(l) - 1
           /\ Range(list_delete(l, t)) = Range(l) \ {t}
           /\ IsInjective(list_delete(l, t))
<1> DEFINE k == CHOOSE i \in DOMAIN l : l[i] = t
<1>1. k \in 1..Len(l) /\ l[k] = t
  BY ElementsOfList
<1> HIDE DEF k
<1>2. QED BY <1>1, RemoveElements, ZenonT(30) DEF list_delete, k

\* A thread that becomes ready is inserted in the queue of its priority, ...
LEMMA Insert ==
    ASSUME NEW r, NEW st \in [AllThreads -> States], NEW t \in Thread,
           priority' \in [Thread -> Priority],
           st[t] # "READY", Exact(r, st, priority'),
           NEW l \in Seq(Thread), IsInjective(l), Range(l) = Range(r.queue[priority'[t]]) \cup {t}
    PROVE  Exact([queue |-> [r.queue EXCEPT ![priority'[t]] = l], bitmap |-> r.bitmap \cup {priority'[t]}],
                 [st EXCEPT ![t] = "READY"], priority')
<1> DEFINE h == priority'[t]
           a == [queue |-> [r.queue EXCEPT ![h] = l], bitmap |-> r.bitmap \cup {h}]
           s == [st EXCEPT ![t] = "READY"]
<1>1. h \in Priority /\ t \in AllThreads /\ r \in RunQueues
  BY PriorityAssumption DEF Priority, AllThreads, Exact
<1>2. Range(r.queue[h]) = {u \in Thread : st[u] = "READY" /\ priority'[u] = h}
  BY <1>1 DEF Exact
<1>3. l # <<>>
  BY EmptyList
<1>4. a.queue = [r.queue EXCEPT ![h] = l] /\ a.bitmap = r.bitmap \cup {h} /\ a \in RunQueues
  BY <1>1 DEF RunQueues
<1> HIDE DEF a
<1>5. ASSUME NEW p \in Priority
      PROVE  /\ Range(a.queue[p]) = {u \in Thread : s[u] = "READY" /\ priority'[u] = p}
             /\ IsInjective(a.queue[p])
             /\ p \in a.bitmap <=> a.queue[p] # <<>>
  <2>1. CASE p = h
    <3>1. a.queue[p] = l /\ p \in a.bitmap
      BY <2>1, <1>1, <1>4 DEF RunQueues
    <3>2. QED BY <3>1, <2>1, <1>1, <1>2, <1>3
  <2>2. CASE p # h
    <3>1. a.queue[p] = r.queue[p] /\ (p \in a.bitmap <=> p \in r.bitmap)
      BY <2>2, <1>1, <1>4 DEF RunQueues
    <3>2. \A u \in Thread : s[u] = "READY" /\ priority'[u] = p <=> st[u] = "READY" /\ priority'[u] = p
      BY <2>2, <1>1
    <3>3. QED BY <3>1, <3>2 DEF Exact
  <2>3. QED BY <2>1, <2>2
<1>6. QED BY <1>4, <1>5 DEF Exact, a

\* ... the elements of which are ready already, ...
LEMMA QueueOf ==
    ASSUME NEW r, NEW st, NEW t \in Thread, priority' \in [Thread -> Priority],
           Exact(r, st, priority')
    PROVE  /\ r.queue[priority'[t]] \in Seq(Thread) /\ IsInjective(r.queue[priority'[t]])
           /\ t \in Range(r.queue[priority'[t]]) <=> st[t] = "READY"
<1>1. priority'[t] \in Priority /\ r \in RunQueues
  BY PriorityAssumption DEF Priority, Exact
<1>2. QED BY <1>1 DEF Exact, RunQueues

\* ... before ...
LEMMA InsertHead ==
    ASSUME NEW r, NEW st \in [AllThreads -> States], NEW t \in Thread,
           priority' \in [Thread -> Priority],
           st[t] # "READY", Exact(r, st, priority')
    PROVE  Exact(insert_in_run_queue_head(r, t), [st EXCEPT ![t] = "READY"], priority')
<1> DEFINE q == r.queue[priority'[t]]
           l == <<t>> \o q
<1>1. q \in Seq(Thread) /\ IsInjective(q) /\ t \notin Range(q)
  BY QueueOf
<1> HIDE DEF q
<1>2. l \in Seq(Thread) /\ IsInjective(l) /\ Range(l) = Range(q) \cup {t}
  BY <1>1, PrependElements
<1>3. insert_in_run_queue_head(r, t) =
        [queue |-> [r.queue EXCEPT ![priority'[t]] = l], bitmap |-> r.bitmap \cup {priority'[t]}]
  BY DEF insert_in_run_queue_head, q
<1> HIDE DEF l
<1>4. Exact([queue |-> [r.queue EXCEPT ![priority'[t]] = l], bitmap |-> r.bitmap \cup {priority'[t]}],
            [st EXCEPT ![t] = "READY"], priority')
  BY <1>2, Insert, ZenonT(30) DEF q
<1>5. QED BY <1>3, <1>4

\* ... or after them.
LEMMA InsertTail ==
    ASSUME NEW r, NEW st \in [AllThreads -> States], NEW t \in Thread,
           priority' \in [Thread -> Priority],
           st[t] # "READY", Exact(r, st, priority')
    PROVE  Exact(insert_in_run_queue_tail(r, t), [st EXCEPT ![t] = "READY"], priority')
<1> DEFINE q == r.queue[priority'[t]]
           l == Append(q, t)
<1>1. q \in Seq(Thread) /\ IsInjective(q) /\ t \notin Range(q)
  BY QueueOf
<1> HIDE DEF q
<1>2. l \in Seq(Thread) /\ IsInjective(l) /\ Range(l) = Range(q) \cup {t}
  BY <1>1, AppendElements
<1>3. insert_in_run_queue_tail(r, t) =
        [queue |-> [r.queue EXCEPT ![priority'[t]] = l], bitmap |-> r.bitmap \cup {priority'[t]}]
  BY DEF insert_in_run_queue_tail, q
<1> HIDE DEF l
<1>4. Exact([queue |-> [r.queue EXCEPT ![priority'[t]] = l], bitmap |-> r.bitmap \cup {priority'[t]}],
            [st EXCEPT ![t] = "READY"], priority')
  BY <1>2, Insert, ZenonT(30) DEF q
<1>5. QED BY <1>3, <1>4

\* The thread that get_top_thread() takes off its queue is no longer ready.
LEMMA DequeueExact ==
    ASSUME NEW r, NEW st \in [AllThreads -> States], NEW t \in Thread,
           priority' \in [Thread -> Priority],
           st[t] = "READY", Exact(r, st, priority')
    PROVE  Exact(Dequeue(r, t), [st EXCEPT ![t] = "RUNNING"], priority')
<1> DEFINE h == priority'[t]
           l == list_delete(r.queue[h], t)
           a == Dequeue(r, t)
           s == [st EXCEPT ![t] = "RUNNING"]
<1>1. h \in Priority /\ t \in AllThreads /\ r \in RunQueues
  BY PriorityAssumption DEF Priority, AllThreads, Exact
<1>2. /\ r.queue[h] \in Seq(Thread) /\ IsInjective(r.queue[h])
      /\ Range(r.queue[h]) = {u \in Thread : st[u] = "READY" /\ priority'[u] = h}
  BY <1>1 DEF Exact, RunQueues
<1>3. l \in Seq(Thread) /\ IsInjective(l) /\ Range(l) = Range(r.queue[h]) \ {t}
  BY <1>2, DeleteElements
<1>4. /\ a.queue = [r.queue EXCEPT ![h] = l]
      /\ a.bitmap = IF l = <<>> THEN r.bitmap \ {h} ELSE r.bitmap
      /\ a = [queue |-> a.queue, bitmap |-> a.bitmap]
  BY DEF Dequeue, is_idle
<1> HIDE DEF l, a
<1>5. h \in r.bitmap
  BY <1>1, <1>2, EmptyList DEF Exact
<1>6. a \in RunQueues
  <2>1. r.queue \in [Priority -> Seq(Thread)] /\ r.bitmap \in SUBSET Priority
    BY <1>1 DEF RunQueues
  <2> HIDE DEF h
  <2>2. a.queue \in [Priority -> Seq(Thread)]
    BY <2>1, <1>1, <1>3, <1>4
  <2>3. a.bitmap \in SUBSET Priority
    BY <2>1, <1>4
  <2>4. QED BY <2>2, <2>3, <1>4, Zenon DEF RunQueues
<1>7. ASSUME NEW p \in Priority
      PROVE  /\ Range(a.queue[p]) = {u \in Thread : s[u] = "READY" /\ priority'[u] = p}
             /\ IsInjective(a.queue[p])
             /\ p \in a.bitmap <=> a.queue[p] # <<>>
  <2>1. CASE p = h
    <3>1. a.queue[p] = l /\ (p \in a.bitmap <=> l # <<>>)
      BY <2>1, <1>1, <1>4, <1>5 DEF RunQueues
    <3>2. QED BY <3>1, <2>1, <1>1, <1>2, <1>3
  <2>2. CASE p # h
    <3>1. a.queue[p] = r.queue[p] /\ (p \in a.bitmap <=> p \in r.bitmap)
      BY <2>2, <1>1, <1>4 DEF RunQueues
    <3>2. \A u \in Thread : s[u] = "READY" /\ priority'[u] = p <=> st[u] = "READY" /\ priority'[u] = p
      BY <2>2, <1>1
    <3>3. QED BY <3>1, <3>2 DEF Exact
  <2>3. QED BY <2>1, <2>2
<1>8. QED BY <1>6, <1>7 DEF Exact, a

(***************************************************************************)
(* get_top_thread(): of the ready threads cpu c can run it takes one of    *)
(* the highest priority, and the idle thread only when there are none.     *)
(***************************************************************************)
Top(t, st, c) ==
    \/ /\ t \in Thread /\ st[t] = "READY" /\ CanRunOn(t, c)
       /\ \A u \in Thread : st[u] = "READY" /\ CanRunOn(u, c) => priority'[u] <= priority'[t]
    \/ /\ t = idle_thread(c)
       /\ \A u \in Thread : st[u] = "READY" => ~CanRunOn(u, c)

LEMMA TopThread ==
    ASSUME NEW r, NEW st, NEW c \in Cpu, priority' \in [Thread -> Priority],
           Exact(r, st, priority')
    PROVE  Top(get_top_thread(r, c), st, c)
<1> DEFINE ps == {p \in r.bitmap : Candidates(r, p, c) # {}}
           top == TopPriority(ps)
           new == r.queue[top][Min(Candidates(r, top, c))]
<1>1. /\ \A p \in Priority : /\ r.queue[p] \in Seq(Thread)
                             /\ Range(r.queue[p]) = {t \in Thread : st[t] = "READY" /\ priority'[t] = p}
                             /\ p \in r.bitmap <=> r.queue[p] # <<>>
      /\ r.bitmap \subseteq Priority
  BY DEF Exact, RunQueues
<1>2. ASSUME NEW u \in Thread, st[u] = "READY", CanRunOn(u, c) PROVE priority'[u] \in ps
  <2>1. priority'[u] \in Priority
    BY PriorityAssumption DEF Priority
  <2>2. u \in Range(r.queue[priority'[u]])
    BY <1>1, <1>2, <2>1
  <2>3. priority'[u] \in r.bitmap
    BY <1>1, <2>1, <2>2, EmptyList
  <2>4. \E i \in DOMAIN r.queue[priority'[u]] : r.queue[priority'[u]][i] = u
    BY <1>1, <2>1, <2>2, ElementsOfList
  <2>5. QED BY <2>3, <2>4, <1>2 DEF Candidates
<1>3. CASE ps = {}
  BY <1>2, <1>3 DEF get_top_thread, Top
<1>4. CASE ps # {}
  <2>1. top \in ps /\ \A p \in ps : p <= top
    <3>1. HIGHEST_PRIORITY \in Nat /\ ps \in SUBSET (0..HIGHEST_PRIORITY)
      BY <1>1, PriorityAssumption DEF Priority
    <3> HIDE DEF ps
    <3>2. QED BY <3>1, <1>4, MaxIsGreatest, ZenonT(30) DEF TopPriority
  <2>2. top \in Priority /\ Candidates(r, top, c) # {}
    BY <2>1, <1>1, ZenonT(30)
  <2>3. get_top_thread(r, c) = new
    BY <1>4 DEF get_top_thread
  <2> HIDE DEF ps, top
  <2>4. Min(Candidates(r, top, c)) \in Candidates(r, top, c)
    <3>1. Candidates(r, top, c) \in SUBSET Nat
      BY <2>2, <1>1, ElementsOfList DEF Candidates
    <3>2. QED BY <3>1, <2>2, MinIsLeast
  <2>5. new \in Range(r.queue[top]) /\ CanRunOn(new, c)
    <3>1. Min(Candidates(r, top, c)) \in DOMAIN r.queue[top] /\ CanRunOn(new, c)
      BY <2>4 DEF Candidates
    <3>2. QED BY <3>1, Zenon DEF Range
  <2>6. new \in Thread /\ st[new] = "READY" /\ priority'[new] = top
    BY <2>5, <2>2, <1>1
  <2>7. \A u \in Thread : st[u] = "READY" /\ CanRunOn(u, c) => priority'[u] <= priority'[new]
    BY <1>2, <2>1, <2>6
  <2>8. QED BY <2>3, <2>5, <2>6, <2>7 DEF Top
<1>5. QED BY <1>3, <1>4

-----------------------------------------------------------------------------

(***************************************************************************)
(* The loop of wait_queue_wake_all(): w is the run queues after each of    *)
(* the first N threads of ts has been inserted.                            *)
(***************************************************************************)
IsLoop(w, ts, r, N) ==
    w = [n \in 0..N |-> IF n = 0 THEN r ELSE insert_in_run_queue_head(w[n - 1], ts[n])]

LEMMA LoopExists ==
    ASSUME NEW ts, NEW r, NEW N \in Nat
    PROVE  \E w : IsLoop(w, ts, r, N)
<1> DEFINE S == {n \in Nat : \E w : IsLoop(w, ts, r, n)}
<1>1. 0 \in S
  <2>1. IsLoop([n \in 0..0 |-> r], ts, r, 0)
    BY DEF IsLoop
  <2>2. QED BY <2>1
<1>2. ASSUME NEW n \in 0..N - 1, n \in S PROVE n + 1 \in S
  <2>1. PICK w : IsLoop(w, ts, r, n)
    BY <1>2
  <2> DEFINE v == [i \in 0..n + 1 |-> IF i = n + 1 THEN insert_in_run_queue_head(w[n], ts[n + 1]) ELSE w[i]]
  <2>2. ASSUME NEW i \in 0..n + 1
        PROVE  v[i] = IF i = 0 THEN r ELSE insert_in_run_queue_head(v[i - 1], ts[i])
    <3>1. CASE i = n + 1
      <4>1. v[i] = insert_in_run_queue_head(w[n], ts[n + 1])
        BY <3>1
      <4>2. v[i - 1] = w[n] /\ i # 0
        BY <3>1
      <4>3. QED BY <4>1, <4>2, <3>1
    <3>2. CASE i # n + 1
      <4>1. v[i] = w[i] /\ (i # 0 => v[i - 1] = w[i - 1])
        BY <3>2
      <4>2. w[i] = IF i = 0 THEN r ELSE insert_in_run_queue_head(w[i - 1], ts[i])
        <5>1. i \in 0..n
          BY <3>2
        <5>2. QED BY <5>1, <2>1 DEF IsLoop
      <4>3. QED BY <4>1, <4>2
    <3>3. QED BY <3>1, <3>2
  <2>3. IsLoop(v, ts, r, n + 1)
    <3>1. v = [i \in 0..n + 1 |-> v[i]]
      OBVIOUS
    <3> HIDE DEF v
    <3>2. QED BY <3>1, <2>2, ZenonT(30) DEF IsLoop
  <2>4. QED BY <2>3
<1> HIDE DEF S
<1>3. N \in S
  BY <1>1, <1>2, SetInduction
<1>4. QED BY <1>3 DEF S

\* Threads woken from a wait queue are ready, and in the run queues once each.
LEMMA WokenExact ==
    ASSUME NEW r, NEW st \in [AllThreads -> States], NEW ts \in Seq(Thread), IsInjective(ts),
           priority' \in [Thread -> Priority],
           \A t \in Range(ts) : st[t] # "READY", Exact(r, st, priority')
    PROVE  Exact(Woken(ts, r), [t \in AllThreads |-> IF t \in Range(ts) THEN "READY" ELSE st[t]], priority')
<1> DEFINE w == CHOOSE v : IsLoop(v, ts, r, Len(ts))
           done(n) == {ts[i] : i \in 1..n}
           s(n) == [t \in AllThreads |-> IF t \in done(n) THEN "READY" ELSE st[t]]
           S == {n \in 0..Len(ts) : Exact(w[n], s(n), priority')}
<1>1. Len(ts) \in Nat /\ DOMAIN ts = 1..Len(ts) /\ (\A i \in 1..Len(ts) : ts[i] \in Thread)
      /\ Range(ts) = done(Len(ts))
  <2>1. Len(ts) \in Nat /\ DOMAIN ts = 1..Len(ts) /\ (\A i \in 1..Len(ts) : ts[i] \in Thread)
    BY LenProperties, ElementOfSeq
  <2>2. QED BY <2>1 DEF Range
<1>2. IsLoop(w, ts, r, Len(ts))
  BY <1>1, LoopExists, ZenonT(30)
<1>3. Woken(ts, r) = w[Len(ts)]
  BY DEF Woken, IsLoop
<1> HIDE DEF w
<1>4. \A n \in 0..Len(ts) : w[n] = IF n = 0 THEN r ELSE insert_in_run_queue_head(w[n - 1], ts[n])
  BY <1>2, ZenonT(30) DEF IsLoop
<1>5. 0 \in S
  <2>1. s(0) = st
    OBVIOUS
  <2>2. w[0] = r
    BY <1>1, <1>4
  <2>3. QED BY <2>1, <2>2, <1>1
<1>6. ASSUME NEW n \in 0..Len(ts) - 1, n \in S PROVE n + 1 \in S
  <2>1. /\ n + 1 \in 1..Len(ts) /\ n + 1 \in 0..Len(ts) /\ n + 1 # 0 /\ (n + 1) - 1 = n
        /\ Exact(w[n], s(n), priority')
    BY <1>1, <1>6
  <2>2. w[n + 1] = insert_in_run_queue_head(w[n], ts[n + 1])
    BY <2>1, <1>4
  <2>3. ts[n + 1] \in Thread /\ ts[n + 1] \in Range(ts) /\ ts[n + 1] \in AllThreads
    BY <2>1, <1>1 DEF AllThreads
  <2>4. ts[n + 1] \notin done(n)
    <3>1. \A i, j \in DOMAIN ts : ts[i] = ts[j] => i = j
      BY DEF IsInjective
    <3>2. \A i \in 1..n : i \in DOMAIN ts /\ n + 1 \in DOMAIN ts /\ i # n + 1
      BY <2>1, <1>1
    <3>3. QED BY <3>1, <3>2
  <2>5. s(n) \in [AllThreads -> States]
    BY DEF States
  <2>6. s(n)[ts[n + 1]] # "READY"
    BY <2>3, <2>4, ZenonT(30)
  <2>7. s(n + 1) = [s(n) EXCEPT ![ts[n + 1]] = "READY"]
    <3>1. done(n + 1) = done(n) \cup {ts[n + 1]}
      BY <2>1
    <3> HIDE DEF done
    <3>2. QED BY <3>1, <2>3, ZenonT(30)
  <2> HIDE DEF s, done
  <2>8. Exact(insert_in_run_queue_head(w[n], ts[n + 1]), [s(n) EXCEPT ![ts[n + 1]] = "READY"], priority')
    BY <2>1, <2>3, <2>5, <2>6, InsertHead, ZenonT(30)
  <2>9. QED BY <2>1, <2>2, <2>7, <2>8
<1> HIDE DEF S
<1>7. Len(ts) \in S
  <2>1. 0..Len(ts) \subseteq S
    BY <1>1, <1>5, <1>6, SetInduction, ZenonT(30)
  <2>2. QED BY <2>1, <1>1
<1>8. QED BY <1>1, <1>3, <1>7 DEF S

-----------------------------------------------------------------------------

(***************************************************************************)
(* What its callers leave to thread_resched() on cpu c: run queues r and   *)
(* states st in which the current thread of c is in its new place and the  *)
(* others that run still do.                                               *)
(***************************************************************************)
Prepared(c, r, st) ==
    /\ st \in [AllThreads -> States]
    /\ Exact(r, st, priority')
    /\ st[cur[c]] # "RUNNING"
    /\ \A t \in AllThreads : t # cur[c] => (st[t] = "RUNNING" <=> state[t] = "RUNNING")

\* What it leaves.
Switched(c, st) ==
    /\ cur' = [cur EXCEPT ![c] = cur'[c]]
    /\ cur'[c] \in AllThreads /\ Top(cur'[c], st, c)
    /\ state' = [st EXCEPT ![cur'[c]] = "RUNNING"]
    /\ Exact(rq', state', priority')

LEMMA IdleThreads ==
    /\ \A c \in Cpu : idle_thread(c) \in AllThreads /\ is_idle(idle_thread(c))
    /\ \A c, d \in Cpu : idle_thread(c) = idle_thread(d) => c = d
    /\ \A t \in Thread : t \in AllThreads /\ ~is_idle(t)
    /\ \A t \in AllThreads : is_idle(t) <=> t \notin Thread
BY IdleAssumption DEF AllThreads, is_idle, idle_thread

LEMMA ReschedSwitches ==
    ASSUME NEW c \in Cpu, NEW r, NEW st, NEW q, NEW tm,
           Types, priority' \in [Thread -> Priority],
           Prepared(c, r, st), thread_resched(c, r, st, q, tm)
    PROVE  Switched(c, st)
<1> DEFINE new == get_top_thread(r, c)
<1>1. st \in [AllThreads -> States] /\ Exact(r, st, priority')
  BY DEF Prepared
<1>2. Top(new, st, c)
  BY <1>1, TopThread
<1>3. rq' = Dequeue(r, new) /\ state' = [st EXCEPT ![new] = "RUNNING"] /\ cur' = [cur EXCEPT ![c] = new]
  BY DEF thread_resched
<1> HIDE DEF new
<1>4. cur'[c] = new
  BY <1>3 DEF Types
<1>5. CASE new \in Thread /\ st[new] = "READY"
  <2>1. Exact(rq', state', priority')
    BY <1>1, <1>3, <1>5, DequeueExact, ZenonT(30)
  <2>2. new \in AllThreads
    BY <1>5, IdleThreads
  <2>3. QED BY <2>1, <2>2, <1>2, <1>3, <1>4, ZenonT(30) DEF Switched
<1>6. CASE new = idle_thread(c)
  <2>1. new \in AllThreads /\ new \notin Thread
    BY <1>6, IdleThreads
  <2>2. rq' = r
    BY <2>1, <1>3 DEF Dequeue, is_idle
  <2>3. \A t \in Thread : state'[t] = st[t]
    BY <2>1, <1>1, <1>3, IdleThreads
  <2>4. Exact(rq', state', priority')
    BY <2>2, <2>3, <1>1 DEF Exact
  <2>5. QED BY <2>1, <2>4, <1>2, <1>3, <1>4, ZenonT(30) DEF Switched
<1>7. QED BY <1>2, <1>5, <1>6 DEF Top

\* After a switch every running thread is still the current one of one cpu.
LEMMA SwitchedRuns ==
    ASSUME NEW c \in Cpu, NEW r, NEW st, Types, RunsOnOneCpu, Prepared(c, r, st), Switched(c, st),
           pinned' = pinned
    PROVE  RunsOnOneCpu'
<1> DEFINE new == cur'[c]
<1>1. /\ cur \in [Cpu -> AllThreads] /\ cur' \in [Cpu -> AllThreads] /\ new \in AllThreads
      /\ st \in [AllThreads -> States] /\ state' = [st EXCEPT ![new] = "RUNNING"]
      /\ \A d \in Cpu : d # c => cur'[d] = cur[d]
  <2>1. cur' = [cur EXCEPT ![c] = new] /\ new \in AllThreads
    BY DEF Switched
  <2> HIDE DEF new
  <2>2. QED BY <2>1 DEF Types, Prepared, Switched, new
<1>2. (new \in Thread /\ st[new] = "READY" /\ CanRunOn(new, c)) \/ new = idle_thread(c)
  BY DEF Switched, Top
<1> HIDE DEF new
<1>3. ASSUME NEW d \in Cpu, d # c PROVE cur[d] # cur[c] /\ st[cur[d]] = "RUNNING"
  BY <1>3, <1>1 DEF RunsOnOneCpu, Prepared
<1>4. ASSUME NEW d \in Cpu, d # c PROVE cur[d] # new
  <2>1. CASE st[new] = "READY"
    BY <2>1, <1>3, <1>4
  <2>2. CASE new = idle_thread(c)
    <3>1. ASSUME cur[d] = idle_thread(c) PROVE FALSE
      <4>1. cur[d] = idle_thread(d)
        BY <3>1, IdleThreads DEF RunsOnOneCpu
      <4>2. QED BY <4>1, <3>1, <1>4, IdleThreads, ZenonT(30)
    <3>2. QED BY <3>1, <2>2
  <2>3. QED BY <2>1, <2>2, <1>2
<1>5. ASSUME NEW t \in AllThreads PROVE state'[t] = "RUNNING" <=> \E d \in Cpu : cur'[d] = t
  <2>1. CASE t = new
    BY <2>1, <1>1 DEF new
  <2>2. CASE t # new
    <3>1. state'[t] = st[t]
      BY <2>2, <1>1
    <3>2. st[t] = "RUNNING" <=> t # cur[c] /\ state[t] = "RUNNING"
      BY DEF Prepared
    <3>3. state[t] = "RUNNING" <=> \E d \in Cpu : cur[d] = t
      BY DEF RunsOnOneCpu
    <3>4. ASSUME NEW d \in Cpu, cur'[d] = t PROVE t # cur[c] /\ \E e \in Cpu : cur[e] = t
      <4>1. d # c
        BY <3>4, <2>2 DEF new
      <4>2. QED BY <4>1, <3>4, <1>1, <1>3
    <3>5. ASSUME NEW d \in Cpu, cur[d] = t, t # cur[c] PROVE cur'[d] = t
      BY <3>5, <1>1
    <3>6. QED BY <3>1, <3>2, <3>3, <3>4, <3>5
  <2>3. QED BY <2>1, <2>2
<1>6. ASSUME NEW d \in Cpu, NEW e \in Cpu, cur'[d] = cur'[e] PROVE d = e
  <2>1. CASE d = c
    BY <2>1, <1>4, <1>6, <1>1 DEF new
  <2>2. CASE e = c
    BY <2>2, <1>4, <1>6, <1>1 DEF new
  <2>3. CASE d # c /\ e # c
    BY <2>3, <1>6, <1>1 DEF RunsOnOneCpu
  <2>4. QED BY <2>1, <2>2, <2>3
<1>7. ASSUME NEW d \in Cpu
      PROVE  IF is_idle(cur'[d]) THEN cur'[d] = idle_thread(d) ELSE pinned'[cur'[d]] \in {NULL, d}
  <2>1. CASE d = c
    BY <2>1, <1>2, IdleThreads DEF new, CanRunOn
  <2>2. CASE d # c
    BY <2>2, <1>1 DEF RunsOnOneCpu
  <2>3. QED BY <2>1, <2>2
<1>8. QED
  <2>1. \A t \in AllThreads : state'[t] = "RUNNING" <=> \E d \in Cpu : cur'[d] = t
    BY <1>5
  <2>2. \A d, e \in Cpu : cur'[d] = cur'[e] => d = e
    BY <1>6
  <2>3. QED BY <2>1, <2>2, <1>7 DEF RunsOnOneCpu, is_idle

\* The thread switched to is one of the highest priority that the cpu can run.
LEMMA SwitchesToTop ==
    ASSUME NEW c \in Cpu, NEW st \in [AllThreads -> States], Types, Switched(c, st), pinned' = pinned
    PROVE  HighestTaken
<1> DEFINE new == cur'[c]
<1>1. /\ \A d \in Cpu : d # c => cur'[d] = cur[d]
      /\ new \in AllThreads /\ state' = [st EXCEPT ![new] = "RUNNING"]
  <2>1. cur' = [cur EXCEPT ![c] = new] /\ new \in AllThreads
    BY DEF Switched
  <2> HIDE DEF new
  <2>2. QED BY <2>1 DEF Types, Switched, new
<1>2. Top(new, st, c)
  BY DEF Switched
<1> HIDE DEF new
<1>3. ASSUME NEW t \in Eligible(c)' PROVE ~is_idle(new) /\ priority'[t] <= priority'[new]
  <2>1. t \in Thread /\ state'[t] = "READY" /\ CanRunOn(t, c)
    BY DEF Eligible, CanRunOn
  <2>2. st[t] = "READY"
    BY <2>1, <1>1, IdleThreads
  <2>3. QED BY <2>1, <2>2, <1>2, IdleThreads DEF Top
<1>4. QED BY <1>1, <1>3 DEF HighestTaken, new, is_idle

\* The threads whose sleep timer is expiring sleep in st, and have no other in tm.
SleepersStay(st, tm) ==
    \A d \in Cpu, t \in Thread : firing[d] = <<t, "sleep">> => st[t] = "SLEEPING" /\ tm[t] = NULL

(***************************************************************************)
(* What else the callers of thread_resched() do: q and tm are the quanta   *)
(* and timers they leave; threads they have made ready are announced.      *)
(***************************************************************************)
Leaves(c, st, q, tm) ==
    /\ c \in mp.active /\ loaded[c] = NULL
    /\ priority' \in [Thread -> Priority]
    /\ pinned' = pinned /\ realtime' = realtime /\ loaded' = loaded /\ firing' = firing
    /\ q \in [Thread -> MinQuantum..Quantum] /\ tm \in [Thread -> Cpu \cup {NULL}]
    /\ ipi \subseteq ipi' /\ ipi' \subseteq Cpu
    /\ irq' \subseteq irq /\ irq \ {c} \subseteq irq' /\ ticking' \subseteq irq'
    /\ yielding' \subseteq yielding /\ yielding \ {cur[c]} \subseteq yielding'
    /\ ret' \in [Thread -> {"NO_ERROR", "ERR_TIMED_OUT"}] /\ forever' \subseteq Thread
    /\ Waiting(wait', st)
    /\ SleepersStay(st, tm)
    /\ \A t \in Thread : st[t] = "SLEEPING" => state[t] = "SLEEPING" \/ "sleep" \in Calls
    /\ \/ ipi' = mp_reschedule(c)
       \/ \A t \in Thread : st[t] = "READY" => state[t] = "READY" \/ t = cur[c]

LEMMA MaskFields ==
    ASSUME NEW c, NEW new, mp \in [active: SUBSET Cpu, idle: SUBSET Cpu, realtime: SUBSET Cpu]
    PROVE  \E h : CpuMasks(c, new) = [active |-> mp.active, idle |-> Mask(mp.idle, c, is_idle(new)),
                                     realtime |-> Mask(mp.realtime, c, is_realtime(new, h))]
<1> DEFINE h == IF is_idle(new) THEN 0 ELSE priority'[new]
<1>1. CpuMasks(c, new) = [mp EXCEPT !.idle = Mask(@, c, is_idle(new)),
                                    !.realtime = Mask(@, c, is_realtime(new, h))]
  BY DEF CpuMasks
<1> HIDE DEF h
<1>2. CpuMasks(c, new) = [active |-> mp.active, idle |-> Mask(mp.idle, c, is_idle(new)),
                          realtime |-> Mask(mp.realtime, c, is_realtime(new, h))]
  BY <1>1, ZenonT(30)
<1>3. QED BY <1>2

LEMMA ReschedKeeps ==
    ASSUME NEW c \in Cpu, NEW r, NEW st, NEW q, NEW tm,
           IInv, Prepared(c, r, st), Leaves(c, st, q, tm), thread_resched(c, r, st, q, tm)
    PROVE  IInv' /\ HighestTaken
<1> DEFINE new == cur'[c]
           old == cur[c]
<1>1. Types /\ RunsOnOneCpu /\ Sleeping /\ Starting
  BY DEF IInv
<1>2. Switched(c, st)
  BY <1>1, ReschedSwitches DEF Leaves
<1>3. /\ cur \in [Cpu -> AllThreads] /\ cur' \in [Cpu -> AllThreads] /\ new \in AllThreads
      /\ st \in [AllThreads -> States] /\ state' = [st EXCEPT ![new] = "RUNNING"]
      /\ \A d \in Cpu : d # c => cur'[d] = cur[d]
  <2>1. cur' = [cur EXCEPT ![c] = new] /\ new \in AllThreads
    BY <1>2 DEF Switched
  <2> HIDE DEF new
  <2>2. QED BY <1>1, <1>2, <2>1 DEF Types, Prepared, Switched, new
<1>4. Top(new, st, c)
  BY <1>2 DEF Switched
<1>5. /\ timer' = IF is_idle(new) THEN tm ELSE [tm EXCEPT ![new] = NULL]
      /\ \/ new = old /\ quantum' = q /\ mp' = mp /\ preempt' = preempt /\ reverted' = reverted
         \/ /\ new # old
            /\ quantum' = IF ~is_idle(new) /\ q[new] <= 0 THEN [q EXCEPT ![new] = Quantum] ELSE q
            /\ mp' = CpuMasks(c, new)
            /\ preempt' = PreemptTimer(c, old, new)
            /\ reverted' = reverted \ {c}
  <2>1. new = get_top_thread(r, c)
    BY <1>1 DEF thread_resched, Types
  <2> HIDE DEF new
  <2>2. QED BY <2>1 DEF thread_resched
<1> HIDE DEF new
<1>6. (new \in Thread /\ st[new] = "READY") \/ (new \notin Thread /\ new = idle_thread(c))
  <2>1. (new \in Thread /\ st[new] = "READY") \/ new = idle_thread(c)
    BY <1>4 DEF Top
  <2>2. QED BY <2>1, IdleAssumption
<1>7. \A t \in Thread : st[t] # "READY" => t # new /\ state'[t] = st[t]
  BY <1>3, <1>6, IdleThreads
<1>8. \A t \in Thread : state'[t] = "READY" => st[t] = "READY" /\ t # new
  BY <1>3, IdleThreads
<1>m. \/ new = old /\ mp' = mp
      \/ new # old /\ \E h : mp' = [active |-> mp.active, idle |-> Mask(mp.idle, c, is_idle(new)),
                                  realtime |-> Mask(mp.realtime, c, is_realtime(new, h))]
  <2>1. mp \in [active: SUBSET Cpu, idle: SUBSET Cpu, realtime: SUBSET Cpu]
    BY <1>1 DEF Types
  <2>2. QED BY <2>1, <1>5, MaskFields
<1>9. mp' = [active |-> mp.active, idle |-> mp'.idle, realtime |-> mp'.realtime]
      /\ mp'.idle \subseteq Cpu /\ mp'.realtime \subseteq Cpu /\ mp'.active = mp.active
  BY <1>1, <1>m, SMTT(30) DEF Types, Mask
<1>10. Types'
  <2>1. state' \in [AllThreads -> States]
    BY <1>3 DEF States
  <2>2. quantum' \in [Thread -> MinQuantum..Quantum]
    <3>1. q \in [Thread -> MinQuantum..Quantum] /\ Quantum \in MinQuantum..Quantum
      <4>1. q \in [Thread -> MinQuantum..Quantum]
        BY DEF Leaves
      <4>2. Quantum \in MinQuantum..Quantum
        BY QuantumAssumption DEF MinQuantum
      <4>3. QED BY <4>1, <4>2
    <3>2. quantum' = q \/ quantum' = [q EXCEPT ![new] = Quantum]
      BY <1>5
    <3>3. QED BY <3>1, <3>2
  <2>3. timer' \in [Thread -> Cpu \cup {NULL}]
    <3>1. tm \in [Thread -> Cpu \cup {NULL}]
      BY DEF Leaves
    <3>2. QED BY <3>1, <1>5, ZenonT(30)
  <2>4. preempt' \subseteq Cpu
    BY <1>1, <1>5 DEF Types, PreemptTimer
  <2>5. mp' \in [active: SUBSET Cpu, idle: SUBSET Cpu, realtime: SUBSET Cpu]
    BY <1>1, <1>9 DEF Types
  <2>6. ipi' \subseteq Cpu /\ irq' \subseteq Cpu /\ ticking' \subseteq irq' /\ yielding' \subseteq AllThreads
    BY <1>1 DEF Leaves, Types
  <2>7. priority' \in [Thread -> Priority] /\ forever' \subseteq Thread
        /\ ret' \in [Thread -> {"NO_ERROR", "ERR_TIMED_OUT"}]
    BY ZenonT(30) DEF Leaves
  <2>8. pinned' \in [Thread -> Cpu \cup {NULL}] /\ realtime' \subseteq Thread
        /\ loaded' \in [Cpu -> (SUBSET Cpu) \cup {NULL}]
        /\ firing' \in [Cpu -> (Thread \X {"sleep", "wait"}) \cup {NULL}]
    BY <1>1 DEF Leaves, Types
  <2>9. reverted' \subseteq Cpu
    BY <1>1, <1>5 DEF Types
  <2>10. QED BY <1>3, <2>1, <2>2, <2>3, <2>4, <2>5, <2>6, <2>7, <2>8, <2>9 DEF Types
<1>11. Exact(rq', state', priority')
  BY <1>2 DEF Switched
<1>12. RunsOnOneCpu'
  BY <1>1, <1>2, SwitchedRuns DEF Leaves
<1>13. Waiting(wait', state')
  <2>1. Waiting(wait', st)
    BY DEF Leaves
  <2>2. \A t \in Thread : st[t] = "BLOCKED" <=> state'[t] = "BLOCKED"
    BY <1>3, <1>6, <1>7, IdleThreads
  <2>3. QED BY <2>1, <2>2 DEF Waiting
<1>14. Sleeping'
  <2>1. ASSUME NEW d \in Cpu, NEW t \in Thread, firing[d] = <<t, "sleep">>
        PROVE  state'[t] = "SLEEPING" /\ timer'[t] = NULL
    <3>1. st[t] = "SLEEPING" /\ tm[t] = NULL /\ tm \in [Thread -> Cpu \cup {NULL}]
      BY <2>1 DEF Leaves, SleepersStay
    <3>2. t # new /\ state'[t] = "SLEEPING"
      BY <3>1, <1>7
    <3>3. QED BY <3>1, <3>2, <1>5
  <2>2. firing' = firing
    BY DEF Leaves
  <2>3. QED BY <1>1, <2>1, <2>2 DEF Sleeping
<1>15. Starting'
  <2>1. \A d \in Cpu : d \notin mp.active \/ loaded[d] # NULL => d # c
    BY DEF Leaves
  <2>2. QED BY <1>1, <1>3, <1>9, <2>1 DEF Starting, Leaves
<1>16. ASSUME RealTimeTargets = "self" PROVE PreemptTimerExact'
  <2>1. realtime' = realtime
    BY DEF Leaves
  <2>2. \A d \in Cpu : d \in preempt <=> ~is_real_time_or_idle(cur[d])
    BY <1>16 DEF IInv, PreemptTimerExact
  <2>3. ASSUME NEW d \in Cpu PROVE d \in preempt' <=> ~is_real_time_or_idle(cur'[d])
    <3>1. CASE d # c
      BY <3>1, <2>2, <1>3, <1>5 DEF PreemptTimer
    <3>2. CASE d = c
      BY <3>2, <2>2, <1>3, <1>5 DEF PreemptTimer, new
    <3>3. QED BY <3>1, <3>2
  <2>4. QED BY <2>1, <2>3 DEF PreemptTimerExact, is_real_time_or_idle, is_idle
<1>17. IdleMaskExact'
  <2>1. \A d \in mp.active \ reverted : loaded[d] = NULL => (d \in mp.idle <=> is_idle(cur[d]))
    BY DEF IInv, IdleMaskExact
  <2>2. \/ new = old /\ mp'.idle = mp.idle /\ reverted' = reverted
        \/ new # old /\ mp'.idle = Mask(mp.idle, c, is_idle(new)) /\ reverted' = reverted \ {c}
    BY <1>m, <1>5
  <2>3. ASSUME NEW d \in mp.active, d \notin reverted', loaded[d] = NULL
        PROVE  d \in mp'.idle <=> is_idle(cur'[d])
    <3>1. d \in Cpu
      BY <1>1 DEF Types
    <3>2. CASE d # c
      <4>1. cur'[d] = cur[d] /\ d \notin reverted /\ (d \in mp'.idle <=> d \in mp.idle)
        BY <3>1, <3>2, <2>2, <2>3, <1>3 DEF Mask
      <4>2. QED BY <4>1, <2>1, <2>3
    <3>3. CASE d = c /\ new = old
      BY <3>3, <2>1, <2>2, <2>3 DEF new
    <3>4. CASE d = c /\ new # old
      BY <3>4, <2>2 DEF Mask, new
    <3>5. QED BY <3>2, <3>3, <3>4
  <2>4. loaded' = loaded
    BY DEF Leaves
  <2>5. QED BY <2>3, <2>4, <1>9 DEF IdleMaskExact, is_idle
<1>18. ASSUME Unpinned PROVE Told'
  <2>1. Told
    BY <1>18 DEF IInv
  <2>2. \A t \in Thread : pinned'[t] = NULL /\ CanRunOn(t, c)
    BY <2>1, ZenonT(30) DEF Told, CanRunOn, Leaves
  <2>s. \A t \in Thread : state'[t] # "SLEEPING"
    <3>1. \A t \in Thread : st[t] # "SLEEPING"
      BY <1>18, <2>1 DEF Told, Leaves, Unpinned
    <3>2. QED BY <3>1, <1>3, IdleThreads
  <2>3. ASSUME NEW d \in mp'.realtime PROVE ~is_idle(cur'[d])
    <3>1. \/ new = old /\ mp'.realtime = mp.realtime
          \/ new # old /\ \E h : mp'.realtime = Mask(mp.realtime, c, is_realtime(new, h))
      BY <1>m
    <3>2. d \in Cpu
      BY <1>9
    <3>3. CASE d # c
      <4>1. d \in mp.realtime
        BY <3>1, <3>3 DEF Mask
      <4>2. QED BY <4>1, <3>2, <3>3, <2>1, <1>3, ZenonT(30) DEF Told
    <3>4. CASE d = c
      BY <3>1, <3>4, <2>1 DEF Mask, is_realtime, Told, new
    <3>5. QED BY <3>3, <3>4
  <2>4. ASSUME NEW d \in mp.active, NEW t \in Thread,
               is_idle(cur'[d]), loaded[d] = NULL, state'[t] = "READY"
        PROVE  d \in ipi' \/ d \in irq' \/ cur'[d] \in yielding'
    <3>1. st[t] = "READY" /\ t # new
      BY <2>4, <1>8, ZenonT(30)
    <3>2. new \in Thread /\ st[new] = "READY"
      BY <3>1, <2>2, <1>4 DEF Top
    <3>3. d # c /\ d \in Cpu
      BY <3>2, <2>4, <1>1 DEF new, is_idle, Types
    <3>4. cur'[d] = cur[d] /\ is_idle(cur[d])
      BY <3>3, <2>4, <1>3
    <3>5. CASE ipi' = mp_reschedule(c)
      <4>1. d \notin mp.realtime
        BY <3>4, <2>1 DEF Told
      <4>2. QED BY <4>1, <3>3, <3>5 DEF mp_reschedule
    <3>6. CASE \A u \in Thread : st[u] = "READY" => state[u] = "READY" \/ u = cur[c]
      <4>1. PICK u \in Thread : state[u] = "READY"
        BY <3>1, <3>2, <3>6
      <4>2. d \in ipi \/ d \in irq \/ cur[d] \in yielding
        BY <4>1, <3>4, <2>4, <2>1 DEF Told
      <4>3. cur[d] # cur[c]
        BY <3>3, <1>1 DEF RunsOnOneCpu
      <4>4. QED BY <4>2, <4>3, <3>3, <3>4, ZenonT(30) DEF Leaves
    <3>7. QED BY <3>5, <3>6, ZenonT(30) DEF Leaves
  <2>5. loaded' = loaded /\ mp'.active = mp.active
    BY <1>9 DEF Leaves
  <2>6. QED BY <2>2, <2>s, <2>3, <2>4, <2>5, ZenonT(30) DEF Told, is_idle
<1>19. IInv'
  BY <1>10, <1>11, <1>12, <1>13, <1>14, <1>15, <1>16, <1>17, <1>18, ZenonT(30) DEF IInv, Exact, RunQueues, Waiting, Unpinned
<1>20. HighestTaken
  BY <1>1, <1>2, <1>3, SwitchesToTop, ZenonT(30) DEF Leaves
<1>21. QED BY <1>19, <1>20

-----------------------------------------------------------------------------

\* The run queues do not change with what is not ready.
LEMMA ExactSame ==
    ASSUME NEW r, NEW st, NEW pr, NEW st2, NEW pr2, Exact(r, st, pr),
           \A t \in Thread : st[t] = "READY" <=> st2[t] = "READY",
           \A t \in Thread : st[t] = "READY" => pr[t] = pr2[t]
    PROVE  Exact(r, st2, pr2)
BY ZenonT(30) DEF Exact

LEMMA WaitingSame ==
    ASSUME NEW l, NEW st, NEW st2, Waiting(l, st),
           \A t \in Thread : st[t] = "BLOCKED" <=> st2[t] = "BLOCKED"
    PROVE  Waiting(l, st2)
BY DEF Waiting

\* The current thread of a cpu is running.
LEMMA Current ==
    ASSUME IInv, NEW c \in Cpu
    PROVE  /\ cur[c] \in AllThreads /\ state[cur[c]] = "RUNNING"
           /\ ~is_idle(cur[c]) => cur[c] \in Thread
<1>1. cur[c] \in AllThreads
  BY DEF IInv, Types
<1>2. QED BY <1>1 DEF IInv, RunsOnOneCpu, is_idle

\* Executing, or on the way out of an interrupt, the cpu has started.
LEMMA Started ==
    ASSUME IInv, NEW c \in Cpu, Executes(c) \/ c \in irq \/ firing[c] # NULL
    PROVE  c \in mp.active /\ loaded[c] = NULL
BY DEF IInv, Starting, Executes

\* What all callers of thread_resched() have in common, if x is the new state of their thread.
LEMMA Prepare ==
    ASSUME IInv, NEW c \in Cpu, NEW r, NEW x \in States, x # "RUNNING",
           Exact(r, [state EXCEPT ![cur[c]] = x], priority')
    PROVE  Prepared(c, r, [state EXCEPT ![cur[c]] = x])
<1>1. state \in [AllThreads -> States] /\ cur[c] \in AllThreads
  BY DEF IInv, Types
<1>2. QED BY <1>1 DEF Prepared

\* A thread that stops running without being queued leaves the run queues as they are.
LEMMA StopsExact ==
    ASSUME IInv, NEW c \in Cpu, cur[c] \in Thread, priority' = priority,
           NEW x \in States, x # "READY"
    PROVE  Exact(rq, [state EXCEPT ![cur[c]] = x], priority')
<1> DEFINE st == [state EXCEPT ![cur[c]] = x]
<1>1. state \in [AllThreads -> States] /\ state[cur[c]] = "RUNNING"
  BY Current DEF IInv, Types
<1>2. \A t \in Thread : state[t] = "READY" <=> st[t] = "READY"
  BY <1>1, IdleThreads
<1> HIDE DEF st
<1>3. Exact(rq, state, priority)
  BY DEF IInv
<1>4. Exact(rq, st, priority)
  BY <1>2, <1>3, ExactSame
<1>5. QED BY <1>4 DEF st

\* One that is requeued is ready.
LEMMA RequeuedExact ==
    ASSUME IInv, NEW c \in Cpu, priority' \in [Thread -> Priority],
           \A t \in Thread : t # cur[c] => priority'[t] = priority[t]
    PROVE  LET st == [state EXCEPT ![cur[c]] = "READY"]
           IN  /\ cur[c] \in Thread => /\ Exact(insert_in_run_queue_head(rq, cur[c]), st, priority')
                                       /\ Exact(insert_in_run_queue_tail(rq, cur[c]), st, priority')
               /\ cur[c] \notin Thread => Exact(rq, st, priority')
<1> DEFINE st == [state EXCEPT ![cur[c]] = "READY"]
<1>1. state \in [AllThreads -> States] /\ state[cur[c]] = "RUNNING" /\ cur[c] \in AllThreads
  BY Current DEF IInv, Types
<1>2. Exact(rq, state, priority')
  <2>1. Exact(rq, state, priority)
    BY ZenonT(30) DEF IInv
  <2>2. \A t \in Thread : state[t] = "READY" => priority[t] = priority'[t]
    BY <1>1
  <2>3. QED BY <2>1, <2>2, ExactSame, ZenonT(30)
<1>3. CASE cur[c] \in Thread
  BY <1>1, <1>2, <1>3, InsertHead, InsertTail, ZenonT(30)
<1>4. CASE cur[c] \notin Thread
  <2>1. \A t \in Thread : state[t] = "READY" <=> st[t] = "READY"
    BY <1>1, <1>4, IdleThreads
  <2> HIDE DEF st
  <2>2. Exact(rq, st, priority')
    BY <2>1, <1>2, ExactSame
  <2>3. QED BY <2>2, <1>4 DEF st
<1>5. QED BY <1>3, <1>4

\* Nobody who blocks, sleeps or has a sleep timer expiring is running.
LEMMA OthersStay ==
    ASSUME IInv, NEW c \in Cpu, NEW x \in States, x # "BLOCKED"
    PROVE  /\ Waiting(wait, [state EXCEPT ![cur[c]] = x])
           /\ SleepersStay([state EXCEPT ![cur[c]] = x], timer)
           /\ \A d \in Cpu, t \in Thread : firing[d] = <<t, "sleep">> => t # cur[c]
<1> DEFINE st == [state EXCEPT ![cur[c]] = x]
<1>1. state \in [AllThreads -> States] /\ state[cur[c]] = "RUNNING" /\ cur[c] \in AllThreads
  BY Current DEF IInv, Types
<1>2. Waiting(wait, st)
  <2>1. \A t \in Thread : state[t] = "BLOCKED" <=> st[t] = "BLOCKED"
    BY <1>1, IdleThreads
  <2>2. Waiting(wait, state)
    BY DEF IInv
  <2> HIDE DEF st
  <2>3. QED BY <2>1, <2>2, WaitingSame
<1>3. ASSUME NEW d \in Cpu, NEW t \in Thread, firing[d] = <<t, "sleep">>
      PROVE  t # cur[c] /\ st[t] = "SLEEPING" /\ timer[t] = NULL
  <2>1. state[t] = "SLEEPING" /\ timer[t] = NULL
    BY <1>3 DEF IInv, Sleeping
  <2>2. QED BY <2>1, <1>1, IdleThreads
<1>4. SleepersStay(st, timer)
  <2> HIDE DEF st
  <2>1. QED BY <1>3 DEF SleepersStay
<1>5. QED BY <1>2, <1>3, <1>4

-----------------------------------------------------------------------------

\* Every operation that ends in thread_resched() keeps the invariant.

LEMMA YieldKeeps ==
    ASSUME IInv, NEW c \in Cpu, thread_yield(c)
    PROVE  IInv' /\ HighestTaken
<1> DEFINE r == IF is_idle(cur[c]) THEN rq ELSE insert_in_run_queue_tail(rq, cur[c])
           st == [state EXCEPT ![cur[c]] = "READY"]
           q == [t \in Thread |-> IF t = cur[c] THEN 0 ELSE quantum[t]]
<1>0. "READY" \in States
  BY DEF States
<1>1. /\ thread_resched(c, r, st, q, timer)
      /\ priority' = priority /\ pinned' = pinned /\ realtime' = realtime /\ loaded' = loaded
      /\ firing' = firing /\ ipi' = ipi /\ irq' = irq /\ ticking' = ticking /\ yielding' = yielding \ {cur[c]}
      /\ wait' = wait /\ ret' = ret /\ forever' = forever
  BY DEF thread_yield, threadAttrs, irqVars, waitVars
<1>2. c \in mp.active /\ loaded[c] = NULL
  BY Started, ZenonT(30) DEF thread_yield
<1>3. Types
  BY DEF IInv
<1>4. priority' \in [Thread -> Priority]
  BY <1>1, <1>3 DEF Types
<1>5. Exact(r, st, priority')
  BY <1>1, <1>4, RequeuedExact, Current, ZenonT(30) DEF is_idle
<1>6. Prepared(c, r, st)
  BY <1>0, <1>5, Prepare
<1>7. /\ Waiting(wait', st)
      /\ SleepersStay(st, timer)
  BY <1>0, <1>1, OthersStay
<1>8. /\ q \in [Thread -> MinQuantum..Quantum]
      /\ \A t \in Thread : st[t] = "READY" => state[t] = "READY" \/ t = cur[c]
      /\ \A t \in Thread : st[t] = "SLEEPING" => state[t] = "SLEEPING"
  BY <1>3, QuantumAssumption, IdleThreads, SMTT(30) DEF Types, MinQuantum
<1> HIDE DEF r, st, q
<1>9. Leaves(c, st, q, timer)
  BY <1>1, <1>2, <1>3, <1>4, <1>7, <1>8 DEF Leaves, Types
<1>10. QED BY <1>1, <1>6, <1>9, ReschedKeeps

LEMMA PreemptKeeps ==
    ASSUME IInv, NEW c \in Cpu, thread_preempt(c)
    PROVE  IInv' /\ HighestTaken
<1> DEFINE r == Requeue(rq, cur[c])
           st == [state EXCEPT ![cur[c]] = "READY"]
<1>0. "READY" \in States
  BY DEF States
<1>1. /\ thread_resched(c, r, st, quantum, timer)
      /\ priority' = priority /\ pinned' = pinned /\ realtime' = realtime /\ loaded' = loaded
      /\ firing' = firing /\ ipi' = ipi /\ irq' = irq \ {c} /\ ticking' = ticking \ {c} /\ yielding' = yielding
      /\ wait' = wait /\ ret' = ret /\ forever' = forever
  BY DEF thread_preempt, threadAttrs, irqVars, waitVars
<1>2. c \in mp.active /\ loaded[c] = NULL
  BY Started DEF thread_preempt
<1>3. Types
  BY DEF IInv
<1>4. priority' \in [Thread -> Priority]
  BY <1>1, <1>3 DEF Types
<1>5. Exact(r, st, priority')
  <2>1. \/ r = rq /\ cur[c] \notin Thread
        \/ cur[c] \in Thread /\ r = insert_in_run_queue_head(rq, cur[c])
        \/ cur[c] \in Thread /\ r = insert_in_run_queue_tail(rq, cur[c])
    BY DEF Requeue, is_idle
  <2> HIDE DEF r
  <2>2. QED BY <2>1, <1>1, <1>4, RequeuedExact
<1>6. Prepared(c, r, st)
  BY <1>0, <1>5, Prepare
<1>7. /\ Waiting(wait', st)
      /\ SleepersStay(st, timer)
  BY <1>0, <1>1, OthersStay
<1>8. /\ \A t \in Thread : st[t] = "READY" => state[t] = "READY" \/ t = cur[c]
      /\ \A t \in Thread : st[t] = "SLEEPING" => state[t] = "SLEEPING"
  BY <1>3, IdleThreads DEF Types
<1> HIDE DEF r, st
<1>9. Leaves(c, st, quantum, timer)
  BY <1>1, <1>2, <1>3, <1>4, <1>7, <1>8 DEF Leaves, Types
<1>10. QED BY <1>1, <1>6, <1>9, ReschedKeeps

LEMMA SetPriorityKeeps ==
    ASSUME IInv, NEW c \in Cpu, NEW p \in Priorities, thread_set_priority(c, p)
    PROVE  IInv' /\ HighestTaken
<1> DEFINE r == insert_in_run_queue_head(rq, cur[c])
           st == [state EXCEPT ![cur[c]] = "READY"]
<1>0. "READY" \in States
  BY DEF States
<1>1. /\ thread_resched(c, r, st, quantum, timer)
      /\ priority' = [priority EXCEPT ![cur[c]] = ClampPriority(p)]
      /\ pinned' = pinned /\ realtime' = realtime /\ loaded' = loaded
      /\ firing' = firing /\ ipi' = ipi /\ irq' = irq /\ ticking' = ticking /\ yielding' = yielding
      /\ wait' = wait /\ ret' = ret /\ forever' = forever
  BY DEF thread_set_priority, irqVars, waitVars
<1>2. c \in mp.active /\ loaded[c] = NULL /\ cur[c] \in Thread
  BY Started, Current DEF thread_set_priority, Runs, InThread
<1>3. Types
  BY DEF IInv
<1>4. /\ priority' \in [Thread -> Priority]
      /\ \A t \in Thread : t # cur[c] => priority'[t] = priority[t]
  <2>1. ClampPriority(p) \in Priority
    BY PriorityAssumption DEF ClampPriority, Priority
  <2>2. QED BY <2>1, <1>1, <1>2, <1>3 DEF Types
<1>5. Exact(r, st, priority')
  BY <1>2, <1>4, RequeuedExact
<1>6. Prepared(c, r, st)
  BY <1>0, <1>5, Prepare
<1>7. /\ Waiting(wait', st)
      /\ SleepersStay(st, timer)
  BY <1>0, <1>1, OthersStay
<1>8. /\ \A t \in Thread : st[t] = "READY" => state[t] = "READY" \/ t = cur[c]
      /\ \A t \in Thread : st[t] = "SLEEPING" => state[t] = "SLEEPING"
  BY <1>3, IdleThreads DEF Types
<1> HIDE DEF r, st
<1>9. Leaves(c, st, quantum, timer)
  BY <1>1, <1>2, <1>3, <1>4, <1>7, <1>8 DEF Leaves, Types
<1>10. QED BY <1>1, <1>6, <1>9, ReschedKeeps

LEMMA ExitKeeps ==
    ASSUME IInv, NEW c \in Cpu, thread_exit(c)
    PROVE  IInv' /\ HighestTaken
<1> DEFINE st == [state EXCEPT ![cur[c]] = "DEATH"]
<1>0. "DEATH" \in States
  BY DEF States
<1>1. /\ thread_resched(c, rq, st, quantum, timer)
      /\ priority' = priority /\ pinned' = pinned /\ realtime' = realtime /\ loaded' = loaded
      /\ firing' = firing /\ ipi' = ipi /\ irq' = irq /\ ticking' = ticking /\ yielding' = yielding
      /\ wait' = wait /\ ret' = ret /\ forever' = forever
  BY DEF thread_exit, threadAttrs, irqVars, waitVars
<1>2. c \in mp.active /\ loaded[c] = NULL /\ cur[c] \in Thread
  BY Started, Current DEF thread_exit, Runs, InThread
<1>3. Types
  BY DEF IInv
<1>6. Prepared(c, rq, st)
  BY <1>0, <1>1, <1>2, StopsExact, Prepare
<1>7. /\ Waiting(wait', st)
      /\ SleepersStay(st, timer)
  BY <1>0, <1>1, OthersStay
<1>8. /\ \A t \in Thread : st[t] = "READY" => state[t] = "READY" \/ t = cur[c]
      /\ \A t \in Thread : st[t] = "SLEEPING" => state[t] = "SLEEPING"
  BY <1>3, IdleThreads DEF Types
<1> HIDE DEF st
<1>9. Leaves(c, st, quantum, timer)
  BY <1>1, <1>2, <1>3, <1>7, <1>8 DEF Leaves, Types
<1>10. QED BY <1>1, <1>6, <1>9, ReschedKeeps

LEMMA SleepKeeps ==
    ASSUME IInv, NEW c \in Cpu, thread_sleep(c)
    PROVE  IInv' /\ HighestTaken
<1> DEFINE st == [state EXCEPT ![cur[c]] = "SLEEPING"]
           tm == [timer EXCEPT ![cur[c]] = c]
<1>0. "SLEEPING" \in States
  BY DEF States
<1>1. /\ thread_resched(c, rq, st, quantum, tm) /\ "sleep" \in Calls
      /\ priority' = priority /\ pinned' = pinned /\ realtime' = realtime /\ loaded' = loaded
      /\ firing' = firing /\ ipi' = ipi /\ irq' = irq /\ ticking' = ticking /\ yielding' = yielding
      /\ wait' = wait /\ ret' = ret /\ forever' = forever
  BY DEF thread_sleep, Runs, threadAttrs, irqVars, waitVars
<1>2. c \in mp.active /\ loaded[c] = NULL /\ cur[c] \in Thread
  BY Started, Current DEF thread_sleep, Runs, InThread
<1>3. Types
  BY DEF IInv
<1>6. Prepared(c, rq, st)
  BY <1>0, <1>1, <1>2, StopsExact, Prepare
<1>7. /\ Waiting(wait', st)
      /\ SleepersStay(st, tm)
  <2>1. timer \in [Thread -> Cpu \cup {NULL}]
    BY <1>3 DEF Types
  <2>2. /\ Waiting(wait', st) /\ SleepersStay(st, timer)
        /\ \A d \in Cpu, t \in Thread : firing[d] = <<t, "sleep">> => t # cur[c]
    BY <1>0, <1>1, OthersStay, ZenonT(30)
  <2>3. \A t \in Thread : t # cur[c] => tm[t] = timer[t]
    BY <2>1
  <2> HIDE DEF st, tm
  <2>4. QED BY <2>2, <2>3 DEF SleepersStay
<1>8. /\ \A t \in Thread : st[t] = "READY" => state[t] = "READY" \/ t = cur[c]
      /\ tm \in [Thread -> Cpu \cup {NULL}]
  BY <1>3, IdleThreads, ZenonT(30) DEF Types
<1> HIDE DEF st, tm
<1>9. Leaves(c, st, quantum, tm)
  BY <1>1, <1>2, <1>3, <1>7, <1>8 DEF Leaves, Types
<1>10. QED BY <1>1, <1>6, <1>9, ReschedKeeps

LEMMA BlockKeeps ==
    ASSUME IInv, NEW c \in Cpu, NEW timed \in BOOLEAN, wait_queue_block(c, timed)
    PROVE  IInv' /\ HighestTaken
<1> DEFINE st == [state EXCEPT ![cur[c]] = "BLOCKED"]
           tm == IF timed THEN [timer EXCEPT ![cur[c]] = c] ELSE timer
<1>0. "BLOCKED" \in States
  BY DEF States
<1>1. /\ thread_resched(c, rq, st, quantum, tm)
      /\ priority' = priority /\ pinned' = pinned /\ realtime' = realtime /\ loaded' = loaded
      /\ firing' = firing /\ ipi' = ipi /\ irq' = irq /\ ticking' = ticking /\ yielding' = yielding
      /\ wait' = Append(wait, cur[c]) /\ ret' = [ret EXCEPT ![cur[c]] = "NO_ERROR"]
      /\ forever' \subseteq forever \cup {cur[c]}
  BY DEF wait_queue_block, Enqueue, threadAttrs, irqVars
<1>2. c \in mp.active /\ loaded[c] = NULL /\ cur[c] \in Thread /\ state[cur[c]] = "RUNNING"
  BY Started, Current DEF wait_queue_block, Runs, InThread
<1>3. Types
  BY DEF IInv
<1>6. Prepared(c, rq, st)
  BY <1>0, <1>1, <1>2, StopsExact, Prepare, ZenonT(30)
<1>7. Waiting(wait', st)
  <2>1. wait \in Seq(Thread) /\ IsInjective(wait) /\ Range(wait) = {t \in Thread : state[t] = "BLOCKED"}
    BY DEF IInv, Waiting
  <2>2. cur[c] \notin Range(wait)
    BY <2>1, <1>2
  <2>3. wait' \in Seq(Thread) /\ IsInjective(wait') /\ Range(wait') = Range(wait) \cup {cur[c]}
    <3>1. wait' = Append(wait, cur[c]) /\ cur[c] \in Thread
      BY <1>1, <1>2
    <3>2. QED BY <2>1, <2>2, <3>1, AppendElements, SMTT(30)
  <2>4. \A t \in Thread : st[t] = "BLOCKED" <=> state[t] = "BLOCKED" \/ t = cur[c]
    BY <1>3, IdleThreads DEF Types
  <2> HIDE DEF st
  <2>5. QED BY <2>1, <2>3, <2>4, <1>2 DEF Waiting
<1>8. SleepersStay(st, tm)
  <2>1. ASSUME NEW d \in Cpu, NEW t \in Thread, firing[d] = <<t, "sleep">>
        PROVE  st[t] = "SLEEPING" /\ tm[t] = NULL
    <3>1. state[t] = "SLEEPING" /\ timer[t] = NULL
      BY <2>1, ZenonT(30) DEF IInv, Sleeping
    <3>2. t # cur[c]
      BY <3>1, <1>2
    <3>3. QED BY <3>1, <3>2, <1>3, IdleThreads DEF Types
  <2> HIDE DEF st, tm
  <2>2. QED BY <2>1 DEF SleepersStay
<1>9. /\ \A t \in Thread : st[t] = "READY" => state[t] = "READY" \/ t = cur[c]
      /\ \A t \in Thread : st[t] = "SLEEPING" => state[t] = "SLEEPING"
      /\ tm \in [Thread -> Cpu \cup {NULL}]
  BY <1>3, IdleThreads, ZenonT(30) DEF Types
<1>10. ret' \in [Thread -> {"NO_ERROR", "ERR_TIMED_OUT"}] /\ forever' \subseteq Thread
  BY <1>1, <1>2, <1>3 DEF Types
<1> HIDE DEF st, tm
<1>11. Leaves(c, st, quantum, tm)
  BY <1>1, <1>2, <1>3, <1>7, <1>8, <1>9, <1>10 DEF Leaves, Types
<1>12. QED BY <1>1, <1>6, <1>11, ReschedKeeps

=============================================================================
