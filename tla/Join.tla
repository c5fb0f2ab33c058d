-------------------------------- MODULE Join --------------------------------
(***************************************************************************)
(* The life of a thread structure in kernel/thread.c: thread_create(),     *)
(* thread_resume(), thread_exit(), thread_join() and thread_detach(), and  *)
(* which of them frees the structure.  Threads create, join and detach one *)
(* another; every thread has its own retcode_wait_queue.                   *)
(***************************************************************************)
EXTENDS WaitQueue, FiniteSets

CONSTANTS
    First,      \* the thread that exists at start
    Timeouts    \* the timeouts threads pass to thread_join()

retcode_wait_queue(t) == <<"retcode", t>>
Queues == {retcode_wait_queue(t) : t \in Thread}

VARIABLES
    sched,      \* the scheduler state, over the retcode_wait_queues
    life,       \* "NONE": never created or freed, LIVE: READY, RUNNING or BLOCKED
    detached,   \* the threads flagged THREAD_FLAG_DETACHED
    pc,         \* <<"join", t>>: inside the wait of thread_join(t);
                \* <<"detach", t>>: thread_detach(t) is about to call thread_join()
    joiner,     \* history: the first thread to join a thread
    freed,      \* history: how often the structure of a thread has been freed
    raced       \* history: the threads that two others came to free

vars == <<sched, life, detached, pc, joiner, freed, raced>>

Idle == <<"idle", NULL>>

TypeOK ==
    /\ sched \in SchedType(Queues)
    /\ life \in [Thread -> {"NONE", "SUSPENDED", "LIVE", "DEATH"}]
    /\ detached \subseteq Thread
    /\ pc \in [Thread -> ({"join", "detach"} \X Thread) \cup {Idle}]
    /\ joiner \in [Thread -> Thread \cup {NULL}]
    /\ freed \in [Thread -> Nat]
    /\ raced \subseteq Thread

Init ==
    /\ sched = SchedInit(Queues)
    /\ life = [t \in Thread |-> IF t = First THEN "LIVE" ELSE "NONE"]
    /\ detached = {}
    /\ pc = [t \in Thread |-> Idle]
    /\ joiner = [t \in Thread |-> NULL]
    /\ freed = [t \in Thread |-> 0]
    /\ raced = {}

Runs(u) == life[u] = "LIVE" /\ sched.state[u] = "READY"
Calls(u, t) == Runs(u) /\ pc[u] = Idle /\ u # t

\* The clients' discipline: one thread joins a thread, and may try again after a
\* timeout.  Any thread may detach it.
MayJoin(u, t) == joiner[t] \in {NULL, u}

\* u has been woken by the exit of t, or has found it dead, and is about to free it.
WillReap(u, t) ==
    \/ pc[u] = <<"join", t>> /\ Runs(u) /\ sched.wait_queue_block_ret[u] = "NO_ERROR"
    \/ pc[u] = <<"detach", t>>

\* raced when u finds t dead while another thread is about to free it.
Race(u, t) ==
    IF life[t] = "DEATH" /\ \E v \in Thread \ {u} : WillReap(v, t) THEN raced \cup {t} ELSE raced

-----------------------------------------------------------------------------

thread_create(u, t) ==
    /\ Calls(u, t)
    /\ life[t] = "NONE"
    /\ freed[t] = 0
    /\ life' = [life EXCEPT ![t] = "SUSPENDED"]
    /\ UNCHANGED <<sched, detached, pc, joiner, freed, raced>>

thread_resume(u, t) ==
    /\ Calls(u, t)
    /\ life[t] = "SUSPENDED"
    /\ life' = [life EXCEPT ![t] = "LIVE"]
    /\ UNCHANGED <<sched, detached, pc, joiner, freed, raced>>

\* What thread_join() and thread_exit() do to a dead thread: its magic is
\* cleared and its memory freed.
Reap(t) ==
    /\ life' = [life EXCEPT ![t] = "NONE"]
    /\ freed' = [freed EXCEPT ![t] = @ + 1]

\* thread_join() from its entry to its return or its block.
Join(u, t, timeout) ==
    \/ /\ t \in detached \/ (life[t] # "DEATH" /\ timeout = "ZERO")
       /\ pc' = [pc EXCEPT ![u] = Idle]
       /\ UNCHANGED <<sched, life, freed>>
    \/ /\ t \notin detached /\ life[t] # "DEATH" /\ timeout # "ZERO"
       /\ sched' = wait_queue_block(sched, retcode_wait_queue(t), u, timeout)
       /\ pc' = [pc EXCEPT ![u] = <<"join", t>>]
       /\ UNCHANGED <<life, freed>>
    \/ /\ t \notin detached /\ life[t] = "DEATH"
       /\ Reap(t)
       /\ pc' = [pc EXCEPT ![u] = Idle]
       /\ UNCHANGED sched

thread_join(u, t, timeout) ==
    /\ Calls(u, t) /\ MayJoin(u, t)
    /\ life[t] # "NONE"
    /\ joiner' = [joiner EXCEPT ![t] = IF @ = NULL THEN u ELSE @]
    /\ raced' = Race(u, t)
    /\ Join(u, t, timeout)
    /\ UNCHANGED detached

thread_join_resume(u, t) ==
    /\ pc[u] = <<"join", t>> /\ Runs(u)
    /\ sched' = wait_queue_block_resume(sched, u)
    /\ IF sched.wait_queue_block_ret[u] = "NO_ERROR" THEN Reap(t) ELSE UNCHANGED <<life, freed>>
    /\ pc' = [pc EXCEPT ![u] = Idle]
    /\ UNCHANGED <<detached, joiner, raced>>

\* Mutant of DetachWakes: joiners are told that the thread has exited.
DetachWakes_NoError(t) == wait_queue_wake_all(sched, retcode_wait_queue(t), "NO_ERROR")

DetachWakes(t) == wait_queue_wake_all(sched, retcode_wait_queue(t), "ERR_THREAD_DETACHED")

\* thread_detach(): of a dead thread, it goes on to join it.
thread_detach(u, t) ==
    /\ Runs(u) /\ pc[u] = Idle
    /\ life[t] # "NONE"
    /\ raced' = Race(u, t)
    /\ sched' = DetachWakes(t)
    /\ \/ /\ life[t] = "DEATH"
          /\ detached' = detached \ {t}
          /\ pc' = [pc EXCEPT ![u] = <<"detach", t>>]
       \/ /\ life[t] # "DEATH"
          /\ detached' = detached \cup {t}
          /\ UNCHANGED pc
    /\ UNCHANGED <<life, joiner, freed>>

thread_detach_join(u, t) ==
    /\ pc[u] = <<"detach", t>> /\ Runs(u)
    /\ Join(u, t, "ZERO")
    /\ UNCHANGED <<detached, joiner, raced>>

ExitWakes(t) == wait_queue_wake_all(sched, retcode_wait_queue(t), "NO_ERROR")

thread_exit(t) ==
    /\ Runs(t) /\ pc[t] = Idle
    /\ \/ t \in detached /\ Reap(t) /\ UNCHANGED sched
       \/ /\ t \notin detached
          /\ life' = [life EXCEPT ![t] = "DEATH"]
          /\ sched' = ExitWakes(t)
          /\ UNCHANGED freed
    /\ UNCHANGED <<detached, pc, joiner, raced>>

join_timeout(t) ==
    /\ t \in sched.timer
    /\ sched' = wait_queue_timeout_handler(sched, t)
    /\ UNCHANGED <<life, detached, pc, joiner, freed, raced>>

Next ==
    \/ \E u, t \in Thread :
        \/ thread_create(u, t)
        \/ thread_resume(u, t)
        \/ \E timeout \in Timeouts : thread_join(u, t, timeout)
        \/ thread_join_resume(u, t)
        \/ thread_detach(u, t)
        \/ thread_detach_join(u, t)
    \/ \E t \in Thread : thread_exit(t) \/ join_timeout(t)

Spec == Init /\ [][Next]_vars

-----------------------------------------------------------------------------

(***************************************************************************)
(* What the DEBUG_ASSERTs after the wait in thread_join() assert: a joiner *)
(* woken by the thread's exit finds its structure valid and dead, unless   *)
(* another thread joined or detached the dead thread before it ran.        *)
(***************************************************************************)
JoinFindsThread ==
    \A u \in Thread, t \in Thread \ raced : WillReap(u, t) => life[t] = "DEATH"

\* No structure is freed twice, whoever of thread_join(), thread_detach() and
\* thread_exit() comes to free it, but where two of them race for a dead thread.
FreedOnce == \A t \in Thread \ raced : freed[t] <= 1

(***************************************************************************)
(* No joiner is left behind: nobody sleeps on the retcode_wait_queue of a  *)
(* thread that has exited or been detached.                                *)
(***************************************************************************)
NoJoinerLeftBehind ==
    \A t \in Thread :
        life[t] \in {"NONE", "DEATH"} \/ t \in detached => sched.list[retcode_wait_queue(t)] = <<>>

=============================================================================
