------------------------------ MODULE WaitSpec ------------------------------
(***************************************************************************)
(* What the synchronisation primitives assume of the scheduler: one wait   *)
(* queue on which threads block, are woken in order, and time out only     *)
(* while the timer of the very wait they are in is armed.  Any ready       *)
(* thread may run at any time; one that does cancels the timer of its wait.*)
(* Mutex, Event, Semaphore and Cond are written against these operations.  *)
(* Thread implements them on one cpu, and on several if no wait has a      *)
(* timeout.  On several cpus the handler of a timeout may come so late     *)
(* that it ends a later wait of the thread, for which there is no step     *)
(* here (WaitsIndefinitely of Thread).                                     *)
(***************************************************************************)
EXTENDS WaitQueue

VARIABLE sched

QUEUE == "wait"

\* Ready threads of s that get to run meanwhile cancel their timers.
SomeRun(s) ==
    \E run \in SUBSET {t \in Thread : s.state[t] = "READY"} :
        sched' = [s EXCEPT !.timer = @ \ run]

block(t, timeout) ==
    /\ sched.state[t] = "READY" /\ t \notin sched.timer
    /\ SomeRun(wait_queue_block(sched, QUEUE, t, timeout))

wake_one == SomeRun(wait_queue_wake_one(sched, QUEUE, "NO_ERROR"))

wake_all == SomeRun(wait_queue_wake_all(sched, QUEUE, "NO_ERROR"))

timeout_handler(t) ==
    /\ t \in sched.timer
    /\ SomeRun(wait_queue_timeout_handler(sched, t))

Init == sched = SchedInit({QUEUE})

Next ==
    \/ \E t \in Thread, timeout \in {"FINITE", "INFINITE"} : block(t, timeout)
    \/ wake_one
    \/ wake_all
    \/ \E t \in Thread : timeout_handler(t)
    \/ SomeRun(sched)

Spec == Init /\ [][Next]_sched

=============================================================================
