------------------------------ MODULE WaitQueue ------------------------------
(***************************************************************************)
(* The wait queues of kernel/thread.c, on which the mutex, the event, the  *)
(* semaphore, the condition variable, the port and thread_join are built.  *)
(*                                                                         *)
(* Every operation runs with thread_lock held and interrupts disabled, so  *)
(* it is a function from scheduler state to scheduler state; a primitive's *)
(* critical section is a composition of them.  The scheduler state is one  *)
(* record, over a set Q of wait queues:                                    *)
(*   state                 READY stands for THREAD_READY and               *)
(*                         THREAD_RUNNING: which ready thread runs next is *)
(*                         the scheduler's business (module Thread), here  *)
(*                         any of them may                                 *)
(*   blocking_wait_queue   the queue a blocked thread is on                *)
(*   wait_queue_block_ret  what its wait_queue_block() will return         *)
(*   timer                 the threads whose wait_queue_block() has a      *)
(*                         timer armed on its stack                        *)
(*   list, count           the two fields of every queue                   *)
(***************************************************************************)
EXTENDS Integers, Sequences, Functions, FiniteSets

CONSTANTS Thread, NULL

ASSUME ThreadAssumption == IsFiniteSet(Thread)

\* NULL is neither a thread nor the name of a wait queue.
ASSUME NULLAssumption ==
    NULL \notin Thread \cup {"mutex.wait", "cond.wait", "sem.wait", "event.wait"}

Status == {"NO_ERROR", "ERR_TIMED_OUT", "ERR_OBJECT_DESTROYED", "ERR_THREAD_DETACHED"}

\* Lengths of a wait: 0, INFINITE_TIME, and any time between.
Timeout == {"ZERO", "FINITE", "INFINITE"}

SchedType(Q) ==
    [state: [Thread -> {"READY", "BLOCKED"}],
     blocking_wait_queue: [Thread -> Q \cup {NULL}],
     wait_queue_block_ret: [Thread -> Status],
     timer: SUBSET Thread,
     list: [Q -> Seq(Thread)],
     count: [Q -> Int]]

SchedInit(Q) ==
    [state |-> [t \in Thread |-> "READY"],
     blocking_wait_queue |-> [t \in Thread |-> NULL],
     wait_queue_block_ret |-> [t \in Thread |-> "NO_ERROR"],
     timer |-> {},
     list |-> [q \in Q |-> <<>>],
     count |-> [q \in Q |-> 0]]

On(s, q) == Range(s.list[q])

\* list_delete() of the node of thread t.
list_delete(l, t) ==
    LET k == CHOOSE i \in DOMAIN l : l[i] = t
    IN  SubSeq(l, 1, k - 1) \o SubSeq(l, k + 1, Len(l))

-----------------------------------------------------------------------------

(***************************************************************************)
(* wait_queue_block(), up to the context switch: timeout is not ZERO (the  *)
(* callers deal with ERR_TIMED_OUT returned at once), t is running.        *)
(***************************************************************************)
wait_queue_block(s, q, t, timeout) ==
    [state |-> [s.state EXCEPT ![t] = "BLOCKED"],
     blocking_wait_queue |-> [s.blocking_wait_queue EXCEPT ![t] = q],
     wait_queue_block_ret |-> [s.wait_queue_block_ret EXCEPT ![t] = "NO_ERROR"],
     timer |-> IF timeout = "INFINITE" THEN s.timer ELSE s.timer \cup {t},
     list |-> [s.list EXCEPT ![q] = Append(@, t)],
     count |-> [s.count EXCEPT ![q] = @ + 1]]

\* wait_queue_block(), after the context switch back to t; t then returns
\* wait_queue_block_ret[t].
wait_queue_block_resume(s, t) == [s EXCEPT !.timer = @ \ {t}]

\* What all wake-ups do to a thread t on queue q: off the list, runnable, with
\* the status its wait_queue_block() will return.
Wake(s, q, t, error) ==
    [state |-> [s.state EXCEPT ![t] = "READY"],
     blocking_wait_queue |-> [s.blocking_wait_queue EXCEPT ![t] = NULL],
     wait_queue_block_ret |-> [s.wait_queue_block_ret EXCEPT ![t] = error],
     timer |-> s.timer,
     list |-> [s.list EXCEPT ![q] = list_delete(@, t)],
     count |-> [s.count EXCEPT ![q] = @ - 1]]

wait_queue_wake_one(s, q, error) ==
    IF s.list[q] = <<>> THEN s ELSE Wake(s, q, Head(s.list[q]), error)

\* The threads of queue q are woken one by one from its head.
wait_queue_wake_all(s, q, error) ==
    [state |-> [t \in Thread |-> IF t \in On(s, q) THEN "READY" ELSE s.state[t]],
     blocking_wait_queue |-> [t \in Thread |-> IF t \in On(s, q) THEN NULL ELSE s.blocking_wait_queue[t]],
     wait_queue_block_ret |-> [t \in Thread |-> IF t \in On(s, q) THEN error ELSE s.wait_queue_block_ret[t]],
     timer |-> s.timer,
     list |-> [s.list EXCEPT ![q] = <<>>],
     count |-> [s.count EXCEPT ![q] = @ - Len(s.list[q])]]

\* wait_queue_destroy(), up to the reschedule that lets the woken threads run.
wait_queue_destroy(s, q) == wait_queue_wake_all(s, q, "ERR_OBJECT_DESTROYED")

\* Mutant of thread_unblock_from_wait_queue: the status is set in any case.
thread_unblock_from_wait_queue_Always(s, t, error) ==
    IF s.state[t] # "BLOCKED" THEN [s EXCEPT !.wait_queue_block_ret[t] = error]
    ELSE Wake(s, s.blocking_wait_queue[t], t, error)

thread_unblock_from_wait_queue(s, t, error) ==
    IF s.state[t] # "BLOCKED" THEN s ELSE Wake(s, s.blocking_wait_queue[t], t, error)

\* The timer of t expires: timer_tick() takes the one-shot timer off its queue
\* and calls the handler.
wait_queue_timeout_handler(s, t) ==
    thread_unblock_from_wait_queue([s EXCEPT !.timer = @ \ {t}], t, "ERR_TIMED_OUT")

-----------------------------------------------------------------------------

(***************************************************************************)
(* What the operations rely on and keep: a thread is on a queue exactly    *)
(* when it is blocked there, once, and the count is the number of them.    *)
(* Stated for any module whose scheduler record s ranges over Q.           *)
(***************************************************************************)
QueuesConsistent(s, Q) ==
    /\ \A t \in Thread : s.state[t] = "BLOCKED" <=> s.blocking_wait_queue[t] # NULL
    /\ \A q \in Q :
        /\ On(s, q) = {t \in Thread : s.blocking_wait_queue[t] = q}
        /\ IsInjective(s.list[q])
        /\ s.count[q] = Len(s.list[q])

=============================================================================
