-------------------------------- MODULE Mutex --------------------------------
(***************************************************************************)
(* kernel/mutex.c: the sleeping lock.  count is the number of threads that *)
(* hold the mutex or are inside mutex_acquire_timeout(); the releasing     *)
(* thread hands the mutex directly to the first waiter, which learns of it *)
(* when it next runs and only then sets holder.                            *)
(***************************************************************************)
EXTENDS WaitQueue

CONSTANTS
    Timeouts,       \* the timeouts threads pass to mutex_acquire_timeout()
    Destroyer       \* who calls mutex_destroy(): see MayDestroy

WAIT == "mutex.wait"

ASSUME TimeoutsAssumption == Timeouts \subseteq Timeout
ASSUME DestroyerAssumption == Destroyer \in {"nobody", "owner"}

VARIABLES
    sched,      \* the scheduler state, over the one queue of the mutex
    mutex,      \* magic (TRUE: MUTEX_MAGIC), count and holder
    pc          \* where each thread is with respect to the mutex

vars == <<sched, mutex, pc>>

(***************************************************************************)
(* idle    neither holds the mutex nor is inside a call                    *)
(* acquire inside wait_queue_block(), blocked or woken but not yet run     *)
(* held    mutex_acquire_timeout() returned NO_ERROR                       *)
(* destroy inside the reschedule of wait_queue_destroy()                   *)
(***************************************************************************)
Place == {"idle", "acquire", "held", "destroy"}

MutexType == [magic: BOOLEAN, count: Int, holder: Thread \cup {NULL}]

MUTEX_INITIAL_VALUE == [magic |-> TRUE, count |-> 0, holder |-> NULL]

TypeOK ==
    /\ sched \in SchedType({WAIT})
    /\ mutex \in MutexType
    /\ pc \in [Thread -> Place]

Init ==
    /\ sched = SchedInit({WAIT})
    /\ mutex = MUTEX_INITIAL_VALUE
    /\ pc = [t \in Thread |-> "idle"]

Running(t) == sched.state[t] = "READY"

\* Threads the mutex has been given to: the holder, or the waiter that
\* mutex_release() woke and that has not run yet.
Owner(t) ==
    \/ pc[t] = "held"
    \/ pc[t] = "acquire" /\ Running(t) /\ sched.wait_queue_block_ret[t] = "NO_ERROR"

-----------------------------------------------------------------------------

\* Mutants of Contended.
Contended_OffByOne == mutex.count + 1 > 2

\* The test of ++count.
Contended == mutex.count + 1 > 1

\* mutex_acquire_timeout_internal() up to the block, from scheduler state s.
mutex_acquire_timeout_internal(t, s, timeout) ==
    \/ /\ Contended
       /\ timeout = "ZERO"
       /\ sched' = s
       /\ UNCHANGED <<mutex, pc>>
    \/ /\ Contended
       /\ timeout # "ZERO"
       /\ sched' = wait_queue_block(s, WAIT, t, timeout)
       /\ mutex' = [mutex EXCEPT !.count = @ + 1]
       /\ pc' = [pc EXCEPT ![t] = "acquire"]
    \/ /\ ~Contended
       /\ sched' = s
       /\ mutex' = [mutex EXCEPT !.count = @ + 1, !.holder = t]
       /\ pc' = [pc EXCEPT ![t] = "held"]

mutex_acquire_timeout(t, timeout) ==
    /\ pc[t] = "idle" /\ Running(t)
    /\ mutex.magic /\ mutex.holder # t
    /\ mutex_acquire_timeout_internal(t, sched, timeout)

\* mutex_acquire_timeout_internal() after the block: the status decides.
mutex_acquire_resume(t) ==
    /\ pc[t] = "acquire" /\ Running(t)
    /\ sched' = wait_queue_block_resume(sched, t)
    /\ \/ /\ sched.wait_queue_block_ret[t] = "NO_ERROR"
          /\ mutex' = [mutex EXCEPT !.holder = t]
          /\ pc' = [pc EXCEPT ![t] = "held"]
       \/ /\ sched.wait_queue_block_ret[t] = "ERR_TIMED_OUT"
          /\ mutex' = [mutex EXCEPT !.count = @ - 1]
          /\ pc' = [pc EXCEPT ![t] = "idle"]
       \/ /\ sched.wait_queue_block_ret[t] \notin {"NO_ERROR", "ERR_TIMED_OUT"}
          /\ UNCHANGED mutex
          /\ pc' = [pc EXCEPT ![t] = "idle"]

\* Mutants of WakeNext.
WakeNext_OffByOne(s) ==
    IF mutex.count - 1 >= 2 THEN wait_queue_wake_one(s, WAIT, "NO_ERROR") ELSE s

WakeNext_Last(s) ==
    IF s.list[WAIT] = <<>> THEN s
    ELSE thread_unblock_from_wait_queue(s, s.list[WAIT][Len(s.list[WAIT])], "NO_ERROR")

\* What mutex_release_internal() does to the scheduler state s.
WakeNext(s) ==
    IF mutex.count - 1 >= 1 THEN wait_queue_wake_one(s, WAIT, "NO_ERROR") ELSE s

\* Mutant of mutex_release_internal.
mutex_release_internal_NoDecrement(s) ==
    /\ sched' = WakeNext(s)
    /\ mutex' = [mutex EXCEPT !.holder = NULL, !.count = IF @ > 1 THEN @ ELSE @ - 1]

mutex_release_internal(s) ==
    /\ sched' = WakeNext(s)
    /\ mutex' = [mutex EXCEPT !.holder = NULL, !.count = @ - 1]

mutex_release(t) ==
    /\ pc[t] = "held" /\ Running(t)
    /\ mutex.magic /\ mutex.holder = t
    /\ mutex_release_internal(sched)
    /\ pc' = [pc EXCEPT ![t] = "idle"]

\* The timer of a timed acquisition expires.
acquire_timeout(t) ==
    /\ t \in sched.timer
    /\ sched' = wait_queue_timeout_handler(sched, t)
    /\ UNCHANGED <<mutex, pc>>

(***************************************************************************)
(* The callers' side of mutex_destroy(): "owner" is a client that destroys *)
(* a mutex only if no other thread holds it, has been handed it or comes   *)
(* to hold it during the call.                                             *)
(***************************************************************************)
MayDestroy(t) == Destroyer = "owner" /\ \A u \in Thread : Owner(u) => u = t

(***************************************************************************)
(* mutex_destroy(): the waiters are woken and run first; the destroying    *)
(* thread clears the magic of the wait queue when it runs again.  holder   *)
(* is left as it is.  The function looks at magic and holder before it     *)
(* takes the lock; no other thread of such a client changes them between,  *)
(* so that the look is part of the step.                                   *)
(***************************************************************************)
mutex_destroy(t) ==
    /\ MayDestroy(t)
    /\ pc[t] \in {"idle", "held"} /\ Running(t)
    /\ mutex.magic /\ mutex.holder \in {NULL, t}
    /\ mutex' = [mutex EXCEPT !.magic = FALSE, !.count = 0]
    /\ sched' = wait_queue_destroy(sched, WAIT)
    /\ pc' = [pc EXCEPT ![t] = IF sched.list[WAIT] = <<>> THEN "idle" ELSE "destroy"]

wait_queue_destroy_resume(t) ==
    /\ pc[t] = "destroy"
    /\ pc' = [pc EXCEPT ![t] = "idle"]
    /\ UNCHANGED <<sched, mutex>>

\* mutex_init() of the destroyed mutex, once no thread is inside a call on it.
mutex_init ==
    /\ ~mutex.magic
    /\ \A t \in Thread : pc[t] = "idle"
    /\ mutex' = MUTEX_INITIAL_VALUE
    /\ UNCHANGED <<sched, pc>>

Next ==
    \/ \E t \in Thread :
        \/ \E timeout \in Timeouts : mutex_acquire_timeout(t, timeout)
        \/ mutex_acquire_resume(t)
        \/ mutex_release(t)
        \/ acquire_timeout(t)
        \/ mutex_destroy(t)
        \/ wait_queue_destroy_resume(t)
    \/ mutex_init

Spec == Init /\ [][Next]_vars

-----------------------------------------------------------------------------

(***************************************************************************)
(* Mutual exclusion, hand-over included: while the mutex is alive at most  *)
(* one thread holds it or has been woken to hold it, and holder names the  *)
(* thread that holds it.  Timed-out acquisitions that have not yet backed  *)
(* out their increment of count (mutex.c:67) must not break it.            *)
(***************************************************************************)
MutualExclusion ==
    mutex.magic =>
        /\ \A t, u \in Thread : Owner(t) /\ Owner(u) => t = u
        /\ \A t \in Thread : pc[t] = "held" <=> mutex.holder = t

(***************************************************************************)
(* While the mutex is alive, count is the number of threads that hold it   *)
(* or are inside mutex_acquire_timeout(), whatever mixture of acquisitions,*)
(* releases and expired timeouts came before: the decrements of            *)
(* mutex_release_internal() and of the backed-out acquisition neither miss *)
(* a thread nor count one twice, so count returns to 0 when all are done.  *)
(***************************************************************************)
CountExact ==
    mutex.magic => mutex.count = Cardinality({t \in Thread : pc[t] \in {"acquire", "held"}})

\* The wait queue of the mutex stays consistent with the threads' own fields.
WaitConsistent == QueuesConsistent(sched, {WAIT})

(***************************************************************************)
(* No lost wake-up: while a thread is blocked on a living mutex, the mutex *)
(* belongs to some thread, whose release will wake the first waiter.       *)
(***************************************************************************)
NoLostWakeup ==
    mutex.magic /\ sched.list[WAIT] # <<>> => \E t \in Thread : Owner(t)

-----------------------------------------------------------------------------

OwningThread ==
    IF mutex.magic /\ \E t \in Thread : Owner(t) THEN CHOOSE t \in Thread : Owner(t) ELSE NULL

Lock == INSTANCE HandOffLock WITH owner <- OwningThread, waiters <- sched.list[WAIT]

(***************************************************************************)
(* The mutex without timed acquisitions is a hand-off lock: count, holder  *)
(* and the block statuses, changed in separate critical sections of        *)
(* mutex_acquire_timeout() and mutex_release(), amount to one owner that   *)
(* passes the lock on in the order of arrival.                             *)
(***************************************************************************)
ImplementsLock == Lock!Spec

-----------------------------------------------------------------------------

(***************************************************************************)
(* Fairness: the scheduler runs every ready thread again (round robin      *)
(* among equal priorities), and a holder eventually releases.              *)
(***************************************************************************)
Fairness ==
    \A t \in Thread : WF_vars(mutex_acquire_resume(t)) /\ WF_vars(mutex_release(t))

FairSpec == Spec /\ Fairness

\* Every acquisition ends: with the direct hand-over, weak fairness is enough.
AcquisitionEnds ==
    \A t \in Thread : pc[t] = "acquire" ~> pc[t] # "acquire"

=============================================================================
