------------------------------ MODULE Semaphore ------------------------------
(***************************************************************************)
(* kernel/semaphore.c: the counting semaphore.  Every wait decrements      *)
(* count before it knows whether it must block, so a negative count is the *)
(* number of threads inside a wait; a timed-out wait adds its decrement    *)
(* back, but only when the thread runs again.                              *)
(***************************************************************************)
EXTENDS WaitQueue

CONSTANTS
    Initial,      \* the value given to sem_init()
    SemTimeouts,  \* the timeouts threads pass to sem_timedwait()
    MaxCount      \* bound on count: sem_post() is not called beyond it

SEM == "sem.wait"

\* The value given to sem_init() is unsigned.
ASSUME InitialAssumption == Initial \in Nat
ASSUME SemTimeoutsAssumption == SemTimeouts \subseteq Timeout

VARIABLES
    sem_sched,  \* the scheduler state, over the one queue of the semaphore
    count,      \* sem->count
    alive,      \* the semaphore has not been destroyed
    sem_pc,     \* "wait", "timedwait": the call that is inside wait_queue_block();
                \* "destroy": inside wait_queue_destroy()
    tokens,     \* history: Initial, plus the posts, minus the waits that succeeded
    late        \* history: a post came while a timed-out wait had not backed out

semVars == <<sem_sched, count, alive, sem_pc, tokens, late>>

SemTypeOK ==
    /\ sem_sched \in SchedType({SEM})
    /\ count \in Int
    /\ alive \in BOOLEAN
    /\ sem_pc \in [Thread -> {"idle", "wait", "timedwait", "destroy"}]
    /\ tokens \in Int
    /\ late \in BOOLEAN

SemInit ==
    /\ sem_sched = SchedInit({SEM})
    /\ count = Initial
    /\ alive = TRUE
    /\ sem_pc = [t \in Thread |-> "idle"]
    /\ tokens = Initial
    /\ late = FALSE

SemCalls(t) == alive /\ sem_pc[t] = "idle" /\ sem_sched.state[t] = "READY"

-----------------------------------------------------------------------------

\* The test of --count.
NoResource == count - 1 < 0

\* The decrement of sem_wait() and sem_timedwait(): a resource is taken, or the
\* call blocks.
TakeOrBlock(t, timeout, call) ==
    /\ SemCalls(t)
    /\ \/ /\ ~NoResource
          /\ tokens' = tokens - 1
          /\ UNCHANGED <<sem_sched, sem_pc>>
       \/ /\ NoResource
          /\ sem_sched' = wait_queue_block(sem_sched, SEM, t, timeout)
          /\ sem_pc' = [sem_pc EXCEPT ![t] = call]
          /\ UNCHANGED tokens
    /\ count' = count - 1
    /\ UNCHANGED <<alive, late>>

sem_wait(t) == TakeOrBlock(t, "INFINITE", "wait")

\* sem_timedwait(), up to the block.  wait_queue_block() returns ERR_TIMED_OUT at
\* once for a timeout of ZERO, and the decrement is undone.
sem_timedwait(t, timeout) ==
    \/ (timeout # "ZERO" \/ ~NoResource) /\ TakeOrBlock(t, timeout, "timedwait")
    \/ timeout = "ZERO" /\ NoResource /\ SemCalls(t) /\ UNCHANGED semVars

\* The call of t comes back from the block: the wait succeeded if the status is
\* NO_ERROR.
Unblocked(t, call) ==
    /\ sem_pc[t] = call /\ sem_sched.state[t] = "READY"
    /\ sem_sched' = wait_queue_block_resume(sem_sched, t)
    /\ tokens' = IF sem_sched.wait_queue_block_ret[t] = "NO_ERROR" THEN tokens - 1 ELSE tokens
    /\ sem_pc' = [sem_pc EXCEPT ![t] = "idle"]
    /\ UNCHANGED <<alive, late>>

\* sem_wait() returns whatever the block returned.
sem_wait_resume(t) == Unblocked(t, "wait") /\ UNCHANGED count

\* Mutant of BackOut: a failed wait takes its resource all the same.
BackOut_Missing(status) == count

\* count after the block of sem_timedwait() returned status: a timed-out wait
\* backs out.
BackOut(status) == IF status = "ERR_TIMED_OUT" THEN count + 1 ELSE count

sem_timedwait_resume(t) ==
    Unblocked(t, "timedwait") /\ count' = BackOut(sem_sched.wait_queue_block_ret[t])

sem_trywait(t) ==
    /\ SemCalls(t)
    /\ ~(count <= 0)
    /\ count' = count - 1
    /\ tokens' = tokens - 1
    /\ UNCHANGED <<sem_sched, alive, sem_pc, late>>

\* Mutant of PostWakes: an increment that reaches zero wakes nobody.
PostWakes_OffByOne == count + 1 < 0

\* The test of ++count.
PostWakes == count + 1 <= 0

Waiting == {t \in Thread : sem_pc[t] \in {"wait", "timedwait"}}

\* The waits that timed out and have not backed out yet.
TimedOut ==
    {t \in Waiting : sem_sched.state[t] = "READY" /\ sem_sched.wait_queue_block_ret[t] = "ERR_TIMED_OUT"}

\* sem_post(), called by a thread or from interrupt context.
sem_post ==
    /\ alive
    /\ count < MaxCount
    /\ count' = count + 1
    /\ sem_sched' = IF PostWakes THEN wait_queue_wake_one(sem_sched, SEM, "NO_ERROR") ELSE sem_sched
    /\ tokens' = tokens + 1
    /\ late' = (late \/ TimedOut # {})
    /\ UNCHANGED <<alive, sem_pc>>

sem_timeout(t) ==
    /\ t \in sem_sched.timer
    /\ sem_sched' = wait_queue_timeout_handler(sem_sched, t)
    /\ UNCHANGED <<count, alive, sem_pc, tokens, late>>

sem_destroy(t) ==
    /\ SemCalls(t)
    /\ count' = 0
    /\ alive' = FALSE
    /\ sem_sched' = wait_queue_destroy(sem_sched, SEM)
    /\ sem_pc' = [sem_pc EXCEPT ![t] = IF sem_sched.list[SEM] = <<>> THEN "idle" ELSE "destroy"]
    /\ UNCHANGED <<tokens, late>>

sem_destroy_resume(t) ==
    /\ sem_pc[t] = "destroy"
    /\ sem_pc' = [sem_pc EXCEPT ![t] = "idle"]
    /\ UNCHANGED <<sem_sched, count, alive, tokens, late>>

\* sem_init() of a destroyed semaphore, once no thread is inside a call on it.
sem_init ==
    /\ ~alive
    /\ \A t \in Thread : sem_pc[t] = "idle"
    /\ count' = Initial
    /\ alive' = TRUE
    /\ tokens' = Initial
    /\ late' = FALSE
    /\ UNCHANGED <<sem_sched, sem_pc>>

SemNext ==
    \/ \E t \in Thread :
        \/ \E timeout \in SemTimeouts : sem_timedwait(t, timeout)
        \/ sem_wait(t)
        \/ sem_wait_resume(t)
        \/ sem_timedwait_resume(t)
        \/ sem_trywait(t)
        \/ sem_timeout(t)
        \/ sem_destroy(t)
        \/ sem_destroy_resume(t)
    \/ sem_post
    \/ sem_init

SemSpec == SemInit /\ [][SemNext]_semVars

-----------------------------------------------------------------------------

\* The waits that sem_post() has satisfied and that have not returned yet.
SemGranted == {t \in Waiting : sem_sched.state[t] = "READY" /\ sem_sched.wait_queue_block_ret[t] = "NO_ERROR"}

(***************************************************************************)
(* count accounts for every resource: posts that found a waiter, posts     *)
(* that did not, and waits that timed out before or after a post all leave *)
(* it equal to the free resources minus the threads inside a wait.         *)
(***************************************************************************)
Conservation ==
    alive => tokens = count + Cardinality(Waiting)

(***************************************************************************)
(* No resource is given twice: the waits that sem_post() has satisfied     *)
(* never outnumber the resources there are, even when the post raced with  *)
(* the timeout of the thread it would have woken.                          *)
(***************************************************************************)
NoOverdraw ==
    alive => tokens >= Cardinality(SemGranted)

(***************************************************************************)
(* The comment in sem_post(): "If the count is or was negative then a      *)
(* thread is waiting for a resource, otherwise it's safe to just increase  *)
(* the count": when the post wakes nobody, nobody is on the wait queue.    *)
(* It is true until a post comes while a timed-out wait has not backed out *)
(* yet: such a post may find a negative count and an empty queue.          *)
(***************************************************************************)
IncreaseIsSafe ==
    alive /\ ~late /\ ~PostWakes => sem_sched.list[SEM] = <<>>

\* The three together, of a semaphore that starts with Initial resources.
ResourcesExact == Conservation /\ NoOverdraw /\ IncreaseIsSafe

-----------------------------------------------------------------------------

(***************************************************************************)
(* Fairness: woken threads run again, and resources keep being posted.     *)
(***************************************************************************)
SemFairSpec ==
    /\ SemSpec /\ WF_semVars(sem_post)
    /\ \A t \in Thread : WF_semVars(sem_wait_resume(t) \/ sem_timedwait_resume(t))

\* As long as resources keep being posted, every wait ends, unless a post came
\* too late for a wait that timed out.
SemWaitEnds == \A t \in Thread : t \in Waiting ~> t \notin Waiting \/ late

=============================================================================
