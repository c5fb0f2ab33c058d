-------------------------------- MODULE Cond --------------------------------
(***************************************************************************)
(* kernel/cond.c on top of kernel/mutex.c: the condition variable, and the *)
(* monitor it exists for.  Producers set ready with the mutex held and     *)
(* signal, before or after they release; consumers wait for ready with the *)
(* mutex held and reset it.  cond_wait_timeout() releases the mutex, blocks*)
(* on the condition's own queue and takes the mutex again, all of it in    *)
(* critical sections of thread_lock that end only where the thread blocks. *)
(* A thread in cond_wait_timeout() has pc "cond" until it runs again.      *)
(***************************************************************************)
EXTENDS Mutex

CONSTANTS
    Producer,       \* the threads that set ready; the others consume
    CondTimeouts    \* the timeouts consumers pass to cond_wait_timeout()

COND == "cond.wait"

ASSUME ProducerAssumption == Producer \subseteq Thread
ASSUME CondTimeoutsAssumption == CondTimeouts \subseteq Timeout

VARIABLES
    ready,      \* what the monitor protects
    magic,      \* cond->magic; TRUE: COND_MAGIC
    owes        \* the producers that set ready and have not signalled yet

condVars == <<ready, magic, owes>>
allVars == <<vars, condVars>>

Queues == {WAIT, COND}

CondTypeOK ==
    /\ sched \in SchedType(Queues)
    /\ mutex \in MutexType
    /\ pc \in [Thread -> Place \cup {"cond"}]
    /\ ready \in BOOLEAN
    /\ magic \in BOOLEAN
    /\ owes \in SUBSET Producer

CondInit ==
    /\ sched = SchedInit(Queues)
    /\ mutex = MUTEX_INITIAL_VALUE
    /\ pc = [t \in Thread |-> "idle"]
    /\ ready = FALSE
    /\ magic = TRUE
    /\ owes = {}

-----------------------------------------------------------------------------

\* Mutant of cond_wait_timeout: the release reschedules, so that other threads
\* run before the thread is on the queue of the condition.
cond_wait_timeout_Reschedules(t, timeout) ==
    \/ /\ t \notin Producer /\ pc[t] = "held" /\ ~ready
       /\ magic /\ mutex.magic
       /\ mutex_release_internal(sched)
       /\ pc' = [pc EXCEPT ![t] = "preempted"]
       /\ UNCHANGED condVars
    \/ /\ pc[t] = "preempted"
       /\ sched' = wait_queue_block(sched, COND, t, timeout)
       /\ pc' = [pc EXCEPT ![t] = "cond"]
       /\ UNCHANGED <<mutex, condVars>>

(***************************************************************************)
(* cond_wait_timeout() by a consumer that found ready unset, up to where   *)
(* the thread blocks: on the condition, or, when timeout is ZERO, in the   *)
(* mutex if the release has just handed that to another thread.            *)
(***************************************************************************)
cond_wait_timeout(t, timeout) ==
    /\ t \notin Producer /\ pc[t] = "held" /\ ~ready
    /\ magic /\ mutex.magic
    /\ \/ /\ timeout # "ZERO"
          /\ mutex' = [mutex EXCEPT !.holder = NULL, !.count = @ - 1]
          /\ sched' = wait_queue_block(WakeNext(sched), COND, t, timeout)
          /\ pc' = [pc EXCEPT ![t] = "cond"]
       \/ /\ timeout = "ZERO" /\ mutex.count > 1
          /\ mutex' = [mutex EXCEPT !.holder = NULL]
          /\ sched' = wait_queue_block(WakeNext(sched), WAIT, t, "INFINITE")
          /\ pc' = [pc EXCEPT ![t] = "acquire"]
       \/ /\ timeout = "ZERO" /\ mutex.count = 1
          /\ UNCHANGED vars
    /\ UNCHANGED condVars

\* cond_wait_timeout() when the thread runs again: it takes the mutex back.
cond_wait_resume(t) ==
    /\ pc[t] = "cond" /\ Running(t)
    /\ mutex_acquire_timeout_internal(t, wait_queue_block_resume(sched, t), "INFINITE")
    /\ UNCHANGED condVars

\* cond_signal() and cond_broadcast(), by a producer that has set ready.
cond_signal(t) ==
    /\ t \in owes /\ Running(t) /\ magic
    /\ sched' = wait_queue_wake_one(sched, COND, "NO_ERROR")
    /\ owes' = owes \ {t}
    /\ UNCHANGED <<mutex, pc, ready, magic>>

cond_broadcast(t) ==
    /\ t \in owes /\ Running(t) /\ magic
    /\ sched' = wait_queue_wake_all(sched, COND, "NO_ERROR")
    /\ owes' = owes \ {t}
    /\ UNCHANGED <<mutex, pc, ready, magic>>

\* cond_destroy(), by a producer when none has a signal to send.
cond_destroy(t) ==
    /\ t \in Producer /\ pc[t] = "idle" /\ Running(t)
    /\ magic /\ owes = {}
    /\ magic' = FALSE
    /\ sched' = wait_queue_destroy(sched, COND)
    /\ pc' = [pc EXCEPT ![t] = IF sched.list[COND] = <<>> THEN "idle" ELSE "destroy"]
    /\ UNCHANGED <<mutex, ready, owes>>

\* cond_init() of a destroyed condition, once no thread is inside a call on it.
cond_init ==
    /\ ~magic
    /\ \A t \in Thread : pc[t] \notin {"cond", "destroy"}
    /\ magic' = TRUE
    /\ UNCHANGED <<vars, ready, owes>>

\* The clients' steps with the mutex held.
Produce(t) ==
    /\ t \in Producer /\ pc[t] = "held" /\ ~ready /\ magic
    /\ ready' = TRUE
    /\ owes' = owes \cup {t}
    /\ UNCHANGED <<vars, magic>>

Consume(t) ==
    /\ t \notin Producer /\ pc[t] = "held" /\ ready
    /\ ready' = FALSE
    /\ UNCHANGED <<vars, magic, owes>>

\* A producer with a signal to send does not come back for the mutex first, a
\* consumer does not leave with ready set.
Acquire(t, timeout) == t \notin owes /\ mutex_acquire_timeout(t, timeout) /\ UNCHANGED condVars
Release(t) == (t \in Producer \/ ~ready) /\ mutex_release(t) /\ UNCHANGED condVars

CondNext ==
    \/ \E t \in Thread :
        \/ \E timeout \in Timeouts : Acquire(t, timeout)
        \/ mutex_acquire_resume(t) /\ UNCHANGED condVars
        \/ Release(t)
        \/ acquire_timeout(t) /\ UNCHANGED condVars
        \/ wait_queue_destroy_resume(t) /\ UNCHANGED condVars
        \/ \E timeout \in CondTimeouts : cond_wait_timeout(t, timeout)
        \/ cond_wait_resume(t)
        \/ cond_signal(t)
        \/ cond_broadcast(t)
        \/ cond_destroy(t)
        \/ Produce(t)
        \/ Consume(t)
    \/ cond_init

CondSpec == CondInit /\ [][CondNext]_allVars

-----------------------------------------------------------------------------

\* The two queues stay consistent while threads move from one to the other.
CondWaitConsistent == QueuesConsistent(sched, Queues)

(***************************************************************************)
(* The reason for reschedule=false in cond_wait_timeout(): "otherwise ...  *)
(* we could miss wakeups".  A consumer sleeps on the condition while ready *)
(* is set only as long as a signal is still to be sent, or some consumer   *)
(* has been woken or is on its way to the mutex and will see ready.        *)
(***************************************************************************)
NoMissedSignal ==
    magic /\ ready /\ sched.list[COND] # <<>> =>
        \/ owes # {}
        \/ \E t \in Thread \ Producer :
            pc[t] \in {"acquire", "held"} \/ (pc[t] = "cond" /\ Running(t))

-----------------------------------------------------------------------------

\* What a thread does next of its own accord, once it is ready.
Progress(t) ==
    \/ mutex_acquire_resume(t) /\ UNCHANGED condVars
    \/ cond_wait_resume(t)
    \/ cond_signal(t)
    \/ cond_broadcast(t)
    \/ Consume(t)
    \/ Release(t)

\* Fairness: every ready thread runs again and finishes its section.
CondFairSpec == CondSpec /\ \A t \in Thread : WF_allVars(Progress(t))

\* What a producer sets while a consumer sleeps is consumed.
ConsumerServed == ready /\ sched.list[COND] # <<>> ~> ~ready

=============================================================================
