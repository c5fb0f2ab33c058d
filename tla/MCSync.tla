-------------------------------- MODULE MCSync --------------------------------
(***************************************************************************)
(* The blocking primitives and the deferred procedure calls under          *)
(* fairness, one in each behaviour: `part' tells which.  The mutex, the    *)
(* semaphore and the event have the variables of their modules; the        *)
(* monitor, a mutex with a condition, has its own.  The variables of the   *)
(* parts a behaviour does not have keep their first value.                 *)
(***************************************************************************)
EXTENDS Mutex, Semaphore, Event

CONSTANTS
    Waiter,             \* the threads that use the semaphore or the event
    Client, Producer,   \* the threads of the monitor
    Caller, Entry       \* of the deferred procedure calls

VARIABLES
    part,
    mon_sched, mon_mutex, mon_pc, ready, magic, owes,       \* of the monitor
    dpc_list, dpc_list_free, cb, arg, dpc, owner, early, dpc_event, at      \* of Dpc

monVars == <<mon_sched, mon_mutex, mon_pc, ready, magic, owes>>
dpcVars == <<dpc_list, dpc_list_free, cb, arg, dpc, owner, early, dpc_event, at>>
all == <<part, vars, semVars, eventVars, monVars, dpcVars>>

Mon == INSTANCE Cond WITH
    Thread <- Client, sched <- mon_sched, mutex <- mon_mutex, pc <- mon_pc,
    Timeouts <- {"INFINITE"}, CondTimeouts <- Timeout, Destroyer <- "nobody"

Dpcs == INSTANCE Dpc WITH signaled <- dpc_event, pc <- at

SyncInit ==
    /\ part \in {"monitor", "mutex", "semaphore", "event", "dpc"}
    /\ Init /\ SemInit /\ EventInit /\ Mon!CondInit /\ Dpcs!Init
    /\ part # "event" => ~signaled /\ ~autounsignal

\* The steps of each part, which leave the others alone.
InMutex(A) == part = "mutex" /\ A /\ UNCHANGED <<part, semVars, eventVars, monVars, dpcVars>>
InSem(A) ==
    /\ part = "semaphore" /\ A /\ UNCHANGED <<part, vars, eventVars, monVars, dpcVars>>
    /\ \A t \in Thread \ Waiter : sem_pc'[t] = "idle"
InEvent(A) ==
    /\ part = "event" /\ A /\ UNCHANGED <<part, vars, semVars, monVars, dpcVars>>
    /\ \A t \in Thread \ Waiter : event_pc'[t] = "idle"
InMonitor(A) == part = "monitor" /\ A /\ UNCHANGED <<part, vars, semVars, eventVars, dpcVars>>
InDpc(A) == part = "dpc" /\ A /\ UNCHANGED <<part, vars, semVars, eventVars, monVars>>

SyncNext ==
    \/ InMutex(Next) \/ InSem(SemNext) \/ InEvent(EventNext)
    \/ InMonitor(Mon!CondNext) \/ InDpc(Dpcs!Next)

(***************************************************************************)
(* The fairness of each part, as its module has it: ready threads run      *)
(* again, clients end their sections and keep posting and signalling, and  *)
(* the callbacks that the worker calls return.                             *)
(***************************************************************************)
SyncSpec ==
    /\ SyncInit /\ [][SyncNext]_all
    /\ \A t \in Client : WF_all(InMonitor(Mon!Progress(t)))
    /\ \A t \in Thread : WF_all(InMutex(mutex_acquire_resume(t))) /\ WF_all(InMutex(mutex_release(t)))
    /\ WF_all(InSem(sem_post))
    /\ \A t \in Waiter : WF_all(InSem(sem_wait_resume(t) \/ sem_timedwait_resume(t)))
    /\ WF_all(InEvent(event_signal))
    /\ \A t \in Waiter : WF_all(InEvent(event_wait_resume(t)))
    /\ \A t \in Caller : WF_all(InDpc(Dpcs!QueueStep(t)))
    /\ WF_all(InDpc(Dpcs!WorkerStep))

-----------------------------------------------------------------------------

(***************************************************************************)
(* kernel/mutex.c without timed acquisitions: every acquisition ends.  The *)
(* threads are interchangeable, so one stands for all.                     *)
(***************************************************************************)
AcquisitionsEnd ==
    LET t == CHOOSE l \in Thread : TRUE IN pc[t] = "acquire" ~> pc[t] # "acquire"

\* kernel/cond.c: what a producer sets while a consumer sleeps is consumed.
ConsumerServed == Mon!ConsumerServed

(***************************************************************************)
(* lib/dpc/dpc.c: the worker calls each callback with the argument that    *)
(* was queued with it, as long as it takes no entry before its caller has  *)
(* filled it.                                                              *)
(***************************************************************************)
CalledAsQueued == Dpcs!CalledAsQueued

(***************************************************************************)
(* lib/dpc/dpc.c: every entry that dpc_queue() puts on dpc_list is taken   *)
(* by the worker, although the event is signaled outside the lock.  The    *)
(* entries differ in their first place in dpc_list_free only, so that one  *)
(* stands for all.                                                         *)
(***************************************************************************)
QueuedIsCalled ==
    LET e == CHOOSE e \in Entry : TRUE IN e \in Range(dpc_list) ~> dpc[Dpcs!WORKER] = e

(***************************************************************************)
(* The waits for a semaphore and for an event return as long as posts and  *)
(* signals keep coming, the event's although event_unsignal() may withdraw *)
(* any signal that found no waiter; a semaphore's wait is lost only where  *)
(* a post came too late for a wait that timed out.  The waiters are        *)
(* interchangeable.                                                        *)
(***************************************************************************)
WaitEnds ==
    LET t == CHOOSE w \in Waiter : TRUE
    IN  /\ t \in Waiting ~> t \notin Waiting \/ late
        /\ event_pc[t] = "wait" ~> event_pc[t] # "wait"
==============================================================================
