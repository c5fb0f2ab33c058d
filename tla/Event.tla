-------------------------------- MODULE Event --------------------------------
(***************************************************************************)
(* kernel/event.c: the event, signaled until it is unsignaled, or, with    *)
(* EVENT_FLAG_AUTOUNSIGNAL, until it has let one thread through.           *)
(* event_unsignal() stores without taking thread_lock; the store is the    *)
(* only access it makes, so it takes effect between two critical sections  *)
(* or, seen from the threads, before or after the one it overlaps.         *)
(***************************************************************************)
EXTENDS WaitQueue

CONSTANTS
    Flags,         \* the values of flags & EVENT_FLAG_AUTOUNSIGNAL event_init() is given
    EventTimeouts  \* the timeouts threads pass to event_wait_timeout()

EVENT == "event.wait"

\* event_init() is given the flag or not.
ASSUME FlagsAssumption == Flags \subseteq BOOLEAN
ASSUME EventTimeoutsAssumption == EventTimeouts \subseteq Timeout

VARIABLES
    event_sched,   \* the scheduler state, over the one queue of the event
    signaled,      \* e->signaled
    autounsignal,  \* e->flags & EVENT_FLAG_AUTOUNSIGNAL
    event_magic,   \* TRUE: EVENT_MAGIC
    event_pc,      \* "wait": inside wait_queue_block(); "destroy": inside its own
    due            \* history, of an autounsignal event: signals accepted, minus waits
                   \* that succeeded, minus signals withdrawn by event_unsignal()

eventVars == <<event_sched, signaled, autounsignal, event_magic, event_pc, due>>

EventTypeOK ==
    /\ event_sched \in SchedType({EVENT})
    /\ signaled \in BOOLEAN
    /\ autounsignal \in BOOLEAN
    /\ event_magic \in BOOLEAN
    /\ event_pc \in [Thread -> {"idle", "wait", "destroy"}]
    /\ due \in Int

EventInit ==
    /\ event_sched = SchedInit({EVENT})
    /\ signaled \in BOOLEAN
    /\ autounsignal \in Flags
    /\ event_magic = TRUE
    /\ event_pc = [t \in Thread |-> "idle"]
    /\ due = IF autounsignal /\ signaled THEN 1 ELSE 0

EventCalls(t) == event_magic /\ event_pc[t] = "idle" /\ event_sched.state[t] = "READY"

Due(change) == due' = IF autounsignal THEN due + change ELSE due

-----------------------------------------------------------------------------

\* signaled after a thread fell through.
PassThrough == ~autounsignal

event_wait_timeout(t, timeout) ==
    /\ EventCalls(t)
    /\ \/ /\ signaled
          /\ signaled' = PassThrough
          /\ Due(-1)
          /\ UNCHANGED <<event_sched, event_pc>>
       \/ /\ ~signaled /\ timeout = "ZERO"
          /\ UNCHANGED <<event_sched, signaled, event_pc, due>>
       \/ /\ ~signaled /\ timeout # "ZERO"
          /\ event_sched' = wait_queue_block(event_sched, EVENT, t, timeout)
          /\ event_pc' = [event_pc EXCEPT ![t] = "wait"]
          /\ UNCHANGED <<signaled, due>>
    /\ UNCHANGED <<autounsignal, event_magic>>

event_wait_resume(t) ==
    /\ event_pc[t] = "wait" /\ event_sched.state[t] = "READY"
    /\ event_sched' = wait_queue_block_resume(event_sched, t)
    /\ Due(IF event_sched.wait_queue_block_ret[t] = "NO_ERROR" THEN -1 ELSE 0)
    /\ event_pc' = [event_pc EXCEPT ![t] = "idle"]
    /\ UNCHANGED <<signaled, autounsignal, event_magic>>

\* Mutant of StaysSignaled: the signal that woke nobody is forgotten.
StaysSignaled_Never == ~autounsignal

\* signaled after event_signal(): an autounsignal event remembers the signal
\* only if wait_queue_wake_one() found no thread.
StaysSignaled == autounsignal => event_sched.list[EVENT] = <<>>

\* Whom event_signal() releases.
EventRelease(s) ==
    IF autounsignal THEN wait_queue_wake_one(s, EVENT, "NO_ERROR")
    ELSE wait_queue_wake_all(s, EVENT, "NO_ERROR")

\* event_signal(), called by a thread or from interrupt context.
event_signal ==
    /\ event_magic
    /\ \/ /\ signaled
          /\ UNCHANGED <<event_sched, signaled, due>>
       \/ /\ ~signaled
          /\ signaled' = StaysSignaled
          /\ event_sched' = EventRelease(event_sched)
          /\ Due(1)
    /\ UNCHANGED <<autounsignal, event_magic, event_pc>>

event_unsignal ==
    /\ event_magic
    /\ signaled' = FALSE
    /\ Due(IF signaled THEN -1 ELSE 0)
    /\ UNCHANGED <<event_sched, autounsignal, event_magic, event_pc>>

event_timeout(t) ==
    /\ t \in event_sched.timer
    /\ event_sched' = wait_queue_timeout_handler(event_sched, t)
    /\ UNCHANGED <<signaled, autounsignal, event_magic, event_pc, due>>

event_destroy(t) ==
    /\ EventCalls(t)
    /\ event_magic' = FALSE
    /\ signaled' = FALSE
    /\ event_sched' = wait_queue_destroy(event_sched, EVENT)
    /\ event_pc' = [event_pc EXCEPT ![t] = IF event_sched.list[EVENT] = <<>> THEN "idle" ELSE "destroy"]
    /\ UNCHANGED <<autounsignal, due>>

event_destroy_resume(t) ==
    /\ event_pc[t] = "destroy"
    /\ event_pc' = [event_pc EXCEPT ![t] = "idle"]
    /\ UNCHANGED <<event_sched, signaled, autounsignal, event_magic, due>>

\* event_init() of a destroyed event, once no thread is inside a call on it.
event_init ==
    /\ ~event_magic
    /\ \A t \in Thread : event_pc[t] = "idle"
    /\ event_magic' = TRUE
    /\ signaled' \in BOOLEAN
    /\ autounsignal' \in Flags
    /\ due' = IF autounsignal' /\ signaled' THEN 1 ELSE 0
    /\ UNCHANGED <<event_sched, event_pc>>

EventNext ==
    \/ \E t \in Thread :
        \/ \E timeout \in EventTimeouts : event_wait_timeout(t, timeout)
        \/ event_wait_resume(t)
        \/ event_timeout(t)
        \/ event_destroy(t)
        \/ event_destroy_resume(t)
    \/ event_signal
    \/ event_unsignal
    \/ event_init

EventSpec == EventInit /\ [][EventNext]_eventVars

-----------------------------------------------------------------------------

\* The threads event_signal() has released and that have not returned yet.
EventGranted ==
    {t \in Thread : /\ event_pc[t] = "wait" /\ event_sched.state[t] = "READY"
                    /\ event_sched.wait_queue_block_ret[t] = "NO_ERROR"}

\* A signaled event holds nobody back: its wait queue is empty.
SignaledHoldsNobody ==
    event_magic /\ signaled => event_sched.list[EVENT] = <<>>

(***************************************************************************)
(* One signal, one thread: every signal an autounsignal event accepted is  *)
(* either remembered in signaled or carried by exactly one released thread.*)
(* No signal is spent on a wait that timed out, and none is counted twice. *)
(***************************************************************************)
SignalNotLost ==
    event_magic /\ autounsignal => due = Cardinality(EventGranted) + (IF signaled THEN 1 ELSE 0)

\* Both: the signals of the event are exact.
SignalsExact == SignaledHoldsNobody /\ SignalNotLost

(***************************************************************************)
(* A release is final: once event_signal() has woken a thread, its wait    *)
(* succeeds even if its timer expires, event_unsignal() is called or the   *)
(* event is destroyed before the thread runs.                              *)
(***************************************************************************)
ReleaseIsFinal ==
    [][\A t \in EventGranted : t \in EventGranted' \/ event_pc'[t] = "idle"]_eventVars

-----------------------------------------------------------------------------

\* Fairness: released threads run again, and the event keeps being signaled.
EventFairSpec ==
    EventSpec /\ WF_eventVars(event_signal) /\ \A t \in Thread : WF_eventVars(event_wait_resume(t))

(***************************************************************************)
(* Every wait ends if the event keeps being signaled, even though          *)
(* event_unsignal() may withdraw any signal that found no waiter.          *)
(***************************************************************************)
EventWaitEnds == \A t \in Thread : event_pc[t] = "wait" ~> event_pc[t] # "wait"

=============================================================================
