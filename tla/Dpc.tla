--------------------------------- MODULE Dpc ---------------------------------
(***************************************************************************)
(* lib/dpc/dpc.c: work queued by threads and interrupt handlers and done   *)
(* by one thread, with the preallocated entries that are the default.      *)
(* dpc_queue() holds dpc_lock only while it moves an entry between lists:  *)
(* it fills the entry and signals the worker afterwards, and other         *)
(* callers and the worker may run between any two of these steps.  Only    *)
(* the worker waits for dpc_event and unsignals it, so event_wait() is the *)
(* condition that it is signaled.                                          *)
(***************************************************************************)
EXTENDS Sequences, SequencesExt, FiniteSets

CONSTANTS
    Caller,     \* threads and interrupt handlers that call dpc_queue(); what a
                \* caller queues is the callback and the argument named after it
    Entry,      \* dpc_irqs
    NULL

VARIABLES
    dpc_list, dpc_list_free,    \* sequences of entries
    cb, arg,    \* the fields of every entry
    signaled,   \* dpc_event
    pc, dpc,    \* where each caller and the worker are, and with which entry
    owner,      \* history: the caller an entry was last queued for
    early       \* history: the worker took an entry that was not filled

vars == <<dpc_list, dpc_list_free, cb, arg, signaled, pc, dpc, owner, early>>

WORKER == "dpc_thread"
Actor == Caller \cup {WORKER}

Init ==
    /\ dpc_list = <<>>
    /\ dpc_list_free = SetToSeq(Entry)
    /\ cb = [e \in Entry |-> NULL]
    /\ arg = [e \in Entry |-> NULL]
    /\ signaled = FALSE
    /\ pc = [a \in Actor |-> IF a = WORKER THEN "wait" ELSE "idle"]
    /\ dpc = [a \in Actor |-> NULL]
    /\ owner = [e \in Entry |-> NULL]
    /\ early = FALSE

Goto(a, from, to) == pc[a] = from /\ pc' = [pc EXCEPT ![a] = to]

-----------------------------------------------------------------------------

\* Mutant of Unlinked: the entry is not removed from the free list.
Unlinked_Peek(free) == free

Unlinked(free) == Tail(free)

\* dpc_queue(), up to the unlock; without a free entry it fails.
dpc_queue(c) ==
    /\ Goto(c, "idle", "cb")
    /\ dpc_list_free # <<>>
    /\ dpc' = [dpc EXCEPT ![c] = Head(dpc_list_free)]
    /\ dpc_list_free' = Unlinked(dpc_list_free)
    /\ dpc_list' = Append(dpc_list, Head(dpc_list_free))
    /\ owner' = [owner EXCEPT ![Head(dpc_list_free)] = c]
    /\ UNCHANGED <<cb, arg, signaled, early>>

dpc_queue_cb(c) ==
    /\ Goto(c, "cb", "arg")
    /\ cb' = [cb EXCEPT ![dpc[c]] = c]
    /\ UNCHANGED <<dpc_list, dpc_list_free, arg, signaled, dpc, owner, early>>

dpc_queue_arg(c) ==
    /\ Goto(c, "arg", "signal")
    /\ arg' = [arg EXCEPT ![dpc[c]] = c]
    /\ UNCHANGED <<dpc_list, dpc_list_free, cb, signaled, dpc, owner, early>>

dpc_queue_signal(c) ==
    /\ Goto(c, "signal", "idle")
    /\ signaled' = TRUE
    /\ dpc' = [dpc EXCEPT ![c] = NULL]
    /\ UNCHANGED <<dpc_list, dpc_list_free, cb, arg, owner, early>>

-----------------------------------------------------------------------------

\* Mutant of Unsignal: with every entry, as if the event counted them.
Unsignal_Always == TRUE

\* The worker unsignals the event when, under the lock, it finds no entry.
Unsignal == dpc_list = <<>>

event_wait ==
    /\ Goto(WORKER, "wait", "take")
    /\ signaled
    /\ UNCHANGED <<dpc_list, dpc_list_free, cb, arg, signaled, dpc, owner, early>>

\* The critical section of dpc_thread_routine().
dpc_thread_take ==
    /\ Goto(WORKER, "take", IF dpc_list = <<>> THEN "wait" ELSE "call")
    /\ signaled' = IF Unsignal THEN FALSE ELSE signaled
    /\ \/ /\ dpc_list = <<>>
          /\ UNCHANGED <<dpc_list, dpc, early>>
       \/ /\ dpc_list # <<>>
          /\ dpc' = [dpc EXCEPT ![WORKER] = Head(dpc_list)]
          /\ dpc_list' = Tail(dpc_list)
          /\ early' = (early \/ \E c \in Caller : pc[c] \in {"cb", "arg"} /\ dpc[c] = Head(dpc_list))
    /\ UNCHANGED <<dpc_list_free, cb, arg, owner>>

\* The callback returns and the entry is put back.
dpc_thread_call ==
    /\ Goto(WORKER, "call", "wait")
    /\ dpc_list_free' = Append(dpc_list_free, dpc[WORKER])
    /\ dpc' = [dpc EXCEPT ![WORKER] = NULL]
    /\ UNCHANGED <<dpc_list, cb, arg, signaled, owner, early>>

Next ==
    \/ \E c \in Caller : dpc_queue(c) \/ dpc_queue_cb(c) \/ dpc_queue_arg(c) \/ dpc_queue_signal(c)
    \/ event_wait
    \/ dpc_thread_take
    \/ dpc_thread_call

Spec == Init /\ [][Next]_vars

\* Fairness: a caller that has taken an entry goes on, the worker runs when it
\* can, and callbacks return.
QueueStep(c) == dpc_queue_cb(c) \/ dpc_queue_arg(c) \/ dpc_queue_signal(c)
WorkerStep == event_wait \/ dpc_thread_take \/ dpc_thread_call

FairSpec == Spec /\ (\A c \in Caller : WF_vars(QueueStep(c))) /\ WF_vars(WorkerStep)

-----------------------------------------------------------------------------

(***************************************************************************)
(* The worker calls what was queued with the argument that was queued with *)
(* it, as long as it never takes an entry before its caller has filled it. *)
(* Once it does, dpc_queue() may fill an entry that has gone to another    *)
(* caller by then.                                                         *)
(***************************************************************************)
CalledAsQueued ==
    pc[WORKER] = "call" /\ ~early =>
        cb[dpc[WORKER]] = owner[dpc[WORKER]] /\ arg[dpc[WORKER]] = owner[dpc[WORKER]]

(***************************************************************************)
(* Nothing queued is forgotten: the event, which is signaled after the     *)
(* unlock and unsignaled under the lock, never leaves the worker asleep    *)
(* with an entry in dpc_list whose caller has returned.                    *)
(***************************************************************************)
QueuedIsCalled ==
    \A e \in Entry : e \in ToSet(dpc_list) ~> dpc[WORKER] = e

(***************************************************************************)
(* CalledAsQueued without its condition, which does not hold: an entry is  *)
(* in dpc_list before dpc_queue() fills it.                                *)
(***************************************************************************)
AlwaysCalledAsQueued ==
    pc[WORKER] = "call" =>
        cb[dpc[WORKER]] = owner[dpc[WORKER]] /\ arg[dpc[WORKER]] = owner[dpc[WORKER]]

=============================================================================
