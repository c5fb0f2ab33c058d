----------------------------- MODULE DelayedFree -----------------------------
(***************************************************************************)
(* lib/heap/heap_wrapper.c: the list of blocks to be freed later, and who  *)
(* needs it: a detached thread in thread_exit(), kernel/thread.c, which    *)
(* cannot free the stack it runs on.  malloc(), here that of               *)
(* thread_create(), frees the list first.  The heap behind the wrapper is  *)
(* a set of blocks, each large enough for a stack.                         *)
(***************************************************************************)
EXTENDS Naturals, Sequences, SequencesExt, FiniteSets

CONSTANTS
    Thread, Block,
    First,      \* the thread that exists at start, on a static stack
    Cpus,       \* the numbers of cpus: {1}, {2} or both
    NULL

VARIABLES
    cpus,       \* set once
    heap,       \* the free blocks
    delayed_free_list,
    list,       \* the local list of heap_free_delayed_list(), per thread
    pc,         \* where each thread is
    stack       \* the block each thread runs on

vars == <<cpus, heap, delayed_free_list, list, pc, stack>>

Init ==
    /\ cpus \in Cpus
    /\ heap = Block
    /\ delayed_free_list = <<>>
    /\ list = [t \in Thread |-> <<>>]
    /\ pc = [t \in Thread |-> IF t = First THEN "run" ELSE "none"]
    /\ stack = [t \in Thread |-> NULL]

\* thread_exit() holds thread_lock with interrupts off until it has switched
\* away: meanwhile other threads run on other cpus only.
Runs(t) == cpus > 1 \/ \A u \in Thread \ {t} : pc[u] # "exiting"

Goto(t, from, to) ==
    /\ Runs(t)
    /\ pc[t] = from
    /\ pc' = [pc EXCEPT ![t] = to]

-----------------------------------------------------------------------------

\* malloc() looks at the list without its lock.
malloc(t) ==
    /\ Goto(t, "run", IF delayed_free_list = <<>> THEN "alloc" ELSE "drain")
    /\ UNCHANGED <<cpus, heap, delayed_free_list, list, stack>>

\* What is left of the list once it has been moved.
Left == <<>>

\* heap_free_delayed_list(): the whole list is moved under the lock ...
heap_free_delayed_list(t) ==
    /\ Goto(t, "drain", "free")
    /\ list' = [list EXCEPT ![t] = Reverse(delayed_free_list)]
    /\ delayed_free_list' = Left
    /\ UNCHANGED <<cpus, heap, stack>>

\* ... and its blocks are freed without it.
HEAP_FREE(t) ==
    /\ list[t] # <<>>
    /\ Goto(t, "free", "free")
    /\ heap' = heap \cup {Head(list[t])}
    /\ list' = [list EXCEPT ![t] = Tail(@)]
    /\ UNCHANGED <<cpus, delayed_free_list, stack>>

heap_free_delayed_list_end(t) ==
    /\ list[t] = <<>>
    /\ Goto(t, "free", "alloc")
    /\ UNCHANGED <<cpus, heap, delayed_free_list, list, stack>>

\* The block becomes the stack of a new thread u ...
HEAP_MALLOC(t, u, b) ==
    /\ Runs(t)
    /\ pc[t] = "alloc" /\ pc[u] = "none"
    /\ b \in heap
    /\ heap' = heap \ {b}
    /\ stack' = [stack EXCEPT ![u] = b]
    /\ pc' = [pc EXCEPT ![t] = "run", ![u] = "run"]
    /\ UNCHANGED <<cpus, delayed_free_list, list>>

\* ... or there is none.
HEAP_MALLOC_fails(t) ==
    /\ Goto(t, "alloc", "run")
    /\ UNCHANGED <<cpus, heap, delayed_free_list, list, stack>>

-----------------------------------------------------------------------------

\* A detached thread exits, up to the switch: heap_delayed_free() of its stack.
thread_exit(t) ==
    /\ t # First
    /\ Goto(t, "run", "exiting")
    /\ delayed_free_list' = <<stack[t]>> \o delayed_free_list
    /\ UNCHANGED <<cpus, heap, list, stack>>

\* thread_resched() has switched to another thread.
thread_resched(t) ==
    /\ pc[t] = "exiting"
    /\ pc' = [pc EXCEPT ![t] = "none"]
    /\ stack' = [stack EXCEPT ![t] = NULL]
    /\ UNCHANGED <<cpus, heap, delayed_free_list, list>>

Next ==
    \E t \in Thread :
        \/ malloc(t)
        \/ heap_free_delayed_list(t)
        \/ HEAP_FREE(t)
        \/ heap_free_delayed_list_end(t)
        \/ \E u \in Thread, b \in Block : HEAP_MALLOC(t, u, b)
        \/ HEAP_MALLOC_fails(t)
        \/ thread_exit(t)
        \/ thread_resched(t)

Spec == Init /\ [][Next]_vars

-----------------------------------------------------------------------------

\* In how many places a block is: free, waiting to be freed, or in use.
Places(b) ==
    Cardinality({i \in DOMAIN delayed_free_list : delayed_free_list[i] = b})
        + Cardinality({t \in Thread : b \in ToSet(list[t])})
        + Cardinality({t \in Thread : stack[t] = b /\ pc[t] # "exiting"})
        + IF b \in heap THEN 1 ELSE 0

(***************************************************************************)
(* However the callers of malloc() race for the delayed list, which they   *)
(* look at without its lock and free without it, every block is freed once:*)
(* none is lost, none is free while it is waiting to be freed or in use.   *)
(***************************************************************************)
FreedExactlyOnce == \A b \in Block : Places(b) = 1

(***************************************************************************)
(* On one cpu, the stack of an exiting thread is not given away before the *)
(* thread has switched off it.  On two cpus it may be: thread_exit() has   *)
(* put it on the list and still runs on it when another cpu calls malloc().*)
(***************************************************************************)
StackKept ==
    cpus = 1 => \A t \in Thread : pc[t] = "exiting" => stack[t] \in ToSet(delayed_free_list)

=============================================================================
