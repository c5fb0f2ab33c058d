----------------------------- MODULE HandOffLock -----------------------------
(***************************************************************************)
(* What kernel/mutex.c promises to threads that wait without a timeout: a  *)
(* lock with one owner, which passes from the owner to the thread that has *)
(* waited longest in the very step of the release, and for which threads   *)
(* wait only while it is owned.  Destroying it sends everybody away.       *)
(***************************************************************************)
EXTENDS Sequences

CONSTANTS Thread, NULL

VARIABLES
    owner,      \* the thread the lock belongs to, or NULL
    waiters     \* the threads that wait for it, first come first

vars == <<owner, waiters>>

Init == owner = NULL /\ waiters = <<>>

Take(t) ==
    /\ owner = NULL /\ waiters = <<>>
    /\ owner' = t
    /\ UNCHANGED waiters

Wait(t) ==
    /\ owner \notin {NULL, t} /\ \A i \in DOMAIN waiters : waiters[i] # t
    /\ waiters' = Append(waiters, t)
    /\ UNCHANGED owner

Free ==
    /\ owner # NULL /\ waiters = <<>>
    /\ owner' = NULL
    /\ UNCHANGED waiters

HandOver ==
    /\ owner # NULL /\ waiters # <<>>
    /\ owner' = Head(waiters)
    /\ waiters' = Tail(waiters)

Destroy ==
    /\ owner' = NULL
    /\ waiters' = <<>>

Next == (\E t \in Thread : Take(t) \/ Wait(t)) \/ Free \/ HandOver \/ Destroy

Spec == Init /\ [][Next]_vars

=============================================================================
