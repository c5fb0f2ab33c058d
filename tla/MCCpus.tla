-------------------------------- MODULE MCCpus --------------------------------
(***************************************************************************)
(* The scheduler of module Thread on two cpus: the threads, of which one   *)
(* stays unused, change their priority, become real time, exit, and sleep  *)
(* while none is pinned or at priority 0 and no other is real time; or all *)
(* of them block and wake each other, pinned none.                         *)
(***************************************************************************)
EXTENDS Thread, TLC

VARIABLE unused     \* the unused thread, or NULL: the threads block and wake

W == INSTANCE Thread WITH
    Priorities <- {1}, Pins <- {NULL}, Calls <- {"block", "wake_resched", "irq_wake"}

CpusInit == Init /\ unused \in Thread \cup {NULL}

\* While a thread sleeps none is pinned or at priority 0, and no other is real time.
CpusNext ==
    /\ \/ unused # NULL /\ Next /\ state'[unused] = "DEATH"
       \/ unused = NULL /\ W!Next
    /\ UNCHANGED unused
    /\ \A t, u \in Thread : state'[u] = "SLEEPING" =>
        pinned'[t] = NULL /\ priority'[t] # 0 /\ (t \in realtime' => t = u)

all == <<unused, vars>>

CpusSpec == CpusInit /\ [][CpusNext]_all

\* Interchangeable threads.
CpusSymmetry == Permutations(Thread)

-----------------------------------------------------------------------------

(***************************************************************************)
(* kernel/thread.c and kernel/mp.c: where no thread is pinned or sleeps,   *)
(* no cpu idles while a thread is ready, except for as long as it takes    *)
(* the cpu to react to the wake-up by another cpu or by an interrupt.      *)
(***************************************************************************)
NoneIdleWithWork == unused = NULL => WorkConserving
==============================================================================
