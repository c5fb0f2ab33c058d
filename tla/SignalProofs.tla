---------------------------- MODULE SignalProofs ----------------------------
(***************************************************************************)
(* The semaphore accounts for every resource, for any number of threads,   *)
(* any initial count, any timeouts and any use of sem_destroy(); the event *)
(* loses no signal and spends none twice, for both kinds of event and any  *)
(* use of event_unsignal() and event_destroy().                            *)
(***************************************************************************)
EXTENDS Semaphore, Event, WaitQueueProofs, FiniteSetTheorems

\* Only a thread inside a wait is blocked.
SemBlockedInside == \A t \in Thread : sem_sched.state[t] = "BLOCKED" => sem_pc[t] \in {"wait", "timedwait"}

\* Only a timed wait has a timer armed.
SemTimerInside == \A t \in Thread : t \in sem_sched.timer => sem_pc[t] = "timedwait"

\* Only sem_destroy() makes a wait fail other than by timeout, and sem_wait(),
\* which does not back out, is never timed out.
StatusInside ==
    alive => \A t \in Thread :
        /\ sem_pc[t] = "wait" => sem_sched.wait_queue_block_ret[t] = "NO_ERROR"
        /\ sem_pc[t] = "timedwait" => sem_sched.wait_queue_block_ret[t] \in {"NO_ERROR", "ERR_TIMED_OUT"}

(***************************************************************************)
(* What makes IncreaseIsSafe inductive: until a post comes too late, every *)
(* resource is either free, and then count says how many there are, or has *)
(* been granted to a thread that has not run yet.                          *)
(***************************************************************************)
FreeOrGranted ==
    alive /\ ~late => tokens = Cardinality(SemGranted) + (IF count > 0 THEN count ELSE 0)

SInv ==
    /\ SemTypeOK
    /\ QueuesConsistent(sem_sched, {SEM})
    /\ SemBlockedInside
    /\ SemTimerInside
    /\ StatusInside
    /\ Conservation
    /\ NoOverdraw
    /\ FreeOrGranted

LEMMA SemNotNull == NULL \notin {SEM}
BY NULLAssumption DEF SEM

\* The waits are finitely many, and the granted ones are among them.
LEMMA SemWaits ==
    /\ IsFiniteSet(Waiting) /\ IsFiniteSet(SemGranted)
    /\ Cardinality(Waiting) \in Nat /\ Cardinality(SemGranted) \in Nat
    /\ SemGranted \subseteq Waiting
    /\ Cardinality(SemGranted) <= Cardinality(Waiting)
    /\ Cardinality(SemGranted) = Cardinality(Waiting) => SemGranted = Waiting
<1>1. IsFiniteSet(Waiting)
  BY ThreadAssumption, FS_Subset DEF Waiting
<1>2. SemGranted \subseteq Waiting
  BY DEF SemGranted
<1>3. QED BY <1>1, <1>2, FS_Subset, FS_CardinalityType

\* What SInv says of the scheduler record, as the wait queue lemmas need it.
LEMMA SemParts ==
    ASSUME SInv
    PROVE  /\ Sound(sem_sched, {SEM})
           /\ sem_sched.state \in [Thread -> {"READY", "BLOCKED"}]
           /\ sem_sched.wait_queue_block_ret \in [Thread -> Status]
           /\ sem_pc \in [Thread -> {"idle", "wait", "timedwait", "destroy"}]
           /\ count \in Int /\ tokens \in Int
<1>1. Sound(sem_sched, {SEM})
  BY DEF SInv, SemTypeOK, Sound
<1>2. QED BY <1>1, SoundFields DEF SInv, SemTypeOK

LEMMA InitSInv == SemInit => SInv
<1> SUFFICES ASSUME SemInit PROVE SInv
  OBVIOUS
<1>1. Sound(sem_sched, {SEM})
  BY SchedInitSound, SemNotNull DEF SemInit
<1>2. sem_sched.state = [t \in Thread |-> "READY"] /\ sem_sched.wait_queue_block_ret = [t \in Thread |-> "NO_ERROR"]
  BY DEF SemInit, SchedInit
<1>3. Waiting = {} /\ SemGranted = {}
  BY DEF SemInit, Waiting, SemGranted
<1>4. Conservation /\ NoOverdraw /\ FreeOrGranted
  BY <1>3, FS_EmptySet, InitialAssumption DEF SemInit, Conservation, NoOverdraw, FreeOrGranted
<1>5. SemBlockedInside /\ SemTimerInside /\ StatusInside
  BY <1>2 DEF SemInit, SchedInit, SemBlockedInside, SemTimerInside, StatusInside
<1>6. SemTypeOK /\ QueuesConsistent(sem_sched, {SEM})
  <2>1. alive \in BOOLEAN /\ late \in BOOLEAN
    BY ZenonT(30) DEF SemInit
  <2>2. QED BY <1>1, <2>1, InitialAssumption DEF SemInit, SemTypeOK, Sound
<1>7. QED BY <1>4, <1>5, <1>6 DEF SInv

\* A step that leaves the scheduler record and the threads' places alone.
LEMMA QuietSInv ==
    ASSUME SInv, UNCHANGED <<sem_sched, sem_pc, alive, late>>, count' \in Int, tokens' \in Int,
           alive => tokens' - count' = tokens - count,
           alive => tokens' >= Cardinality(SemGranted),
           alive /\ ~late => tokens' = Cardinality(SemGranted) + (IF count' > 0 THEN count' ELSE 0)
    PROVE  SInv'
<1>1. Waiting' = Waiting /\ SemGranted' = SemGranted
  BY DEF Waiting, SemGranted
<1>2. Conservation' /\ NoOverdraw' /\ FreeOrGranted'
  BY <1>1, SemWaits, SemParts DEF SInv, Conservation, NoOverdraw, FreeOrGranted
<1>3. QED BY <1>2 DEF SInv, SemTypeOK, SemBlockedInside, SemTimerInside, StatusInside, QueuesConsistent, On

\* A resource that is free is taken: sem_timedwait() or sem_trywait() succeeds.
LEMMA TakenSInv ==
    ASSUME SInv, alive, count > 0, count' = count - 1, tokens' = tokens - 1,
           UNCHANGED <<sem_sched, sem_pc, alive, late>>
    PROVE  SInv'
<1>1. count \in Int /\ tokens \in Int /\ tokens = count + Cardinality(Waiting)
  BY SemParts DEF SInv, Conservation
<1>2. ~late => tokens = Cardinality(SemGranted) + count
  BY <1>1 DEF SInv, FreeOrGranted
<1>3. QED BY <1>1, <1>2, SemWaits, QuietSInv

\* No resource is free: the thread blocks.
LEMMA BlocksSInv ==
    ASSUME SInv, NEW t \in Thread, NEW timeout, NEW call \in {"wait", "timedwait"},
           call = "wait" => timeout = "INFINITE",
           alive, sem_pc[t] = "idle", sem_sched.state[t] = "READY", count <= 0,
           count' = count - 1, sem_sched' = wait_queue_block(sem_sched, SEM, t, timeout),
           sem_pc' = [sem_pc EXCEPT ![t] = call], UNCHANGED <<alive, late, tokens>>
    PROVE  SInv'
<1>0. /\ Sound(sem_sched', {SEM})
      /\ sem_sched'.timer = IF timeout = "INFINITE" THEN sem_sched.timer ELSE sem_sched.timer \cup {t}
      /\ \A u \in Thread :
            /\ sem_sched'.state[u] = IF u = t THEN "BLOCKED" ELSE sem_sched.state[u]
            /\ sem_sched'.wait_queue_block_ret[u] = IF u = t THEN "NO_ERROR" ELSE sem_sched.wait_queue_block_ret[u]
  <2>1. Sound(sem_sched, {SEM}) /\ SEM \in {SEM}
    BY SemParts
  <2>2. Sound(sem_sched', {SEM}) /\ BlockedOn(sem_sched, sem_sched', {SEM}, SEM, t)
    BY <2>1, SemNotNull, BlockEffect
  <2>3. sem_sched'.timer = IF timeout = "INFINITE" THEN sem_sched.timer ELSE sem_sched.timer \cup {t}
    BY DEF wait_queue_block
  <2>4. QED BY <2>2, <2>3 DEF BlockedOn
<1>1. Waiting' = Waiting \cup {t} /\ t \notin Waiting /\ SemGranted' = SemGranted
  BY <1>0, SemParts DEF Waiting, SemGranted
<1>2. Cardinality(Waiting') = Cardinality(Waiting) + 1 /\ Cardinality(SemGranted') = Cardinality(SemGranted)
  BY <1>1, SemWaits, FS_AddElement, ZenonT(30)
<1>3. Conservation' /\ NoOverdraw' /\ FreeOrGranted'
  BY <1>2, SemWaits, SemParts DEF SInv, Conservation, NoOverdraw, FreeOrGranted
<1>4. SemBlockedInside' /\ SemTimerInside' /\ StatusInside'
  BY <1>0, SemParts DEF SInv, SemBlockedInside, SemTimerInside, StatusInside
<1>5. SemTypeOK' /\ QueuesConsistent(sem_sched, {SEM})'
  BY <1>0, SemParts DEF SInv, SemTypeOK, Sound
<1>6. QED BY <1>3, <1>4, <1>5 DEF SInv

LEMMA TakeOrBlockSInv ==
    ASSUME SInv, NEW t \in Thread, NEW timeout, NEW call \in {"wait", "timedwait"},
           call = "wait" => timeout = "INFINITE", TakeOrBlock(t, timeout, call)
    PROVE  SInv'
<1>0. /\ alive /\ sem_pc[t] = "idle" /\ sem_sched.state[t] = "READY" /\ count \in Int
      /\ count' = count - 1 /\ UNCHANGED <<alive, late>>
  BY SemParts DEF TakeOrBlock, SemCalls
<1>1. CASE ~NoResource
  <2>1. count > 0 /\ tokens' = tokens - 1 /\ UNCHANGED <<sem_sched, sem_pc>>
    BY <1>0, <1>1 DEF TakeOrBlock, NoResource
  <2>2. QED BY <1>0, <2>1, TakenSInv
<1>2. CASE NoResource
  <2>1. /\ sem_sched' = wait_queue_block(sem_sched, SEM, t, timeout)
        /\ sem_pc' = [sem_pc EXCEPT ![t] = call] /\ tokens' = tokens
    BY <1>2 DEF TakeOrBlock
  <2>2. count <= 0
    BY <1>0, <1>2 DEF NoResource
  <2>3. QED BY <1>0, <2>1, <2>2, BlocksSInv, ZenonT(30)
<1>3. QED BY <1>1, <1>2

LEMMA StutterSInv == SInv /\ UNCHANGED semVars => SInv'
BY DEF semVars, SInv, SemTypeOK, QueuesConsistent, On, SemBlockedInside, SemTimerInside, StatusInside,
       Conservation, NoOverdraw, FreeOrGranted, Waiting, SemGranted

LEMMA WaitSInv ==
    ASSUME SInv, NEW t \in Thread, sem_wait(t)
    PROVE  SInv'
BY TakeOrBlockSInv DEF sem_wait

LEMMA TimedWaitSInv ==
    ASSUME SInv, NEW t \in Thread, NEW timeout, sem_timedwait(t, timeout)
    PROVE  SInv'
<1>1. CASE TakeOrBlock(t, timeout, "timedwait")
  BY <1>1, TakeOrBlockSInv
<1>2. CASE UNCHANGED semVars
  BY <1>2, StutterSInv
<1>3. QED BY <1>1, <1>2 DEF sem_timedwait

LEMMA TryWaitSInv ==
    ASSUME SInv, NEW t \in Thread, sem_trywait(t)
    PROVE  SInv'
<1>1. alive /\ count > 0
  BY SemParts DEF sem_trywait, SemCalls
<1>2. QED BY <1>1, TakenSInv DEF sem_trywait

\* A woken thread runs again: a granted resource is spent, a timed-out wait
\* backs out, and a destroyed semaphore is none of its business any more.
LEMMA ResumeSInv ==
    ASSUME SInv, NEW t \in Thread, NEW call \in {"wait", "timedwait"}, Unblocked(t, call),
           count' = IF call = "wait" THEN count ELSE BackOut(sem_sched.wait_queue_block_ret[t])
    PROVE  SInv'
<1>0. /\ sem_pc[t] = call /\ sem_sched.state[t] = "READY"
      /\ sem_sched' = wait_queue_block_resume(sem_sched, t)
      /\ sem_pc' = [sem_pc EXCEPT ![t] = "idle"] /\ alive' = alive /\ late' = late
      /\ tokens' = IF sem_sched.wait_queue_block_ret[t] = "NO_ERROR" THEN tokens - 1 ELSE tokens
  BY DEF Unblocked
<1>1. /\ Sound(sem_sched', {SEM})
      /\ sem_sched'.state = sem_sched.state /\ sem_sched'.wait_queue_block_ret = sem_sched.wait_queue_block_ret
      /\ sem_sched'.timer = sem_sched.timer \ {t}
  BY <1>0, SemParts, ResumeEffect
<1>2. /\ Waiting' = Waiting \ {t} /\ t \in Waiting /\ SemGranted' = SemGranted \ {t}
      /\ t \in SemGranted <=> sem_sched.wait_queue_block_ret[t] = "NO_ERROR"
  BY <1>0, <1>1, SemParts DEF Waiting, SemGranted
<1>3. /\ Cardinality(Waiting') = Cardinality(Waiting) - 1
      /\ Cardinality(SemGranted') = IF t \in SemGranted THEN Cardinality(SemGranted) - 1 ELSE Cardinality(SemGranted)
  BY <1>2, SemWaits, FS_RemoveElement, ZenonT(30)
<1>4. Conservation' /\ NoOverdraw' /\ FreeOrGranted'
  <2>1. CASE ~alive
    BY <1>0, <2>1 DEF Conservation, NoOverdraw, FreeOrGranted
  <2>2. CASE alive /\ t \in SemGranted
    <3>1. count' = count /\ tokens' = tokens - 1
      BY <1>0, <1>2, <2>2 DEF BackOut
    <3>2. QED BY <1>0, <1>3, <2>2, <3>1, SemWaits, SemParts DEF SInv, Conservation, NoOverdraw, FreeOrGranted
  <2>3. CASE alive /\ t \notin SemGranted
    <3>1. count' = count + 1 /\ tokens' = tokens
      BY <1>0, <1>2, <2>3 DEF SInv, StatusInside, BackOut
    <3>2. Cardinality(SemGranted) < Cardinality(Waiting)
      BY <1>2, <2>3, SemWaits
    <3>3. ~late => count < 0
      BY <2>3, <3>2, SemWaits, SemParts DEF SInv, Conservation, FreeOrGranted
    <3>4. QED BY <1>0, <1>3, <2>3, <3>1, <3>3, SemWaits, SemParts DEF SInv, Conservation, NoOverdraw, FreeOrGranted
  <2>4. QED BY <2>1, <2>2, <2>3
<1>5. SemBlockedInside' /\ SemTimerInside' /\ StatusInside'
  BY <1>0, <1>1, SemParts DEF SInv, SemBlockedInside, SemTimerInside, StatusInside
<1>6. count' \in Int /\ tokens' \in Int
  <2>1. BackOut(sem_sched.wait_queue_block_ret[t]) \in Int
    BY SemParts DEF BackOut
  <2>2. QED BY <1>0, <2>1, SemParts
<1>7. SemTypeOK' /\ QueuesConsistent(sem_sched, {SEM})'
  BY <1>0, <1>1, <1>6, SemParts DEF SInv, SemTypeOK, Sound
<1>8. QED BY <1>4, <1>5, <1>7 DEF SInv

\* Until a post comes too late, a negative count means that a thread is on the queue.
LEMMA NegativeMeansQueued ==
    ASSUME SInv, alive, ~late, TimedOut = {}, count < 0
    PROVE  sem_sched.list[SEM] # <<>>
<1>1. Cardinality(SemGranted) < Cardinality(Waiting)
  BY SemWaits, SemParts DEF SInv, Conservation, FreeOrGranted
<1>2. PICK t \in Waiting : t \notin SemGranted
  <2>1. SemGranted # Waiting /\ SemGranted \subseteq Waiting
    BY <1>1, SemWaits
  <2>2. QED BY <2>1
<1>3. t \in Thread /\ sem_sched.state[t] = "BLOCKED"
  BY <1>2, SemParts DEF SInv, StatusInside, TimedOut, Waiting, SemGranted
<1>4. sem_sched.blocking_wait_queue[t] = SEM
  BY <1>3, SemParts, SoundFields
<1>5. t \in Range(sem_sched.list[SEM])
  BY <1>3, <1>4, SemParts, SoundFields
<1>6. Range(<<>>) = {}
  BY DEF Range
<1>7. QED BY <1>5, <1>6

LEMMA PostSInv ==
    ASSUME SInv, sem_post
    PROVE  SInv'
<1>0. /\ alive /\ alive' = alive /\ sem_pc' = sem_pc /\ count' = count + 1 /\ tokens' = tokens + 1
      /\ late' = (late \/ TimedOut # {})
      /\ sem_sched' = IF PostWakes THEN wait_queue_wake_one(sem_sched, SEM, "NO_ERROR") ELSE sem_sched
      /\ count \in Int /\ tokens \in Int
  BY SemParts DEF sem_post
<1>1. /\ Sound(sem_sched', {SEM})
      /\ sem_sched'.timer = sem_sched.timer
      /\ \/ sem_sched' = sem_sched /\ (sem_sched.list[SEM] = <<>> \/ ~PostWakes)
         \/ PostWakes /\ \E h \in Thread :
                /\ sem_sched.state[h] = "BLOCKED"
                /\ \A u \in Thread :
                    /\ sem_sched'.state[u] = IF u = h THEN "READY" ELSE sem_sched.state[u]
                    /\ sem_sched'.wait_queue_block_ret[u] = IF u = h THEN "NO_ERROR" ELSE sem_sched.wait_queue_block_ret[u]
  <2>1. CASE ~PostWakes
    BY <1>0, <2>1, SemParts
  <2>2. CASE PostWakes
    <3>1. sem_sched' = wait_queue_wake_one(sem_sched, SEM, "NO_ERROR") /\ Sound(sem_sched, {SEM}) /\ "NO_ERROR" \in Status
      BY <1>0, <2>2, SemParts DEF Status
    <3>2. CASE sem_sched.list[SEM] = <<>>
      <4>1. sem_sched' = sem_sched
        BY <3>1, <3>2 DEF wait_queue_wake_one
      <4>2. QED BY <3>1, <3>2, <4>1
    <3>3. CASE sem_sched.list[SEM] # <<>>
      <4>1. Sound(sem_sched', {SEM})
        BY <3>1, SemNotNull, WakeOneSound
      <4>2. WokeOne(sem_sched, sem_sched', {SEM}, SEM, "NO_ERROR")
        BY <3>1, SemNotNull, WakeOneEffect
      <4>3. QED BY <2>2, <3>3, <4>1, <4>2 DEF WokeOne, Woken
    <3>4. QED BY <3>2, <3>3
  <2>3. QED BY <2>1, <2>2
<1>2. /\ Waiting' = Waiting
      /\ \/ SemGranted' = SemGranted /\ (sem_sched.list[SEM] = <<>> \/ ~PostWakes)
         \/ PostWakes /\ \E h : h \notin SemGranted /\ SemGranted' = SemGranted \cup {h}
  <2>1. Waiting' = Waiting
    BY <1>0 DEF Waiting
  <2>2. CASE sem_sched' = sem_sched /\ (sem_sched.list[SEM] = <<>> \/ ~PostWakes)
    BY <1>0, <2>1, <2>2 DEF SemGranted
  <2>3. ASSUME PostWakes, NEW h \in Thread, sem_sched.state[h] = "BLOCKED",
               \A u \in Thread :
                    /\ sem_sched'.state[u] = IF u = h THEN "READY" ELSE sem_sched.state[u]
                    /\ sem_sched'.wait_queue_block_ret[u] = IF u = h THEN "NO_ERROR" ELSE sem_sched.wait_queue_block_ret[u]
        PROVE  h \notin SemGranted /\ SemGranted' = SemGranted \cup {h}
    <3>1. h \notin SemGranted
      BY <2>3 DEF SemGranted
    <3>2. h \in Waiting
      BY <2>3 DEF SInv, SemBlockedInside, Waiting
    <3>3. QED BY <2>1, <2>3, <3>1, <3>2 DEF SemGranted, Waiting
  <2>4. QED BY <1>1, <2>1, <2>2, <2>3
<1>3. Cardinality(SemGranted') \in {Cardinality(SemGranted), Cardinality(SemGranted) + 1}
  BY <1>2, SemWaits, FS_AddElement
<1>4. Conservation' /\ NoOverdraw'
  BY <1>0, <1>2, <1>3, SemWaits DEF SInv, Conservation, NoOverdraw
<1>5. FreeOrGranted'
  <2> SUFFICES ASSUME ~late, TimedOut = {}
               PROVE  tokens' = Cardinality(SemGranted') + (IF count' > 0 THEN count' ELSE 0)
    BY <1>0, ZenonT(30) DEF FreeOrGranted
  <2>1. CASE count < 0
    <3>1. PostWakes /\ sem_sched.list[SEM] # <<>>
      BY <1>0, <2>1, NegativeMeansQueued DEF PostWakes
    <3>2. Cardinality(SemGranted') = Cardinality(SemGranted) + 1
      BY <1>2, <3>1, SemWaits, FS_AddElement
    <3>3. QED BY <1>0, <2>1, <3>2, SemWaits DEF SInv, FreeOrGranted
  <2>2. CASE ~(count < 0)
    <3>1. SemGranted' = SemGranted
      BY <1>0, <1>2, <2>2 DEF PostWakes
    <3>2. QED BY <1>0, <2>2, <3>1, SemWaits DEF SInv, FreeOrGranted
  <2>3. QED BY <2>1, <2>2
<1>6. SemBlockedInside' /\ SemTimerInside' /\ StatusInside'
  BY <1>0, <1>1 DEF SInv, SemBlockedInside, SemTimerInside, StatusInside
<1>7. SemTypeOK' /\ QueuesConsistent(sem_sched, {SEM})'
  <2>1. late' \in BOOLEAN
    BY <1>0
  <2>2. QED BY <1>0, <1>1, <2>1 DEF SInv, SemTypeOK, Sound
<1>8. QED BY <1>4, <1>5, <1>6, <1>7 DEF SInv

\* The timer of a wait expires: the thread is ready, but nothing is granted.
LEMMA TimeoutSInv ==
    ASSUME SInv, NEW t \in Thread, sem_timeout(t)
    PROVE  SInv'
<1>0. t \in sem_sched.timer /\ sem_sched' = wait_queue_timeout_handler(sem_sched, t) /\ UNCHANGED <<count, alive, sem_pc, tokens, late>>
  BY DEF sem_timeout
<1>1. /\ Sound(sem_sched', {SEM})
      /\ sem_sched'.timer = sem_sched.timer \ {t}
      /\ \A u \in Thread :
            \/ /\ sem_sched'.state[u] = sem_sched.state[u]
               /\ sem_sched'.wait_queue_block_ret[u] = sem_sched.wait_queue_block_ret[u]
            \/ /\ u = t /\ sem_sched.state[u] = "BLOCKED" /\ sem_sched'.state[u] = "READY"
               /\ sem_sched'.wait_queue_block_ret[u] = "ERR_TIMED_OUT"
  <2>1. Sound(sem_sched, {SEM})
    BY SemParts
  <2>2. Expired(sem_sched, sem_sched', t)
    BY <1>0, <2>1, SemNotNull, TimeoutEffect, ZenonT(30)
  <2>3. Sound(sem_sched', {SEM})
    BY <1>0, <2>1, SemNotNull, TimeoutSound
  <2>4. QED BY <2>2, <2>3 DEF Expired, Woken
<1>2. Waiting' = Waiting /\ SemGranted' = SemGranted
  BY <1>0, <1>1 DEF Waiting, SemGranted
<1>3. Conservation' /\ NoOverdraw' /\ FreeOrGranted'
  BY <1>0, <1>2 DEF SInv, Conservation, NoOverdraw, FreeOrGranted
<1>4. SemBlockedInside' /\ SemTimerInside' /\ StatusInside'
  BY <1>0, <1>1, SemParts DEF SInv, SemBlockedInside, SemTimerInside, StatusInside
<1>5. SemTypeOK' /\ QueuesConsistent(sem_sched, {SEM})'
  BY <1>0, <1>1 DEF SInv, SemTypeOK, Sound
<1>6. QED BY <1>3, <1>4, <1>5 DEF SInv

LEMMA DestroySInv ==
    ASSUME SInv, NEW t \in Thread, sem_destroy(t)
    PROVE  SInv'
<1>0. /\ sem_pc[t] = "idle" /\ sem_sched.state[t] = "READY" /\ alive' = FALSE /\ count' = 0
      /\ sem_sched' = wait_queue_wake_all(sem_sched, SEM, "ERR_OBJECT_DESTROYED")
      /\ sem_pc' = [sem_pc EXCEPT ![t] = IF sem_sched.list[SEM] = <<>> THEN "idle" ELSE "destroy"]
      /\ UNCHANGED <<tokens, late>>
  BY DEF sem_destroy, SemCalls, wait_queue_destroy
<1>1. Sound(sem_sched', {SEM})
  <2>1. "ERR_OBJECT_DESTROYED" \in Status /\ Sound(sem_sched, {SEM})
    BY SemParts DEF Status
  <2>2. QED BY <1>0, <2>1, SemNotNull, WakeAllSound, ZenonT(30)
<1>2. \A u \in Thread : sem_sched'.state[u] = "BLOCKED" => sem_sched.state[u] = "BLOCKED"
  BY <1>0 DEF wait_queue_wake_all
<1>3. SemBlockedInside' /\ SemTimerInside'
  <2>1. sem_sched'.timer = sem_sched.timer
    BY <1>0 DEF wait_queue_wake_all
  <2>2. QED BY <1>0, <1>2, <2>1, SemParts DEF SInv, SemBlockedInside, SemTimerInside
<1>4. StatusInside' /\ Conservation' /\ NoOverdraw' /\ FreeOrGranted'
  BY <1>0 DEF StatusInside, Conservation, NoOverdraw, FreeOrGranted
<1>5. SemTypeOK' /\ QueuesConsistent(sem_sched, {SEM})'
  <2>1. alive' \in BOOLEAN
    BY <1>0, ZenonT(30)
  <2>2. sem_pc' \in [Thread -> {"idle", "wait", "timedwait", "destroy"}]
    BY <1>0, SemParts
  <2>3. QED BY <1>0, <1>1, <2>1, <2>2 DEF SInv, SemTypeOK, Sound
<1>6. QED BY <1>3, <1>4, <1>5 DEF SInv

LEMMA DestroyResumeSInv ==
    ASSUME SInv, NEW t \in Thread, sem_destroy_resume(t)
    PROVE  SInv'
<1>0. sem_pc[t] = "destroy" /\ sem_pc' = [sem_pc EXCEPT ![t] = "idle"] /\ UNCHANGED <<sem_sched, count, alive, tokens, late>>
  BY DEF sem_destroy_resume
<1>1. Waiting' = Waiting
  BY <1>0, SemParts DEF Waiting
<1>2. SemGranted' = SemGranted
  BY <1>0, <1>1 DEF SemGranted
<1>3. Conservation' /\ NoOverdraw' /\ FreeOrGranted'
  BY <1>0, <1>1, <1>2 DEF SInv, Conservation, NoOverdraw, FreeOrGranted
<1>4. SemBlockedInside' /\ SemTimerInside' /\ StatusInside'
  BY <1>0, SemParts DEF SInv, SemBlockedInside, SemTimerInside, StatusInside
<1>5. SemTypeOK' /\ QueuesConsistent(sem_sched, {SEM})'
  BY <1>0, SemParts DEF SInv, SemTypeOK, QueuesConsistent, On
<1>6. QED BY <1>3, <1>4, <1>5 DEF SInv

LEMMA InitAgainSInv ==
    ASSUME SInv, sem_init
    PROVE  SInv'
<1>0. /\ \A t \in Thread : sem_pc[t] = "idle"
      /\ count' = Initial /\ tokens' = Initial /\ alive' = TRUE /\ late' = FALSE /\ UNCHANGED <<sem_sched, sem_pc>>
  BY DEF sem_init
<1>1. Waiting' = {} /\ SemGranted' = {}
  BY <1>0 DEF Waiting, SemGranted
<1>2. Initial \in Nat
  BY InitialAssumption
<1>3. Conservation' /\ NoOverdraw' /\ FreeOrGranted'
  BY <1>0, <1>1, <1>2, FS_EmptySet DEF Conservation, NoOverdraw, FreeOrGranted
<1>4. SemBlockedInside' /\ SemTimerInside' /\ StatusInside'
  BY <1>0 DEF SInv, SemBlockedInside, SemTimerInside, StatusInside
<1>5. SemTypeOK' /\ QueuesConsistent(sem_sched, {SEM})'
  <2>1. alive' \in BOOLEAN /\ late' \in BOOLEAN
    BY <1>0, ZenonT(30)
  <2>2. QED BY <1>0, <1>2, <2>1, SemParts, SMTT(30) DEF SInv, SemTypeOK, QueuesConsistent, On
<1>6. QED BY <1>3, <1>4, <1>5 DEF SInv

LEMMA NextSInv == SInv /\ [SemNext]_semVars => SInv'
<1> SUFFICES ASSUME SInv, [SemNext]_semVars PROVE SInv'
  OBVIOUS
<1>1. CASE UNCHANGED semVars
  BY <1>1, StutterSInv
<1>2. ASSUME NEW t \in Thread, sem_wait_resume(t) \/ sem_timedwait_resume(t)
      PROVE  SInv'
  BY <1>2, ResumeSInv DEF sem_wait_resume, sem_timedwait_resume
<1>3. CASE SemNext
  BY <1>2, <1>3, WaitSInv, TimedWaitSInv, TryWaitSInv, PostSInv, TimeoutSInv, DestroySInv, DestroyResumeSInv,
     InitAgainSInv DEF SemNext
<1>4. QED BY <1>1, <1>3

\* The queue is empty once every wait has been granted.
LEMMA SInvSafe == SInv => ResourcesExact
<1> SUFFICES ASSUME SInv PROVE IncreaseIsSafe
  BY DEF SInv, ResourcesExact
<1> SUFFICES ASSUME alive, ~late, ~PostWakes, sem_sched.list[SEM] # <<>> PROVE FALSE
  BY DEF IncreaseIsSafe
<1>1. Cardinality(SemGranted) = Cardinality(Waiting)
  BY SemWaits, SemParts DEF SInv, Conservation, FreeOrGranted, PostWakes
<1>2. SemGranted = Waiting
  BY <1>1, SemWaits
<1>3. PICK h \in Thread : sem_sched.blocking_wait_queue[h] = SEM
  <2>1. Sound(sem_sched, {SEM}) /\ SEM \in {SEM}
    BY SemParts
  <2>2. QED BY <2>1, HeadWaits
<1>4. sem_sched.state[h] = "BLOCKED"
  BY <1>3, SemParts, SemNotNull, SoundFields
<1>5. QED BY <1>2, <1>4 DEF SInv, SemBlockedInside, Waiting, SemGranted

(***************************************************************************)
(* kernel/semaphore.c accounts for every resource: count is the free ones  *)
(* minus the threads inside a wait, no resource is given to two threads,   *)
(* and, as its comment says, sem_post() may "just increase the count" when *)
(* that was not negative, as long as no post came between a timeout and    *)
(* its back-out.  For any number of threads and any initial value.         *)
(***************************************************************************)
THEOREM SemaphoreExact == SemSpec => []ResourcesExact
BY InitSInv, NextSInv, SInvSafe, PTL DEF SemSpec

\* The state of the semaphore and of its wait queue stays well typed.
THEOREM SemaphoreTypeCorrect == SemSpec => []SemTypeOK
<1>1. SInv => SemTypeOK
  BY DEF SInv
<1>2. QED BY InitSInv, NextSInv, <1>1, PTL DEF SemSpec

-----------------------------------------------------------------------------

\* Only a thread inside a wait is blocked.
EventBlockedInside == \A t \in Thread : event_sched.state[t] = "BLOCKED" => event_pc[t] = "wait"

EInv ==
    /\ EventTypeOK
    /\ QueuesConsistent(event_sched, {EVENT})
    /\ EventBlockedInside
    /\ SignaledHoldsNobody
    /\ SignalNotLost

\* What ReleaseIsFinal says of one step.
Kept == \A t \in EventGranted : t \in EventGranted' \/ event_pc'[t] = "idle"

LEMMA EventNotNull == NULL \notin {EVENT}
BY NULLAssumption DEF EVENT

\* The released threads are finitely many.
LEMMA Releases == IsFiniteSet(EventGranted) /\ Cardinality(EventGranted) \in Nat
<1>1. IsFiniteSet(EventGranted)
  BY ThreadAssumption, FS_Subset DEF EventGranted
<1>2. QED BY <1>1, FS_CardinalityType

\* What EInv says of the scheduler record, as the wait queue lemmas need it.
LEMMA EventParts ==
    ASSUME EInv
    PROVE  /\ Sound(event_sched, {EVENT}) /\ EVENT \in {EVENT}
           /\ event_sched.state \in [Thread -> {"READY", "BLOCKED"}]
           /\ event_pc \in [Thread -> {"idle", "wait", "destroy"}]
           /\ due \in Int
<1>1. Sound(event_sched, {EVENT})
  BY DEF EInv, EventTypeOK, Sound
<1>2. QED BY <1>1, SoundFields DEF EInv, EventTypeOK

LEMMA InitEInv == EventInit => EInv
<1> SUFFICES ASSUME EventInit PROVE EInv
  OBVIOUS
<1>1. Sound(event_sched, {EVENT})
  BY SchedInitSound, EventNotNull DEF EventInit
<1>2. event_sched.state = [t \in Thread |-> "READY"] /\ event_sched.list = [q \in {EVENT} |-> <<>>]
  BY DEF EventInit, SchedInit
<1>3. EventGranted = {} /\ Cardinality({}) = 0
  BY FS_EmptySet DEF EventInit, EventGranted
<1>4. SignaledHoldsNobody /\ SignalNotLost
  BY <1>2, <1>3 DEF EventInit, SignaledHoldsNobody, SignalNotLost
<1>5. EventBlockedInside
  BY <1>2 DEF EventInit, EventBlockedInside
<1>6. signaled \in BOOLEAN /\ autounsignal \in BOOLEAN /\ event_magic \in BOOLEAN
  BY FlagsAssumption DEF EventInit
<1>7. EventTypeOK /\ QueuesConsistent(event_sched, {EVENT})
  BY <1>1, <1>6 DEF EventInit, EventTypeOK, Sound
<1>8. QED BY <1>4, <1>5, <1>7 DEF EInv

\* A step that leaves the scheduler record and the threads' places alone.
LEMMA QuietEInv ==
    ASSUME EInv, UNCHANGED <<event_sched, event_pc, autounsignal, event_magic>>, signaled' \in BOOLEAN, due' \in Int,
           event_magic /\ signaled' => event_sched.list[EVENT] = <<>>,
           event_magic /\ autounsignal => due' = Cardinality(EventGranted) + (IF signaled' THEN 1 ELSE 0)
    PROVE  EInv' /\ Kept
<1>1. EventGranted' = EventGranted
  BY DEF EventGranted
<1>2. SignaledHoldsNobody' /\ SignalNotLost'
  BY <1>1 DEF SignaledHoldsNobody, SignalNotLost
<1>3. QED BY <1>1, <1>2 DEF EInv, EventTypeOK, EventBlockedInside, QueuesConsistent, On, Kept

\* A thread waits: it falls through a signaled event or blocks on another.
LEMMA WaitEInv ==
    ASSUME EInv, NEW t \in Thread, NEW timeout, event_wait_timeout(t, timeout)
    PROVE  EInv' /\ Kept
<1>0. /\ event_magic /\ event_pc[t] = "idle" /\ event_sched.state[t] = "READY" /\ UNCHANGED <<autounsignal, event_magic>>
      /\ due \in Int
  BY EventParts DEF event_wait_timeout, EventCalls
<1>1. CASE signaled
  <2>1. signaled' = ~autounsignal /\ UNCHANGED <<event_sched, event_pc>> /\ due' = IF autounsignal THEN due - 1 ELSE due
    BY <1>0, <1>1 DEF event_wait_timeout, PassThrough, Due
  <2>2. signaled' \in BOOLEAN
    BY <2>1
  <2>3. event_sched.list[EVENT] = <<>>
    BY <1>0, <1>1 DEF EInv, SignaledHoldsNobody
  <2>4. due' \in Int
    BY <1>0, <2>1
  <2>5. event_magic /\ autounsignal => due' = Cardinality(EventGranted) + (IF signaled' THEN 1 ELSE 0)
    <3>1. autounsignal => due = Cardinality(EventGranted) + 1
      BY <1>0, <1>1 DEF EInv, SignalNotLost
    <3>2. autounsignal => signaled' = FALSE /\ due' = due - 1
      BY <2>1, ZenonT(30)
    <3>3. QED BY <3>1, <3>2, Releases
  <2>6. QED BY <1>0, <2>1, <2>2, <2>3, <2>4, <2>5, QuietEInv
<1>2. CASE ~signaled /\ timeout = "ZERO"
  <2>1. UNCHANGED eventVars
    BY <1>0, <1>2 DEF event_wait_timeout, eventVars
  <2>2. QED BY <2>1 DEF eventVars, EInv, EventTypeOK, QueuesConsistent, On, EventBlockedInside,
                        SignaledHoldsNobody, SignalNotLost, EventGranted, Kept
<1>3. CASE ~signaled /\ timeout # "ZERO"
  <2>0. /\ event_sched' = wait_queue_block(event_sched, EVENT, t, timeout) /\ event_pc' = [event_pc EXCEPT ![t] = "wait"]
        /\ UNCHANGED <<signaled, due>>
    BY <1>3 DEF event_wait_timeout
  <2>1. /\ Sound(event_sched', {EVENT})
        /\ \A u \in Thread :
            /\ event_sched'.state[u] = IF u = t THEN "BLOCKED" ELSE event_sched.state[u]
            /\ event_sched'.wait_queue_block_ret[u] = IF u = t THEN "NO_ERROR" ELSE event_sched.wait_queue_block_ret[u]
    <3>1. Sound(event_sched, {EVENT}) /\ EVENT \in {EVENT} /\ event_sched.state[t] = "READY"
      BY <1>0, EventParts
    <3>2. Sound(event_sched', {EVENT}) /\ BlockedOn(event_sched, event_sched', {EVENT}, EVENT, t)
      BY <2>0, <3>1, EventNotNull, BlockEffect
    <3>3. QED BY <3>2 DEF BlockedOn
  <2>2. EventGranted' = EventGranted
    BY <1>0, <2>0, <2>1, EventParts DEF EventGranted
  <2>3. SignaledHoldsNobody' /\ SignalNotLost'
    BY <1>0, <1>3, <2>0, <2>2 DEF EInv, SignaledHoldsNobody, SignalNotLost
  <2>4. EventBlockedInside'
    BY <2>0, <2>1, EventParts DEF EInv, EventBlockedInside
  <2>5. EventTypeOK' /\ QueuesConsistent(event_sched, {EVENT})'
    BY <1>0, <2>0, <2>1, EventParts DEF EInv, EventTypeOK, Sound
  <2>6. QED BY <2>2, <2>3, <2>4, <2>5 DEF EInv, Kept
<1>4. QED BY <1>1, <1>2, <1>3

\* A woken thread returns, and takes its signal with it if it has one.
LEMMA ResumeEInv ==
    ASSUME EInv, NEW t \in Thread, event_wait_resume(t)
    PROVE  EInv' /\ Kept
<1>0. /\ event_pc[t] = "wait" /\ event_sched.state[t] = "READY"
      /\ event_sched' = wait_queue_block_resume(event_sched, t)
      /\ event_pc' = [event_pc EXCEPT ![t] = "idle"] /\ UNCHANGED <<signaled, autounsignal, event_magic>>
      /\ due' = IF autounsignal THEN due + (IF event_sched.wait_queue_block_ret[t] = "NO_ERROR" THEN -1 ELSE 0) ELSE due
  BY DEF event_wait_resume, Due
<1>1. /\ Sound(event_sched', {EVENT})
      /\ event_sched'.state = event_sched.state /\ event_sched'.wait_queue_block_ret = event_sched.wait_queue_block_ret
      /\ event_sched'.list = event_sched.list
  BY <1>0, EventParts, ResumeEffect
<1>2. EventGranted' = EventGranted \ {t} /\ (t \in EventGranted <=> event_sched.wait_queue_block_ret[t] = "NO_ERROR")
  BY <1>0, <1>1, EventParts DEF EventGranted
<1>3. Cardinality(EventGranted') = IF t \in EventGranted THEN Cardinality(EventGranted) - 1 ELSE Cardinality(EventGranted)
  BY <1>2, Releases, FS_RemoveElement, ZenonT(30)
<1>4. SignalNotLost'
  BY <1>0, <1>2, <1>3, Releases, EventParts, SMTT(30) DEF EInv, SignalNotLost
<1>5. SignaledHoldsNobody' /\ EventBlockedInside'
  BY <1>0, <1>1, EventParts DEF EInv, SignaledHoldsNobody, EventBlockedInside
<1>6. due' \in Int
  BY <1>0, EventParts
<1>7. EventTypeOK' /\ QueuesConsistent(event_sched, {EVENT})'
  BY <1>0, <1>1, <1>6, EventParts DEF EInv, EventTypeOK, Sound
<1>8. Kept
  BY <1>0, <1>2, EventParts DEF Kept
<1>9. QED BY <1>4, <1>5, <1>7, <1>8 DEF EInv

\* event_signal() on an autounsignal event that has waiters gives its signal to the first.
LEMMA SignalOneEInv ==
    ASSUME EInv, event_magic, autounsignal, ~signaled, event_sched.list[EVENT] # <<>>,
           event_sched' = wait_queue_wake_one(event_sched, EVENT, "NO_ERROR"), signaled' = FALSE, due' = due + 1,
           UNCHANGED <<autounsignal, event_magic, event_pc>>
    PROVE  EInv' /\ Kept
<1>1. Sound(event_sched', {EVENT}) /\ WokeOne(event_sched, event_sched', {EVENT}, EVENT, "NO_ERROR")
  <2>1. "NO_ERROR" \in Status /\ Sound(event_sched, {EVENT})
    BY EventParts DEF Status
  <2>2. QED BY <2>1, EventNotNull, WakeOneSound, WakeOneEffect, ZenonT(30)
<1>2. PICK h \in Thread : Woken(event_sched, event_sched', h, "NO_ERROR")
  BY <1>1 DEF WokeOne
<1>3. h \notin EventGranted /\ EventGranted' = EventGranted \cup {h}
  <2>1. /\ event_sched.state[h] = "BLOCKED" /\ event_pc[h] = "wait"
        /\ event_sched'.state[h] = "READY" /\ event_sched'.wait_queue_block_ret[h] = "NO_ERROR"
    BY <1>2 DEF Woken, EInv, EventBlockedInside
  <2>2. \A u \in Thread : u # h => /\ event_sched'.state[u] = event_sched.state[u]
                                  /\ event_sched'.wait_queue_block_ret[u] = event_sched.wait_queue_block_ret[u]
    BY <1>2 DEF Woken
  <2>3. h \notin EventGranted /\ \A u \in Thread : u \in EventGranted' <=> (u \in EventGranted \/ u = h)
    BY <2>1, <2>2 DEF EventGranted
  <2>4. QED BY <2>3 DEF EventGranted
<1>4. Cardinality(EventGranted') = Cardinality(EventGranted) + 1
  BY <1>3, Releases, FS_AddElement, ZenonT(30)
<1>5. SignalNotLost' /\ SignaledHoldsNobody'
  BY <1>4, Releases DEF EInv, SignalNotLost, SignaledHoldsNobody
<1>6. EventBlockedInside'
  BY <1>2 DEF Woken, EInv, EventBlockedInside
<1>7. signaled' \in BOOLEAN /\ due' \in Int
  <2>1. signaled' \in BOOLEAN
    BY ZenonT(30)
  <2>2. due' \in Int
    BY EventParts
  <2>3. QED BY <2>1, <2>2
<1>8. EventTypeOK' /\ QueuesConsistent(event_sched, {EVENT})'
  BY <1>1, <1>7 DEF EInv, EventTypeOK, Sound
<1>9. QED BY <1>3, <1>5, <1>6, <1>8 DEF EInv, Kept

\* event_signal() on a plain event releases everybody and stays signaled.
LEMMA SignalAllEInv ==
    ASSUME EInv, event_magic, ~autounsignal, event_sched' = wait_queue_wake_all(event_sched, EVENT, "NO_ERROR"),
           signaled' = TRUE, due' = due, UNCHANGED <<autounsignal, event_magic, event_pc>>
    PROVE  EInv' /\ Kept
<1>1. Sound(event_sched', {EVENT}) /\ WokeAll(event_sched, event_sched', {EVENT}, EVENT, "NO_ERROR")
  <2>1. "NO_ERROR" \in Status /\ Sound(event_sched, {EVENT})
    BY EventParts DEF Status
  <2>2. QED BY <2>1, EventNotNull, WakeAllSound, WakeAllEffect
<1>2. event_sched'.list[EVENT] = <<>> /\ \A u \in Thread : event_sched'.state[u] = "BLOCKED" => event_sched.state[u] = "BLOCKED"
  BY <1>1 DEF WokeAll
<1>3. SignalNotLost' /\ SignaledHoldsNobody' /\ EventBlockedInside'
  BY <1>2 DEF EInv, SignalNotLost, SignaledHoldsNobody, EventBlockedInside
<1>4. signaled' \in BOOLEAN
  OBVIOUS
<1>5. EventTypeOK' /\ QueuesConsistent(event_sched, {EVENT})'
  BY <1>1, <1>4 DEF EInv, EventTypeOK, Sound
<1>6. Kept
  <2>1. \A u \in Thread : event_sched.state[u] = "READY" => event_sched.blocking_wait_queue[u] # EVENT
    BY EventParts, EventNotNull, SoundFields
  <2>2. QED BY <1>1, <2>1, EventParts DEF WokeAll, EventGranted, Kept
<1>7. QED BY <1>3, <1>5, <1>6 DEF EInv

LEMMA SignalEInv ==
    ASSUME EInv, event_signal
    PROVE  EInv' /\ Kept
<1>0. event_magic /\ UNCHANGED <<autounsignal, event_magic, event_pc>> /\ due \in Int
  BY EventParts DEF event_signal
<1>1. CASE signaled
  <2>1. UNCHANGED eventVars
    BY <1>0, <1>1 DEF event_signal, eventVars
  <2>2. QED BY <2>1 DEF eventVars, EInv, EventTypeOK, QueuesConsistent, On, EventBlockedInside,
                        SignaledHoldsNobody, SignalNotLost, EventGranted, Kept
<1>2. CASE ~signaled /\ ~autounsignal
  <2>1. signaled' = TRUE /\ due' = due /\ event_sched' = wait_queue_wake_all(event_sched, EVENT, "NO_ERROR")
    BY <1>2, ZenonT(30) DEF event_signal, StaysSignaled, EventRelease, Due
  <2>2. QED BY <1>0, <1>2, <2>1, SignalAllEInv
<1>3. CASE ~signaled /\ autounsignal /\ event_sched.list[EVENT] # <<>>
  <2>1. signaled' = FALSE /\ due' = due + 1 /\ event_sched' = wait_queue_wake_one(event_sched, EVENT, "NO_ERROR")
    BY <1>3, ZenonT(30) DEF event_signal, StaysSignaled, EventRelease, Due
  <2>2. QED BY <1>0, <1>3, <2>1, SignalOneEInv, ZenonT(30)
<1>4. CASE ~signaled /\ autounsignal /\ event_sched.list[EVENT] = <<>>
  <2>1. signaled' = TRUE /\ due' = due + 1 /\ event_sched' = event_sched
    BY <1>4, ZenonT(30) DEF event_signal, StaysSignaled, EventRelease, Due, wait_queue_wake_one
  <2>2. due = Cardinality(EventGranted)
    BY <1>0, <1>4, Releases DEF EInv, SignalNotLost
  <2>3. signaled' \in BOOLEAN
    BY <2>1
  <2>4. QED BY <1>0, <1>4, <2>1, <2>2, <2>3, Releases, QuietEInv
<1>5. QED BY <1>1, <1>2, <1>3, <1>4

LEMMA UnsignalEInv ==
    ASSUME EInv, event_unsignal
    PROVE  EInv' /\ Kept
<1>0. /\ event_magic /\ signaled' = FALSE /\ UNCHANGED <<event_sched, autounsignal, event_magic, event_pc>> /\ due \in Int
      /\ due' = IF autounsignal THEN due + (IF signaled THEN -1 ELSE 0) ELSE due
  BY EventParts DEF event_unsignal, Due
<1>1. signaled' \in BOOLEAN
  BY <1>0, ZenonT(30)
<1>2. autounsignal => due = Cardinality(EventGranted) + (IF signaled THEN 1 ELSE 0)
  BY <1>0 DEF EInv, SignalNotLost
<1>3. due' \in Int /\ (autounsignal => due' = Cardinality(EventGranted))
  BY <1>0, <1>2, Releases
<1>4. event_magic /\ autounsignal => due' = Cardinality(EventGranted) + (IF signaled' THEN 1 ELSE 0)
  BY <1>0, <1>3, Releases
<1>5. QED BY <1>0, <1>1, <1>3, <1>4, QuietEInv

\* The timer of a wait expires: a thread that has been released keeps its signal.
LEMMA TimeoutEInv ==
    ASSUME EInv, NEW t \in Thread, event_timeout(t)
    PROVE  EInv' /\ Kept
<1>0. event_sched' = wait_queue_timeout_handler(event_sched, t) /\ UNCHANGED <<signaled, autounsignal, event_magic, event_pc, due>>
  BY DEF event_timeout
<1>1. Sound(event_sched', {EVENT}) /\ Expired(event_sched, event_sched', t)
  <2>1. Sound(event_sched, {EVENT})
    BY EventParts
  <2>2. QED BY <1>0, <2>1, EventNotNull, TimeoutSound, TimeoutEffect
<1>2. \A u \in Thread :
        \/ /\ event_sched'.state[u] = event_sched.state[u]
           /\ event_sched'.wait_queue_block_ret[u] = event_sched.wait_queue_block_ret[u]
        \/ /\ event_sched.state[u] = "BLOCKED" /\ event_sched'.state[u] = "READY"
           /\ event_sched'.wait_queue_block_ret[u] = "ERR_TIMED_OUT"
  BY <1>1 DEF Expired, Woken
<1>3. EventGranted' = EventGranted
  BY <1>0, <1>2 DEF EventGranted
<1>4. EventBlockedInside' /\ SignalNotLost'
  BY <1>0, <1>2, <1>3 DEF EInv, EventBlockedInside, SignalNotLost
<1>5. SignaledHoldsNobody'
  <2> SUFFICES ASSUME event_magic, signaled, event_sched'.list[EVENT] # <<>> PROVE FALSE
    BY <1>0 DEF SignaledHoldsNobody
  <2>1. event_sched.list[EVENT] = <<>>
    BY DEF EInv, SignaledHoldsNobody
  <2>2. \A u \in Thread : event_sched.state[u] # "BLOCKED"
    BY <2>1, EventParts, EventNotNull, EmptyMeansNone, ZenonT(30)
  <2>3. QED BY <1>1, <2>1, <2>2 DEF Expired
<1>6. EventTypeOK' /\ QueuesConsistent(event_sched, {EVENT})'
  BY <1>0, <1>1 DEF EInv, EventTypeOK, Sound
<1>7. QED BY <1>3, <1>4, <1>5, <1>6 DEF EInv, Kept

LEMMA DestroyEInv ==
    ASSUME EInv, NEW t \in Thread, event_destroy(t)
    PROVE  EInv' /\ Kept
<1>0. /\ event_pc[t] = "idle" /\ event_sched.state[t] = "READY" /\ event_magic' = FALSE /\ signaled' = FALSE
      /\ event_sched' = wait_queue_wake_all(event_sched, EVENT, "ERR_OBJECT_DESTROYED")
      /\ event_pc' = [event_pc EXCEPT ![t] = IF event_sched.list[EVENT] = <<>> THEN "idle" ELSE "destroy"]
      /\ UNCHANGED <<autounsignal, due>>
  BY DEF event_destroy, EventCalls, wait_queue_destroy
<1>1. Sound(event_sched', {EVENT}) /\ WokeAll(event_sched, event_sched', {EVENT}, EVENT, "ERR_OBJECT_DESTROYED")
  <2>1. "ERR_OBJECT_DESTROYED" \in Status /\ Sound(event_sched, {EVENT}) /\ EVENT \in {EVENT}
    BY EventParts DEF Status
  <2>2. QED BY <1>0, <2>1, EventNotNull, WakeAllSound, WakeAllEffect, ZenonT(30)
<1>2. \A u \in Thread : event_sched'.state[u] = "BLOCKED" => event_sched.state[u] = "BLOCKED"
  BY <1>1 DEF WokeAll
<1>3. EventGranted \subseteq EventGranted'
  <2>1. \A u \in Thread : event_sched.state[u] = "READY" => event_sched.blocking_wait_queue[u] # EVENT
    BY EventParts, EventNotNull, SoundFields
  <2>2. QED BY <1>0, <1>1, <2>1, EventParts DEF WokeAll, EventGranted
<1>4. EventBlockedInside' /\ SignaledHoldsNobody' /\ SignalNotLost'
  BY <1>0, <1>2, EventParts DEF EInv, EventBlockedInside, SignaledHoldsNobody, SignalNotLost
<1>5. signaled' \in BOOLEAN /\ event_magic' \in BOOLEAN
  BY <1>0, ZenonT(30)
<1>6. event_pc' \in [Thread -> {"idle", "wait", "destroy"}]
  BY <1>0, EventParts
<1>7. EventTypeOK' /\ QueuesConsistent(event_sched, {EVENT})'
  BY <1>0, <1>1, <1>5, <1>6 DEF EInv, EventTypeOK, Sound
<1>8. QED BY <1>3, <1>4, <1>7 DEF EInv, Kept

LEMMA DestroyResumeEInv ==
    ASSUME EInv, NEW t \in Thread, event_destroy_resume(t)
    PROVE  EInv' /\ Kept
<1>0. /\ event_pc[t] = "destroy" /\ event_pc' = [event_pc EXCEPT ![t] = "idle"]
      /\ UNCHANGED <<event_sched, signaled, autounsignal, event_magic, due>>
  BY DEF event_destroy_resume
<1>1. EventGranted' = EventGranted
  BY <1>0, EventParts DEF EventGranted
<1>2. EventBlockedInside' /\ SignaledHoldsNobody' /\ SignalNotLost'
  BY <1>0, <1>1, EventParts DEF EInv, EventBlockedInside, SignaledHoldsNobody, SignalNotLost
<1>3. EventTypeOK' /\ QueuesConsistent(event_sched, {EVENT})'
  BY <1>0, EventParts DEF EInv, EventTypeOK, QueuesConsistent, On
<1>4. QED BY <1>1, <1>2, <1>3 DEF EInv, Kept

LEMMA InitAgainEInv ==
    ASSUME EInv, event_init
    PROVE  EInv' /\ Kept
<1>0. /\ \A t \in Thread : event_pc[t] = "idle"
      /\ event_magic' = TRUE /\ signaled' \in BOOLEAN /\ autounsignal' \in BOOLEAN /\ UNCHANGED <<event_sched, event_pc>>
      /\ due' = IF autounsignal' /\ signaled' THEN 1 ELSE 0
  BY FlagsAssumption DEF event_init
<1>1. EventGranted = {} /\ EventGranted' = {} /\ Cardinality({}) = 0
  BY <1>0, FS_EmptySet DEF EventGranted
<1>2. event_sched.list[EVENT] = <<>>
  <2>1. \A u \in Thread : event_sched.state[u] # "BLOCKED"
    BY <1>0 DEF EInv, EventBlockedInside
  <2>2. QED BY <2>1, EventParts, EventNotNull, EmptyMeansNone, ZenonT(30)
<1>3. EventBlockedInside' /\ SignaledHoldsNobody' /\ SignalNotLost'
  BY <1>0, <1>1, <1>2 DEF EInv, EventBlockedInside, SignaledHoldsNobody, SignalNotLost
<1>4. event_magic' \in BOOLEAN
  BY <1>0
<1>5. EventTypeOK' /\ QueuesConsistent(event_sched, {EVENT})'
  <2>1. event_sched' \in SchedType({EVENT}) /\ event_pc' \in [Thread -> {"idle", "wait", "destroy"}]
    BY <1>0 DEF EInv, EventTypeOK
  <2>2. due' \in Int
    BY <1>0
  <2>3. QueuesConsistent(event_sched, {EVENT})'
    BY <1>0 DEF EInv, QueuesConsistent, On
  <2>4. QED BY <2>1, <2>2, <2>3, <1>0 DEF EventTypeOK
<1>6. QED BY <1>1, <1>3, <1>5 DEF EInv, Kept

LEMMA NextEInv == EInv /\ [EventNext]_eventVars => EInv' /\ Kept
<1> SUFFICES ASSUME EInv, [EventNext]_eventVars PROVE EInv' /\ Kept
  OBVIOUS
<1>1. CASE UNCHANGED eventVars
  BY <1>1 DEF eventVars, EInv, EventTypeOK, QueuesConsistent, On, EventBlockedInside,
              SignaledHoldsNobody, SignalNotLost, EventGranted, Kept
<1>2. CASE EventNext
  BY <1>2, WaitEInv, ResumeEInv, SignalEInv, UnsignalEInv, TimeoutEInv, DestroyEInv, DestroyResumeEInv,
     InitAgainEInv DEF EventNext
<1>3. QED BY <1>1, <1>2

(***************************************************************************)
(* kernel/event.c: nobody stays on the queue of a signaled event, and      *)
(* every signal that an autounsignal event accepted is either remembered   *)
(* or carried by exactly one released thread: no timeout spends one.       *)
(***************************************************************************)
THEOREM EventExact == EventSpec => []SignalsExact
<1>1. EInv => SignalsExact
  BY DEF EInv, SignalsExact
<1>2. QED BY InitEInv, NextEInv, <1>1, PTL DEF EventSpec

(***************************************************************************)
(* What event_signal() grants stays granted: the wait of a thread it woke  *)
(* succeeds even if its timer expires, the event is unsignaled or          *)
(* destroyed before the thread runs.                                       *)
(***************************************************************************)
THEOREM EventReleaseFinal == EventSpec => ReleaseIsFinal
<1>1. EInv /\ [EventNext]_eventVars => [\A t \in EventGranted : t \in EventGranted' \/ event_pc'[t] = "idle"]_eventVars
  BY NextEInv DEF Kept
<1>2. QED BY InitEInv, NextEInv, <1>1, PTL DEF EventSpec, ReleaseIsFinal

\* The state of the event and of its wait queue stays well typed.
THEOREM EventTypeCorrect == EventSpec => []EventTypeOK
<1>1. EInv => EventTypeOK
  BY DEF EInv
<1>2. QED BY InitEInv, NextEInv, <1>1, PTL DEF EventSpec

=============================================================================
