----------------------------- MODULE MutexProofs -----------------------------
(***************************************************************************)
(* The mutex excludes, and its count is exact, for any number of threads,  *)
(* any timeouts and any use of mutex_destroy().  The monitor made of it    *)
(* and of a condition variable misses no signal, for any number of         *)
(* producers and consumers, any timeouts of the condition and any use of   *)
(* cond_destroy().                                                         *)
(***************************************************************************)
EXTENDS Cond, WaitQueueProofs, FiniteSetTheorems

\* Only a thread inside mutex_acquire_timeout() is blocked.
BlockedInside == \A t \in Thread : sched.state[t] = "BLOCKED" => pc[t] = "acquire"

\* Only mutex_destroy() makes an acquisition fail other than by timeout.
StatusInside ==
    mutex.magic => \A t \in Thread :
        pc[t] = "acquire" => sched.wait_queue_block_ret[t] \in {"NO_ERROR", "ERR_TIMED_OUT"}

IInv == TypeOK /\ WaitConsistent /\ BlockedInside /\ StatusInside /\ MutualExclusion /\ CountExact

Inside == {t \in Thread : pc[t] \in {"acquire", "held"}}

\* The assignments to count, to holder and to magic.
LEMMA MutexUpdates ==
    ASSUME NEW m \in MutexType, NEW h \in Thread \cup {NULL}, NEW c \in Int
    PROVE  /\ [m EXCEPT !.count = c, !.holder = h] \in MutexType
           /\ [m EXCEPT !.holder = h, !.count = c] \in MutexType
           /\ [m EXCEPT !.magic = FALSE, !.count = c] \in MutexType
           /\ [m EXCEPT !.holder = h] \in MutexType
           /\ [m EXCEPT !.count = c] \in MutexType
           /\ m.count \in Int
<1>1. [m EXCEPT !.count = c, !.holder = h] \in MutexType BY ZenonT(30) DEF MutexType
<1>2. [m EXCEPT !.holder = h, !.count = c] \in MutexType BY ZenonT(30) DEF MutexType
<1>3. [m EXCEPT !.magic = FALSE, !.count = c] \in MutexType BY ZenonT(30) DEF MutexType
<1>4. [m EXCEPT !.holder = h] \in MutexType BY DEF MutexType
<1>5. [m EXCEPT !.count = c] \in MutexType BY DEF MutexType
<1>6. QED BY <1>1, <1>2, <1>3, <1>4, <1>5 DEF MutexType

LEMMA WaitNotNull == WAIT # NULL
BY NULLAssumption DEF WAIT

LEMMA InitIInv == Init => IInv
<1> SUFFICES ASSUME Init PROVE IInv
  OBVIOUS
<1>1. Sound(sched, {WAIT})
  BY SchedInitSound, WaitNotNull DEF Init
<1>2. TypeOK /\ WaitConsistent
  BY <1>1 DEF Sound, TypeOK, WaitConsistent, Init, MUTEX_INITIAL_VALUE, Place, MutexType
<1>3. BlockedInside /\ StatusInside
  BY DEF Init, SchedInit, BlockedInside, StatusInside
<1>4. MutualExclusion
  BY NULLAssumption DEF Init, SchedInit, MutualExclusion, Owner, MUTEX_INITIAL_VALUE
<1>5. {t \in Thread : pc[t] \in {"acquire", "held"}} = {}
  BY DEF Init
<1>6. CountExact
  BY <1>5, FS_EmptySet DEF Init, CountExact, MUTEX_INITIAL_VALUE
<1>7. QED BY <1>2, <1>3, <1>4, <1>6 DEF IInv

-----------------------------------------------------------------------------

\* What the actions do to Owner and to the number of threads inside.

\* The cardinality of Inside follows the one thread whose place changes.
LEMMA Enter ==
    ASSUME TypeOK, NEW t \in Thread, pc[t] \notin {"acquire", "held"},
           NEW p \in {"acquire", "held"}, pc' = [pc EXCEPT ![t] = p]
    PROVE  Cardinality(Inside') = Cardinality(Inside) + 1
<1>1. Inside' = Inside \cup {t} /\ t \notin Inside
  BY DEF Inside, TypeOK, MutexType
<1>2. IsFiniteSet(Inside)
  BY ThreadAssumption, FS_Subset DEF Inside
<1>3. QED BY <1>1, <1>2, FS_AddElement, ZenonT(30)

LEMMA Leave ==
    ASSUME TypeOK, NEW t \in Thread, pc[t] \in {"acquire", "held"},
           NEW p, p \notin {"acquire", "held"}, pc' = [pc EXCEPT ![t] = p]
    PROVE  Cardinality(Inside') = Cardinality(Inside) - 1
<1>1. Inside' = Inside \ {t} /\ t \in Inside
  BY DEF Inside, TypeOK, MutexType
<1>2. IsFiniteSet(Inside)
  BY ThreadAssumption, FS_Subset DEF Inside
<1>3. QED BY <1>1, <1>2, FS_RemoveElement

\* An exact count of zero means that nobody is inside.
LEMMA Nobody ==
    ASSUME TypeOK, CountExact, mutex.magic, ~Contended
    PROVE  mutex.count = 0 /\ \A t \in Thread : pc[t] \notin {"acquire", "held"}
<1>1. IsFiniteSet(Inside)
  BY ThreadAssumption, FS_Subset DEF Inside
<1>2. mutex.count = Cardinality(Inside) /\ Cardinality(Inside) \in Nat
  BY <1>1, FS_CardinalityType DEF CountExact, Inside
<1>3. Cardinality(Inside) = 0
  BY <1>2 DEF Contended, TypeOK, MutexType
<1>4. Inside = {}
  BY <1>1, <1>3, FS_EmptySet
<1>5. QED BY <1>2, <1>3, <1>4 DEF Inside

\* An exact count of at least one means that somebody is.
LEMMA Somebody ==
    ASSUME TypeOK, CountExact, mutex.magic, mutex.count >= 1
    PROVE  \E t \in Thread : pc[t] \in {"acquire", "held"}
<1>1. mutex.count = Cardinality(Inside)
  BY DEF CountExact, Inside
<1>2. Inside # {}
  BY <1>1, FS_EmptySet
<1>3. QED BY <1>2 DEF Inside

\* Two threads inside make an exact count of at least two.
LEMMA TwoInside ==
    ASSUME TypeOK, CountExact, mutex.magic, NEW t \in Thread, NEW u \in Thread, t # u,
           pc[t] \in {"acquire", "held"}, pc[u] \in {"acquire", "held"}
    PROVE  mutex.count - 1 >= 1
<1>1. IsFiniteSet(Inside) /\ {t, u} \subseteq Inside
  BY ThreadAssumption, FS_Subset DEF Inside
<1>2. Cardinality({t, u}) <= Cardinality(Inside) /\ Cardinality(Inside) \in Nat
  BY <1>1, FS_Subset, FS_CardinalityType
<1>3. Cardinality({t, u}) = 2
  <2>1. IsFiniteSet({t}) /\ Cardinality({t}) = 1
    BY FS_Singleton
  <2>2. {t, u} = {t} \cup {u} /\ u \notin {t}
    OBVIOUS
  <2>3. QED BY <2>1, <2>2, FS_AddElement
<1>4. QED BY <1>2, <1>3 DEF CountExact, Inside

\* A thread whose place, state and status are left alone stays (no) owner.
LEMMA OwnerFrame ==
    ASSUME NEW u \in Thread, pc'[u] = pc[u], sched'.state[u] = sched.state[u],
           sched'.wait_queue_block_ret[u] = sched.wait_queue_block_ret[u]
    PROVE  Owner(u)' <=> Owner(u)
BY DEF Owner, Running

LEMMA AcquireIInv ==
    ASSUME IInv, NEW t \in Thread, NEW timeout \in Timeouts, mutex_acquire_timeout(t, timeout)
    PROVE  IInv'
<1>0. Sound(sched, {WAIT}) /\ TypeOK /\ pc[t] = "idle" /\ Running(t) /\ mutex.magic /\ CountExact
  BY DEF IInv, TypeOK, WaitConsistent, Sound, mutex_acquire_timeout, MutexType
<1>1. CASE Contended /\ timeout = "ZERO"
  <2>1. sched' = sched /\ mutex' = mutex /\ pc' = pc
    BY <1>1 DEF mutex_acquire_timeout, mutex_acquire_timeout_internal
  <2>2. QED BY <2>1 DEF IInv, TypeOK, WaitConsistent, BlockedInside, StatusInside, MutualExclusion, CountExact, Owner, Running, MutexType
<1>2. CASE Contended /\ timeout # "ZERO"
  <2>1. /\ sched' = wait_queue_block(sched, WAIT, t, timeout)
        /\ mutex' = [mutex EXCEPT !.count = @ + 1]
        /\ pc' = [pc EXCEPT ![t] = "acquire"]
    BY <1>2 DEF mutex_acquire_timeout, mutex_acquire_timeout_internal
  <2>2. Sound(sched', {WAIT})
    BY <1>0, <2>1, BlockSound, WaitNotNull DEF Running
  <2>3. TypeOK' /\ WaitConsistent'
    BY <1>0, <2>1, <2>2 DEF Sound, TypeOK, WaitConsistent, Place, MutexType
  <2>4. /\ sched'.state = [sched.state EXCEPT ![t] = "BLOCKED"]
        /\ sched'.wait_queue_block_ret = [sched.wait_queue_block_ret EXCEPT ![t] = "NO_ERROR"]
    BY <2>1 DEF wait_queue_block
  <2>5. sched.state \in [Thread -> {"READY", "BLOCKED"}] /\ sched.wait_queue_block_ret \in [Thread -> Status]
    BY <1>0, SoundFields
  <2>6. BlockedInside' /\ StatusInside'
    BY <1>0, <2>1, <2>4, <2>5 DEF IInv, BlockedInside, StatusInside, TypeOK, MutexType
  <2>7. ~Owner(t)' /\ \A u \in Thread \ {t} : Owner(u)' <=> Owner(u)
    BY <1>0, <2>1, <2>4, <2>5 DEF TypeOK, Owner, Running, MutexType
  <2>8. MutualExclusion'
    <3>1. mutex'.magic = mutex.magic /\ mutex'.holder = mutex.holder
      BY <1>0, <2>1, ZenonT(30) DEF TypeOK, MutexType
    <3>2. \A u \in Thread : pc'[u] = "held" <=> pc[u] = "held"
      BY <1>0, <2>1 DEF TypeOK, MutexType
    <3>3. QED BY <1>0, <2>7, <3>1, <3>2 DEF IInv, MutualExclusion
  <2>9. CountExact'
    <3>1. Cardinality(Inside') = Cardinality(Inside) + 1
      BY <1>0, <2>1, Enter, ZenonT(30)
    <3>2. QED BY <1>0, <2>1, <3>1 DEF CountExact, Inside, TypeOK, MutexType
  <2>10. QED BY <2>3, <2>6, <2>8, <2>9 DEF IInv
<1>3. CASE ~Contended
  <2>1. /\ sched' = sched
        /\ mutex' = [mutex EXCEPT !.count = @ + 1, !.holder = t]
        /\ pc' = [pc EXCEPT ![t] = "held"]
    BY <1>3 DEF mutex_acquire_timeout, mutex_acquire_timeout_internal
  <2>2. TypeOK' /\ WaitConsistent'
    <3>1. mutex' \in MutexType
      <4>1. mutex \in MutexType BY <1>0 DEF TypeOK
      <4>2. mutex.count + 1 \in Int BY <4>1 DEF MutexType
      <4>3. QED BY <2>1, <4>1, <4>2, MutexUpdates, ZenonT(30)
    <3>2. pc' \in [Thread -> Place]
      BY <1>0, <2>1 DEF TypeOK, Place, MutexType
    <3>3. QED BY <1>0, <2>1, <3>1, <3>2 DEF TypeOK, WaitConsistent, Sound, MutexType
  <2>3. \A u \in Thread : pc[u] \notin {"acquire", "held"}
    BY <1>0, <1>3, Nobody
  <2>4. BlockedInside' /\ StatusInside'
    BY <1>0, <2>1, <2>3 DEF IInv, BlockedInside, StatusInside, TypeOK, MutexType
  <2>5. MutualExclusion'
    BY <1>0, <2>1, <2>3 DEF IInv, MutualExclusion, TypeOK, Owner, MutexType
  <2>6. CountExact'
    <3>1. Cardinality(Inside') = Cardinality(Inside) + 1
      BY <1>0, <2>1, Enter, ZenonT(30)
    <3>2. QED BY <1>0, <2>1, <3>1 DEF CountExact, Inside, TypeOK, MutexType
  <2>7. QED BY <2>2, <2>4, <2>5, <2>6 DEF IInv
<1>4. QED BY <1>1, <1>2, <1>3

LEMMA ResumeIInv ==
    ASSUME IInv, NEW t \in Thread, mutex_acquire_resume(t)
    PROVE  IInv'
<1>0. /\ Sound(sched, {WAIT}) /\ TypeOK /\ pc[t] = "acquire" /\ Running(t) /\ CountExact
      /\ sched' = wait_queue_block_resume(sched, t)
  BY DEF IInv, TypeOK, WaitConsistent, Sound, mutex_acquire_resume, MutexType
<1>1. Sound(sched', {WAIT})
  BY <1>0, ResumeSound
<1>2. sched'.state = sched.state /\ sched'.wait_queue_block_ret = sched.wait_queue_block_ret
  BY <1>0 DEF wait_queue_block_resume, TypeOK, SchedType, MutexType
<1>3. CASE sched.wait_queue_block_ret[t] = "NO_ERROR"
  <2>1. mutex' = [mutex EXCEPT !.holder = t] /\ pc' = [pc EXCEPT ![t] = "held"]
    BY <1>3 DEF mutex_acquire_resume
  <2>2. TypeOK' /\ WaitConsistent'
    BY <1>0, <1>1, <2>1 DEF Sound, TypeOK, WaitConsistent, Place, MutexType
  <2>3. BlockedInside' /\ StatusInside'
    BY <1>0, <1>2, <2>1 DEF IInv, BlockedInside, StatusInside, TypeOK, Running, MutexType
  <2>4. Owner(t) /\ Owner(t)' /\ \A u \in Thread \ {t} : Owner(u)' <=> Owner(u)
    BY <1>0, <1>2, <1>3, <2>1 DEF TypeOK, Owner, Running, MutexType
  <2>5. \A u \in Thread : pc[u] = "held" => Owner(u)
    BY DEF Owner
  <2>6. MutualExclusion'
    BY <1>0, <2>1, <2>4, <2>5 DEF IInv, MutualExclusion, TypeOK, MutexType
  <2>7. Inside' = Inside
    BY <1>0, <2>1 DEF Inside, TypeOK, MutexType
  <2>8. CountExact'
    BY <1>0, <2>1, <2>7 DEF CountExact, Inside, TypeOK, MutexType
  <2>9. QED BY <2>2, <2>3, <2>6, <2>8 DEF IInv
<1>4. CASE sched.wait_queue_block_ret[t] # "NO_ERROR"
  <2>1. /\ pc' = [pc EXCEPT ![t] = "idle"]
        /\ mutex' \in {mutex, [mutex EXCEPT !.count = @ - 1]}
        /\ mutex.magic => sched.wait_queue_block_ret[t] = "ERR_TIMED_OUT"
    BY <1>0, <1>4 DEF IInv, StatusInside, mutex_acquire_resume
  <2>2. mutex.magic => mutex' = [mutex EXCEPT !.count = @ - 1]
    BY <1>4, <2>1 DEF mutex_acquire_resume
  <2>3. TypeOK' /\ WaitConsistent'
    BY <1>0, <1>1, <2>1 DEF Sound, TypeOK, WaitConsistent, Place, MutexType
  <2>4. mutex'.magic = mutex.magic /\ mutex'.holder = mutex.holder
    BY <1>0, <2>1 DEF TypeOK, MutexType
  <2>5. BlockedInside' /\ StatusInside'
    BY <1>0, <1>2, <2>1, <2>4 DEF IInv, BlockedInside, StatusInside, TypeOK, Running, MutexType
  <2>6. ~Owner(t)' /\ \A u \in Thread \ {t} : Owner(u)' <=> Owner(u)
    BY <1>0, <1>2, <2>1 DEF TypeOK, Owner, Running, MutexType
  <2>7. \A u \in Thread : pc'[u] = "held" <=> pc[u] = "held"
    BY <1>0, <2>1 DEF TypeOK, MutexType
  <2>8. MutualExclusion'
    BY <2>4, <2>6, <2>7 DEF IInv, MutualExclusion
  <2>9. CountExact'
    <3>1. Cardinality(Inside') = Cardinality(Inside) - 1
      BY <1>0, <2>1, Leave, ZenonT(30)
    <3>2. QED BY <1>0, <2>2, <2>4, <3>1 DEF CountExact, Inside, TypeOK, MutexType
  <2>10. QED BY <2>3, <2>5, <2>8, <2>9 DEF IInv
<1>5. QED BY <1>3, <1>4

LEMMA ReleaseIInv ==
    ASSUME IInv, NEW t \in Thread, mutex_release(t)
    PROVE  IInv'
<1>0. /\ Sound(sched, {WAIT}) /\ TypeOK /\ pc[t] = "held" /\ mutex.magic /\ CountExact
      /\ sched' = WakeNext(sched)
      /\ mutex' = [mutex EXCEPT !.holder = NULL, !.count = @ - 1]
      /\ pc' = [pc EXCEPT ![t] = "idle"]
  BY DEF IInv, TypeOK, WaitConsistent, Sound, mutex_release, mutex_release_internal, MutexType
<1>1. Sound(sched', {WAIT})
  BY <1>0, WakeOneSound, WaitNotNull DEF WakeNext, Status
<1>2. mutex' \in MutexType
  <2>1. mutex \in MutexType BY <1>0 DEF TypeOK
  <2>2. mutex.count - 1 \in Int BY <2>1 DEF MutexType
  <2>3. QED BY <1>0, <2>1, <2>2, MutexUpdates, ZenonT(30)
<1>3. mutex'.magic = mutex.magic /\ mutex'.holder = NULL /\ mutex'.count = mutex.count - 1
  BY <1>0, ZenonT(30) DEF TypeOK, MutexType
<1>4. TypeOK' /\ WaitConsistent'
  <2>1. pc' \in [Thread -> Place]
    BY <1>0 DEF TypeOK, Place, MutexType
  <2>2. QED BY <1>1, <1>2, <2>1 DEF Sound, TypeOK, WaitConsistent, MutexType
<1>5. sched.state \in [Thread -> {"READY", "BLOCKED"}] /\ sched.wait_queue_block_ret \in [Thread -> Status]
  BY <1>0, SoundFields
<1>6. \E h \in Thread :
        /\ \A u \in Thread \ {h} : /\ sched'.state[u] = sched.state[u]
                                    /\ sched'.wait_queue_block_ret[u] = sched.wait_queue_block_ret[u]
        /\ sched'.state[h] = "READY" \/ sched' = sched
        /\ sched'.wait_queue_block_ret[h] = "NO_ERROR" \/ sched' = sched
  <2>1. CASE sched' = sched
    BY <2>1
  <2>2. CASE sched' # sched
    <3>1. sched' = Wake(sched, WAIT, Head(sched.list[WAIT]), "NO_ERROR") /\ sched.list[WAIT] # <<>>
      BY <1>0, <2>2 DEF WakeNext, wait_queue_wake_one
    <3>2. Head(sched.list[WAIT]) \in Thread
      BY <1>0, <3>1, HeadWaits, ZenonT(30)
    <3>3. QED BY <3>1, <3>2, <1>5 DEF Wake
  <2>3. QED BY <2>1, <2>2
<1>7. PICK h \in Thread :
        /\ \A u \in Thread \ {h} : /\ sched'.state[u] = sched.state[u]
                                    /\ sched'.wait_queue_block_ret[u] = sched.wait_queue_block_ret[u]
        /\ sched'.state[h] = "READY" \/ sched' = sched
        /\ sched'.wait_queue_block_ret[h] = "NO_ERROR" \/ sched' = sched
  BY <1>6
<1>8. BlockedInside' /\ StatusInside'
  BY <1>0, <1>3, <1>7 DEF IInv, BlockedInside, StatusInside, TypeOK, MutexType
<1>9. \A u \in Thread : u # t => ~Owner(u)
  BY <1>0 DEF IInv, MutualExclusion, Owner
<1>10. ~Owner(t)' /\ \A u \in Thread \ {h, t} : ~Owner(u)'
  <2>1. ~Owner(t)'
    BY <1>0 DEF Owner, TypeOK, MutexType
  <2>2. ASSUME NEW u \in Thread \ {h, t} PROVE ~Owner(u)'
    <3>1. pc'[u] = pc[u]
      BY <1>0 DEF TypeOK, MutexType
    <3>2. QED BY <3>1, <1>7, <1>9, OwnerFrame
  <2>3. QED BY <2>1, <2>2
<1>11. \A u \in Thread : pc'[u] # "held"
  BY <1>0, <1>9 DEF TypeOK, Owner, MutexType
<1>12. MutualExclusion'
  BY <1>3, <1>10, <1>11, NULLAssumption DEF MutualExclusion
<1>13. CountExact'
  <2>1. Cardinality(Inside') = Cardinality(Inside) - 1
    BY <1>0, Leave, ZenonT(30)
  <2>2. QED BY <1>0, <1>3, <2>1 DEF CountExact, Inside, TypeOK, MutexType
<1>14. QED BY <1>4, <1>8, <1>12, <1>13 DEF IInv

LEMMA TimeoutIInv ==
    ASSUME IInv, NEW t \in Thread, acquire_timeout(t)
    PROVE  IInv'
<1>0. /\ Sound(sched, {WAIT}) /\ sched' = wait_queue_timeout_handler(sched, t)
      /\ mutex' = mutex /\ pc' = pc
  BY DEF IInv, TypeOK, WaitConsistent, Sound, acquire_timeout, MutexType
<1>1. Sound(sched', {WAIT})
  BY <1>0, TimeoutSound, WaitNotNull
<1>2. TypeOK' /\ WaitConsistent'
  BY <1>0, <1>1 DEF IInv, Sound, TypeOK, WaitConsistent, MutexType
<1>3. sched.state \in [Thread -> {"READY", "BLOCKED"}] /\ sched.wait_queue_block_ret \in [Thread -> Status]
  BY <1>0, SoundFields
<1>4. \/ sched'.state = sched.state /\ sched'.wait_queue_block_ret = sched.wait_queue_block_ret
      \/ /\ sched.state[t] = "BLOCKED"
         /\ sched'.state = [sched.state EXCEPT ![t] = "READY"]
         /\ sched'.wait_queue_block_ret = [sched.wait_queue_block_ret EXCEPT ![t] = "ERR_TIMED_OUT"]
  <2> DEFINE r == [sched EXCEPT !.timer = @ \ {t}]
  <2>1. r.state = sched.state /\ r.wait_queue_block_ret = sched.wait_queue_block_ret
    BY <1>0 DEF Sound, SchedType
  <2>2. sched' = thread_unblock_from_wait_queue(r, t, "ERR_TIMED_OUT")
    BY <1>0 DEF wait_queue_timeout_handler
  <2> HIDE DEF r
  <2>3. QED BY <2>1, <2>2 DEF thread_unblock_from_wait_queue, Wake
<1>5. BlockedInside' /\ StatusInside'
  BY <1>0, <1>3, <1>4 DEF IInv, BlockedInside, StatusInside
<1>6. \A u \in Thread : Owner(u)' => Owner(u)
  BY <1>0, <1>3, <1>4 DEF Owner, Running
<1>7. MutualExclusion'
  BY <1>0, <1>6 DEF IInv, MutualExclusion
<1>8. CountExact'
  BY <1>0 DEF IInv, CountExact
<1>9. QED BY <1>2, <1>5, <1>7, <1>8 DEF IInv

LEMMA DestroyIInv ==
    ASSUME IInv, NEW t \in Thread, mutex_destroy(t)
    PROVE  IInv'
<1>0. /\ Sound(sched, {WAIT}) /\ TypeOK /\ pc[t] \in {"idle", "held"}
      /\ sched' = wait_queue_wake_all(sched, WAIT, "ERR_OBJECT_DESTROYED")
      /\ mutex' = [mutex EXCEPT !.magic = FALSE, !.count = 0]
      /\ pc' = [pc EXCEPT ![t] = IF sched.list[WAIT] = <<>> THEN "idle" ELSE "destroy"]
  BY DEF IInv, TypeOK, WaitConsistent, Sound, mutex_destroy, wait_queue_destroy, MutexType
<1>1. Sound(sched', {WAIT})
  BY <1>0, WakeAllSound, WaitNotNull DEF Status
<1>2. mutex' \in MutexType /\ ~mutex'.magic
  <2>1. mutex \in MutexType /\ 0 \in Int BY <1>0 DEF TypeOK
  <2>2. mutex' \in MutexType BY <1>0, <2>1, MutexUpdates, ZenonT(30)
  <2>3. ~mutex'.magic BY <1>0, <2>1 DEF MutexType
  <2>4. QED BY <2>2, <2>3
<1>3. TypeOK' /\ WaitConsistent'
  <2>1. pc' \in [Thread -> Place]
    BY <1>0 DEF TypeOK, Place, MutexType
  <2>2. QED BY <1>1, <1>2, <2>1 DEF Sound, TypeOK, WaitConsistent, MutexType
<1>4. \A u \in Thread : sched'.state[u] = "BLOCKED" => sched.state[u] = "BLOCKED"
  BY <1>0 DEF wait_queue_wake_all
<1>5. BlockedInside'
  <2>1. sched.state[t] # "BLOCKED"
    BY <1>0 DEF IInv, BlockedInside
  <2>2. QED BY <1>0, <1>4, <2>1 DEF IInv, BlockedInside, TypeOK, MutexType
<1>6. StatusInside' /\ MutualExclusion' /\ CountExact'
  BY <1>2 DEF StatusInside, MutualExclusion, CountExact
<1>7. QED BY <1>3, <1>5, <1>6 DEF IInv

LEMMA DestroyResumeIInv ==
    ASSUME IInv, NEW t \in Thread, wait_queue_destroy_resume(t)
    PROVE  IInv'
<1>0. pc[t] = "destroy" /\ pc' = [pc EXCEPT ![t] = "idle"] /\ sched' = sched /\ mutex' = mutex /\ TypeOK
  BY DEF wait_queue_destroy_resume, IInv
<1>1. TypeOK' /\ WaitConsistent'
  BY <1>0 DEF IInv, TypeOK, WaitConsistent, Place, MutexType
<1>2. BlockedInside' /\ StatusInside'
  BY <1>0 DEF IInv, BlockedInside, StatusInside, TypeOK, MutexType
<1>3. \A u \in Thread : (Owner(u)' <=> Owner(u)) /\ (pc'[u] = "held" <=> pc[u] = "held")
  BY <1>0 DEF TypeOK, Owner, Running, MutexType
<1>4. MutualExclusion'
  BY <1>0, <1>3 DEF IInv, MutualExclusion
<1>5. Inside' = Inside
  BY <1>0 DEF Inside, TypeOK, MutexType
<1>6. CountExact'
  BY <1>0, <1>5 DEF IInv, CountExact, Inside
<1>7. QED BY <1>1, <1>2, <1>4, <1>6 DEF IInv

LEMMA InitAgainIInv ==
    ASSUME IInv, mutex_init
    PROVE  IInv'
<1>0. (\A t \in Thread : pc[t] = "idle") /\ mutex' = MUTEX_INITIAL_VALUE /\ sched' = sched /\ pc' = pc /\ TypeOK
  BY DEF mutex_init, IInv
<1>1. TypeOK' /\ WaitConsistent'
  BY <1>0 DEF IInv, TypeOK, WaitConsistent, MUTEX_INITIAL_VALUE, MutexType
<1>2. BlockedInside' /\ StatusInside'
  BY <1>0 DEF IInv, BlockedInside, StatusInside
<1>3. MutualExclusion'
  BY <1>0, NULLAssumption DEF MutualExclusion, Owner, MUTEX_INITIAL_VALUE
<1>4. {t \in Thread : pc'[t] \in {"acquire", "held"}} = {}
  BY <1>0
<1>5. CountExact'
  BY <1>0, <1>4, FS_EmptySet DEF CountExact, MUTEX_INITIAL_VALUE
<1>6. QED BY <1>1, <1>2, <1>3, <1>5 DEF IInv

(***************************************************************************)
(* IInv is inductive: no critical section of kernel/mutex.c, no timer and  *)
(* no woken thread's continuation breaks it.                               *)
(***************************************************************************)
LEMMA NextIInv == IInv /\ [Next]_vars => IInv'
<1> SUFFICES ASSUME IInv, [Next]_vars PROVE IInv'
  OBVIOUS
<1>1. CASE UNCHANGED vars
  BY <1>1 DEF vars, IInv, TypeOK, WaitConsistent, BlockedInside, StatusInside, MutualExclusion, CountExact, Owner, Running, MutexType
<1>2. CASE Next
  BY <1>2, AcquireIInv, ResumeIInv, ReleaseIInv, TimeoutIInv, DestroyIInv, DestroyResumeIInv, InitAgainIInv DEF Next
<1>3. QED BY <1>1, <1>2

(***************************************************************************)
(* The state of kernel/mutex.c stays well typed: in particular holder is   *)
(* always a thread or NULL and the wait queue a sequence of threads.       *)
(***************************************************************************)
THEOREM MutexTypeCorrect == Spec => []TypeOK
<1>1. IInv => TypeOK
  BY DEF IInv
<1>2. QED BY InitIInv, NextIInv, <1>1, PTL DEF Spec

(***************************************************************************)
(* At most one thread holds a living mutex or has been handed it, for any  *)
(* number of threads, with timed acquisitions and with mutex_destroy().    *)
(***************************************************************************)
THEOREM MutexExcludes == Spec => []MutualExclusion
<1>1. IInv => MutualExclusion
  BY DEF IInv
<1>2. QED BY InitIInv, NextIInv, <1>1, PTL DEF Spec

(***************************************************************************)
(* count is the number of threads that hold the mutex or are inside        *)
(* mutex_acquire_timeout(), timed-out acquisitions not yet backed out      *)
(* included.                                                               *)
(***************************************************************************)
THEOREM MutexCountExact == Spec => []CountExact
<1>1. IInv => CountExact
  BY DEF IInv
<1>2. QED BY InitIInv, NextIInv, <1>1, PTL DEF Spec

(***************************************************************************)
(* The wait queue of the mutex and the blocked threads agree.              *)
(***************************************************************************)
THEOREM MutexWaitConsistent == Spec => []WaitConsistent
<1>1. IInv => WaitConsistent
  BY DEF IInv
<1>2. QED BY InitIInv, NextIInv, <1>1, PTL DEF Spec

-----------------------------------------------------------------------------

(***************************************************************************)
(* The mutex without timed acquisitions is the hand-off lock.              *)
(***************************************************************************)

\* No thread acquires with a timeout that can expire.
Untimed == "FINITE" \notin Timeouts

\* A thread inside a living mutex is its owner or waits for one, and no wait fails.
Owned ==
    mutex.magic => \A t \in Thread :
        /\ pc[t] = "acquire" => sched.wait_queue_block_ret[t] = "NO_ERROR"
        /\ pc[t] \in {"acquire", "held"} => \E u \in Thread : Owner(u)

\* Nobody waits on a destroyed mutex.
DeadHoldsNobody == ~mutex.magic => sched.list[WAIT] = <<>>

LInv == Untimed /\ IInv /\ sched.timer = {} /\ Owned /\ DeadHoldsNobody

\* The refinement mapping: the owner, if there is one, is OwningThread.
LEMMA Owning ==
    /\ \A t \in Thread : MutualExclusion /\ mutex.magic /\ Owner(t) => OwningThread = t
    /\ mutex.magic /\ (\A t \in Thread : ~Owner(t)) => OwningThread = NULL
    /\ ~mutex.magic => OwningThread = NULL
<1>1. ASSUME NEW t \in Thread, MutualExclusion, mutex.magic, Owner(t) PROVE OwningThread = t
  <2>1. \A u \in Thread : Owner(u) => u = t
    BY <1>1 DEF MutualExclusion
  <2>2. QED BY <1>1, <2>1 DEF OwningThread
<1>2. QED BY <1>1 DEF OwningThread

LEMMA OwningNext ==
    /\ \A t \in Thread : MutualExclusion' /\ mutex'.magic /\ Owner(t)' => OwningThread' = t
    /\ mutex'.magic /\ (\A t \in Thread : ~Owner(t)') => OwningThread' = NULL
    /\ ~mutex'.magic => OwningThread' = NULL
<1>1. ASSUME NEW t \in Thread, MutualExclusion', mutex'.magic, Owner(t)' PROVE OwningThread' = t
  <2>1. \A u \in Thread : Owner(u)' => u = t
    BY <1>1 DEF MutualExclusion
  <2>2. QED BY <1>1, <2>1 DEF OwningThread
<1>2. QED BY <1>1 DEF OwningThread

\* The same threads own the mutex before and after, and its life goes on.
LEMMA OwningKept ==
    ASSUME mutex'.magic = mutex.magic, MutualExclusion, MutualExclusion',
           \A u \in Thread : Owner(u)' <=> Owner(u)
    PROVE  OwningThread' = OwningThread
<1>1. CASE mutex.magic /\ \E u \in Thread : Owner(u)
  BY <1>1, Owning, OwningNext
<1>2. CASE mutex.magic /\ \A u \in Thread : ~Owner(u)
  BY <1>2, Owning, OwningNext
<1>3. CASE ~mutex.magic
  BY <1>3, Owning, OwningNext
<1>4. QED BY <1>1, <1>2, <1>3

\* What LInv says of the scheduler record.
LEMMA LParts ==
    ASSUME LInv
    PROVE  /\ Sound(sched, {WAIT}) /\ WAIT \in {WAIT} /\ NULL \notin {WAIT}
           /\ TypeOK /\ CountExact /\ MutualExclusion /\ StatusInside /\ BlockedInside
           /\ sched.state \in [Thread -> {"READY", "BLOCKED"}]
           /\ pc \in [Thread -> Place]
           /\ sched.list[WAIT] = <<>> <=> \A t \in Thread : sched.state[t] # "BLOCKED"
<1>1. Sound(sched, {WAIT}) /\ NULL \notin {WAIT}
  BY WaitNotNull DEF LInv, IInv, TypeOK, WaitConsistent, Sound
<1>2. sched.state \in [Thread -> {"READY", "BLOCKED"}]
  BY <1>1, SoundFields
<1>3. sched.list[WAIT] = <<>> <=> \A t \in Thread : sched.state[t] # "BLOCKED"
  BY <1>1, EmptyMeansNone, ZenonT(30)
<1>4. QED BY <1>1, <1>2, <1>3 DEF LInv, IInv, TypeOK

LEMMA InitLInv == Untimed /\ Init => LInv /\ Lock!Init
<1> SUFFICES ASSUME Untimed, Init PROVE LInv /\ Lock!Init
  OBVIOUS
<1>1. IInv
  BY InitIInv
<1>2. sched.timer = {} /\ sched.list[WAIT] = <<>> /\ \A t \in Thread : pc[t] = "idle"
  BY DEF Init, SchedInit
<1>3. Owned /\ DeadHoldsNobody
  BY <1>2 DEF Owned, DeadHoldsNobody
<1>4. OwningThread = NULL
  BY <1>2, Owning DEF Owner
<1>5. QED BY <1>1, <1>2, <1>3, <1>4 DEF LInv, Lock!Init

\* What a step must show: the invariant again, and a step of the lock or none.
Refines == LInv' /\ (Lock!Next \/ UNCHANGED Lock!vars)

\* A step of one thread that wakes nobody and changes no ownership.
LEMMA QuietRefines ==
    ASSUME LInv, IInv', mutex'.magic = mutex.magic,
           sched'.timer = {}, sched'.list = sched.list,
           \A u \in Thread : /\ Owner(u)' <=> Owner(u)
                             /\ mutex.magic /\ pc'[u] \in {"acquire", "held"} => pc[u] \in {"acquire", "held"}
                             /\ mutex.magic /\ pc'[u] = "acquire" => sched'.wait_queue_block_ret[u] = "NO_ERROR"
    PROVE  Refines
<1>1. MutualExclusion /\ MutualExclusion'
  BY LParts DEF IInv
<1>2. OwningThread' = OwningThread
  BY <1>1, OwningKept
<1>3. Owned' /\ DeadHoldsNobody'
  BY DEF LInv, Owned, DeadHoldsNobody
<1>4. QED BY <1>2, <1>3 DEF Refines, LInv, Untimed, Lock!vars

LEMMA AcquireRefines ==
    ASSUME LInv, IInv', NEW t \in Thread, NEW timeout \in Timeouts, mutex_acquire_timeout(t, timeout)
    PROVE  Refines
<1>0. pc[t] = "idle" /\ sched.state[t] = "READY" /\ mutex.magic /\ sched.timer = {} /\ Untimed /\ MutualExclusion'
  BY DEF mutex_acquire_timeout, Running, LInv, IInv
<1>1. CASE Contended /\ timeout = "ZERO"
  <2>1. sched' = sched /\ mutex' = mutex /\ pc' = pc
    BY <1>1 DEF mutex_acquire_timeout, mutex_acquire_timeout_internal
  <2>2. QED BY <2>1 DEF Refines, LInv, Untimed, Owned, DeadHoldsNobody, Owner, Running, OwningThread, Lock!vars
<1>2. CASE Contended /\ timeout # "ZERO"
  <2>1. /\ sched' = wait_queue_block(sched, WAIT, t, timeout)
        /\ mutex' = [mutex EXCEPT !.count = @ + 1]
        /\ pc' = [pc EXCEPT ![t] = "acquire"]
    BY <1>2 DEF mutex_acquire_timeout, mutex_acquire_timeout_internal
  <2>2. mutex'.magic = mutex.magic
    BY <2>1, LParts DEF TypeOK, MutexType
  <2>3. sched'.timer = {}
    <3>1. timeout = "INFINITE"
      BY <1>0, <1>2, TimeoutsAssumption DEF Untimed, Timeout
    <3>2. QED BY <1>0, <2>1, <3>1 DEF wait_queue_block
  <2>4. BlockedOn(sched, sched', {WAIT}, WAIT, t)
    <3>1. Sound(sched, {WAIT}) /\ WAIT \in {WAIT} /\ NULL \notin {WAIT}
      BY LParts
    <3>2. QED BY <1>0, <2>1, <3>1, BlockEffect
  <2>5. ~Owner(t) /\ ~Owner(t)' /\ pc'[t] = "acquire" /\ sched'.wait_queue_block_ret[t] = "NO_ERROR"
    BY <1>0, <2>1, <2>4, LParts DEF BlockedOn, Owner, Running
  <2>6. \A u \in Thread \ {t} : (Owner(u)' <=> Owner(u)) /\ pc'[u] = pc[u]
                                /\ sched'.wait_queue_block_ret[u] = sched.wait_queue_block_ret[u]
    BY <2>1, <2>4, LParts DEF BlockedOn, Owner, Running
  <2>7. PICK u \in Thread : Owner(u)
    <3>1. mutex.count >= 1
      BY <1>2, LParts DEF Contended, TypeOK, MutexType
    <3>2. QED BY <1>0, <3>1, LParts, Somebody DEF LInv, Owned
  <2>8. Owned' /\ DeadHoldsNobody'
    BY <1>0, <2>2, <2>5, <2>6, <2>7 DEF LInv, Owned, DeadHoldsNobody
  <2>9. OwningThread = u /\ OwningThread' = u /\ u # NULL /\ u # t
    <3>1. Owner(u)' /\ u # t
      BY <2>5, <2>6, <2>7
    <3>2. QED BY <1>0, <2>2, <2>7, <3>1, LParts, Owning, OwningNext, NULLAssumption
  <2>10. sched'.list[WAIT] = Append(sched.list[WAIT], t)
    BY <2>4 DEF BlockedOn
  <2>11. t \notin Range(sched.list[WAIT])
    BY <1>0, LParts, SoundFields, SMTT(30)
  <2>12. Lock!Wait(t)
    BY <2>9, <2>10, <2>11 DEF Lock!Wait, Range
  <2>13. QED BY <2>3, <2>8, <2>12 DEF Refines, LInv, Untimed, Lock!Next
<1>3. CASE ~Contended
  <2>1. /\ sched' = sched
        /\ mutex' = [mutex EXCEPT !.count = @ + 1, !.holder = t]
        /\ pc' = [pc EXCEPT ![t] = "held"]
    BY <1>3 DEF mutex_acquire_timeout, mutex_acquire_timeout_internal
  <2>2. mutex'.magic = mutex.magic
    BY <2>1, LParts DEF TypeOK, MutexType
  <2>3. \A u \in Thread : pc[u] \notin {"acquire", "held"}
    BY <1>0, <1>3, LParts, Nobody
  <2>4. sched.list[WAIT] = <<>>
    BY <2>3, LParts DEF BlockedInside
  <2>5. Owner(t)' /\ pc'[t] = "held" /\ \A u \in Thread : ~Owner(u)
    BY <2>1, <2>3, LParts DEF Owner
  <2>6. OwningThread = NULL /\ OwningThread' = t
    BY <1>0, <2>2, <2>5, Owning, OwningNext
  <2>7. Owned' /\ DeadHoldsNobody'
    BY <1>0, <2>1, <2>2, <2>3, <2>4, <2>5, LParts DEF Owned, DeadHoldsNobody
  <2>8. Lock!Take(t)
    BY <2>1, <2>4, <2>6 DEF Lock!Take
  <2>9. QED BY <1>0, <2>1, <2>7, <2>8 DEF Refines, LInv, Untimed, Lock!Next
<1>4. QED BY <1>1, <1>2, <1>3

LEMMA ResumeRefines ==
    ASSUME LInv, IInv', NEW t \in Thread, mutex_acquire_resume(t)
    PROVE  Refines
<1>0. /\ pc[t] = "acquire" /\ sched.state[t] = "READY" /\ sched.timer = {}
      /\ sched' = wait_queue_block_resume(sched, t)
  BY DEF mutex_acquire_resume, Running, LInv
<1>1. /\ sched'.timer = {} /\ sched'.list = sched.list /\ sched'.state = sched.state
      /\ sched'.wait_queue_block_ret = sched.wait_queue_block_ret
  <2>1. Sound(sched, {WAIT})
    BY LParts
  <2>2. QED BY <1>0, <2>1, ResumeEffect
<1>2. CASE mutex.magic
  <2>1. sched.wait_queue_block_ret[t] = "NO_ERROR"
    BY <1>0, <1>2 DEF LInv, Owned
  <2>2. mutex' = [mutex EXCEPT !.holder = t] /\ pc' = [pc EXCEPT ![t] = "held"]
    BY <2>1 DEF mutex_acquire_resume
  <2>3. mutex'.magic = mutex.magic
    BY <2>2, LParts DEF TypeOK, MutexType
  <2>4. \A u \in Thread : /\ Owner(u)' <=> Owner(u)
                          /\ pc'[u] \in {"acquire", "held"} => pc[u] \in {"acquire", "held"}
                          /\ pc'[u] = "acquire" => pc[u] = "acquire"
    BY <1>0, <1>1, <2>1, <2>2, LParts DEF Owner, Running
  <2>5. \A u \in Thread : pc'[u] = "acquire" => sched'.wait_queue_block_ret[u] = "NO_ERROR"
    BY <1>1, <1>2, <2>4 DEF LInv, Owned
  <2>6. QED BY <1>1, <2>3, <2>4, <2>5, QuietRefines
<1>3. CASE ~mutex.magic
  <2>1. ~mutex'.magic
    BY <1>3, LParts DEF mutex_acquire_resume, TypeOK, MutexType
  <2>2. OwningThread = NULL /\ OwningThread' = NULL
    BY <1>3, <2>1, Owning, OwningNext
  <2>3. Owned' /\ DeadHoldsNobody'
    BY <1>1, <1>3, <2>1 DEF LInv, Owned, DeadHoldsNobody
  <2>4. QED BY <1>1, <2>2, <2>3 DEF Refines, LInv, Untimed, Lock!vars
<1>4. QED BY <1>2, <1>3

\* The releasing thread passes the mutex to the first waiter, or frees it.
LEMMA ReleaseRefines ==
    ASSUME LInv, IInv', NEW t \in Thread, mutex_release(t)
    PROVE  Refines
<1>0. /\ pc[t] = "held" /\ mutex.magic /\ sched.timer = {} /\ MutualExclusion'
      /\ mutex' = [mutex EXCEPT !.holder = NULL, !.count = @ - 1]
      /\ sched' = WakeNext(sched) /\ pc' = [pc EXCEPT ![t] = "idle"]
  BY DEF mutex_release, mutex_release_internal, LInv, IInv
<1>1. mutex'.magic = mutex.magic
  BY <1>0, LParts, ZenonT(30) DEF TypeOK, MutexType
<1>2. /\ Owner(t) /\ OwningThread = t /\ t # NULL /\ ~Owner(t)'
      /\ \A u \in Thread : Owner(u) => u = t
  <2>1. Owner(t)
    BY <1>0 DEF Owner
  <2>2. \A u \in Thread : Owner(u) => u = t
    BY <1>0, <2>1, LParts DEF MutualExclusion
  <2>3. ~Owner(t)'
    BY <1>0, LParts DEF Owner
  <2>4. QED BY <1>0, <2>1, <2>2, <2>3, LParts, Owning, NULLAssumption
<1>3. \A u \in Thread \ {t} : pc[u] # "held" /\ (pc[u] = "acquire" => sched.state[u] = "BLOCKED")
  <2>1. \A u \in Thread : pc[u] = "acquire" => sched.wait_queue_block_ret[u] = "NO_ERROR"
    BY <1>0 DEF LInv, Owned
  <2>2. \A u \in Thread : sched.state[u] \in {"READY", "BLOCKED"}
    BY LParts
  <2>3. QED BY <1>2, <2>1, <2>2 DEF Owner, Running
<1>4. CASE sched.list[WAIT] = <<>>
  <2>1. sched' = sched
    BY <1>0, <1>4 DEF WakeNext, wait_queue_wake_one
  <2>2. \A u \in Thread : pc'[u] \notin {"acquire", "held"}
    BY <1>0, <1>3, <1>4, LParts
  <2>3. OwningThread' = NULL
    BY <1>0, <1>1, <2>2, OwningNext DEF Owner
  <2>4. Owned' /\ DeadHoldsNobody'
    BY <1>0, <1>1, <2>2 DEF Owned, DeadHoldsNobody
  <2>5. Lock!Free
    BY <1>2, <1>4, <2>1, <2>3 DEF Lock!Free
  <2>6. QED BY <1>0, <2>1, <2>4, <2>5 DEF Refines, LInv, Untimed, Lock!Next
<1>5. CASE sched.list[WAIT] # <<>>
  <2>1. mutex.count - 1 >= 1
    <3>1. PICK u \in Thread : sched.state[u] = "BLOCKED"
      BY <1>5, LParts
    <3>2. pc[u] = "acquire" /\ u # t
      BY <1>0, <3>1, LParts DEF BlockedInside
    <3>3. QED BY <1>0, <3>2, LParts, TwoInside
  <2>2. sched' = wait_queue_wake_one(sched, WAIT, "NO_ERROR")
    BY <1>0, <2>1 DEF WakeNext
  <2>3. WokeOne(sched, sched', {WAIT}, WAIT, "NO_ERROR")
    <3>1. "NO_ERROR" \in Status /\ Sound(sched, {WAIT}) /\ WAIT \in {WAIT} /\ NULL \notin {WAIT}
      BY LParts DEF Status
    <3>2. QED BY <2>2, <3>1, WakeOneEffect
  <2>4. PICK h \in Thread : /\ h = Head(sched.list[WAIT]) /\ sched.state[h] = "BLOCKED"
                            /\ Woken(sched, sched', h, "NO_ERROR")
                            /\ sched'.list[WAIT] = Tail(sched.list[WAIT])
    BY <1>5, <2>3 DEF WokeOne, Woken
  <2>5. Owner(h)' /\ h # t
    BY <1>0, <2>4, LParts DEF Owner, Running, Woken, BlockedInside
  <2>6. OwningThread' = h
    BY <1>0, <1>1, <2>5, OwningNext
  <2>7. Owned'
    <3>1. \A u \in Thread : pc'[u] = "acquire" => sched'.wait_queue_block_ret[u] = "NO_ERROR"
      BY <1>0, <2>4, LParts DEF LInv, Owned, Woken
    <3>2. QED BY <2>5, <3>1 DEF Owned
  <2>8. DeadHoldsNobody' /\ sched'.timer = {}
    BY <1>0, <1>1, <2>3 DEF DeadHoldsNobody, WokeOne
  <2>9. Lock!HandOver
    BY <1>2, <1>5, <2>4, <2>6 DEF Lock!HandOver
  <2>10. QED BY <2>7, <2>8, <2>9 DEF Refines, LInv, Untimed, Lock!Next
<1>6. QED BY <1>4, <1>5

LEMMA DestroyRefines ==
    ASSUME LInv, IInv', NEW t \in Thread, mutex_destroy(t)
    PROVE  Refines
<1>0. /\ mutex' = [mutex EXCEPT !.magic = FALSE, !.count = 0]
      /\ sched' = wait_queue_wake_all(sched, WAIT, "ERR_OBJECT_DESTROYED")
  BY DEF mutex_destroy, wait_queue_destroy
<1>1. ~mutex'.magic
  BY <1>0, LParts DEF TypeOK, MutexType
<1>2. sched'.list[WAIT] = <<>> /\ sched'.timer = {}
  <2>1. "ERR_OBJECT_DESTROYED" \in Status /\ Sound(sched, {WAIT}) /\ WAIT \in {WAIT} /\ NULL \notin {WAIT}
    BY LParts DEF Status
  <2>2. WokeAll(sched, sched', {WAIT}, WAIT, "ERR_OBJECT_DESTROYED")
    BY <1>0, <2>1, WakeAllEffect
  <2>3. QED BY <2>2 DEF WokeAll, LInv
<1>3. OwningThread' = NULL
  BY <1>1, OwningNext
<1>4. Owned' /\ DeadHoldsNobody'
  BY <1>1, <1>2 DEF Owned, DeadHoldsNobody
<1>5. Lock!Destroy
  BY <1>2, <1>3 DEF Lock!Destroy
<1>6. QED BY <1>2, <1>4, <1>5 DEF Refines, LInv, Untimed, Lock!Next

LEMMA DestroyResumeRefines ==
    ASSUME LInv, IInv', NEW t \in Thread, wait_queue_destroy_resume(t)
    PROVE  Refines
<1>0. pc[t] = "destroy" /\ pc' = [pc EXCEPT ![t] = "idle"] /\ UNCHANGED <<sched, mutex>> /\ sched.timer = {}
  BY DEF wait_queue_destroy_resume, LInv
<1>1. \A u \in Thread : /\ Owner(u)' <=> Owner(u)
                        /\ pc'[u] \in {"acquire", "held"} => pc[u] = pc'[u]
  BY <1>0, LParts DEF Owner, Running
<1>2. \A u \in Thread : mutex.magic /\ pc'[u] = "acquire" => sched'.wait_queue_block_ret[u] = "NO_ERROR"
  BY <1>0, <1>1 DEF LInv, Owned
<1>3. QED BY <1>0, <1>1, <1>2, QuietRefines

LEMMA InitAgainRefines ==
    ASSUME LInv, IInv', mutex_init
    PROVE  Refines
<1>0. /\ ~mutex.magic /\ (\A t \in Thread : pc[t] = "idle") /\ UNCHANGED <<sched, pc>>
      /\ mutex'.magic
  BY DEF mutex_init, MUTEX_INITIAL_VALUE
<1>1. \A t \in Thread : ~Owner(t)'
  BY <1>0 DEF Owner
<1>2. OwningThread = NULL /\ OwningThread' = NULL
  BY <1>0, <1>1, Owning, OwningNext
<1>3. Owned' /\ DeadHoldsNobody'
  BY <1>0 DEF Owned, DeadHoldsNobody
<1>4. QED BY <1>0, <1>2, <1>3 DEF Refines, LInv, Untimed, Lock!vars

LEMMA NextRefines == LInv /\ [Next]_vars => LInv' /\ [Lock!Next]_(Lock!vars)
<1> SUFFICES ASSUME LInv, [Next]_vars PROVE Refines
  BY DEF Refines
<1>1. IInv'
  BY NextIInv DEF LInv
<1>2. CASE UNCHANGED vars
  BY <1>1, <1>2 DEF vars, Refines, LInv, Untimed, Owned, DeadHoldsNobody, Owner, Running, OwningThread, Lock!vars
<1>3. CASE Next
  <2>1. ~\E t \in Thread : acquire_timeout(t)
    BY DEF acquire_timeout, LInv
  <2>2. QED BY <1>1, <1>3, <2>1, AcquireRefines, ResumeRefines, ReleaseRefines, DestroyRefines,
               DestroyResumeRefines, InitAgainRefines DEF Next
<1>4. QED BY <1>2, <1>3

(***************************************************************************)
(* kernel/mutex.c without timed acquisitions implements the lock that      *)
(* passes from owner to owner in the order of arrival, whoever destroys    *)
(* the mutex and whenever: each of its critical sections is one step of    *)
(* HandOffLock, or none.                                                   *)
(***************************************************************************)
THEOREM MutexImplementsLock == Untimed /\ Spec => ImplementsLock
BY InitLInv, NextRefines, PTL DEF Spec, ImplementsLock, Lock!Spec

(***************************************************************************)
(* Without timed acquisitions no wake-up is lost: while a thread waits for *)
(* a living mutex, some thread owns it and will wake the first waiter when *)
(* it releases.  (With timed ones this fails: mutex.c:67 backs out an      *)
(* acquisition that mutex_release() may already have counted on.)          *)
(***************************************************************************)
THEOREM UntimedMutexWakes == Untimed /\ Spec => []NoLostWakeup
<1>1. LInv => NoLostWakeup
  BY LParts DEF NoLostWakeup, LInv, Owned, BlockedInside
<1>2. QED BY InitLInv, NextRefines, <1>1, PTL DEF Spec

-----------------------------------------------------------------------------

(***************************************************************************)
(* Who is where, for scheduler record s and places p: a thread is blocked  *)
(* on the queue of the call that it is inside, its timer is set only while *)
(* it waits for the condition, and no acquisition of the mutex fails.      *)
(***************************************************************************)
Placed(s, p) ==
    \A t \in Thread :
        /\ s.blocking_wait_queue[t] = COND => p[t] = "cond"
        /\ s.blocking_wait_queue[t] = WAIT => p[t] = "acquire"
        /\ t \in s.timer => p[t] = "cond"
        /\ p[t] = "acquire" => s.wait_queue_block_ret[t] = "NO_ERROR"

\* Only consumers wait for the condition.
ConsumersWait == \A t \in Producer : pc[t] # "cond"

CInv ==
    /\ Untimed
    /\ CondTypeOK
    /\ CondWaitConsistent
    /\ Placed(sched, pc)
    /\ ConsumersWait
    /\ NoMissedSignal

\* A consumer that will see ready.
Awake(t) == pc[t] \in {"acquire", "held"} \/ (pc[t] = "cond" /\ Running(t))

LEMMA QueuesNotNull == NULL \notin Queues /\ WAIT \in Queues /\ COND \in Queues /\ WAIT # COND
BY NULLAssumption DEF Queues, WAIT, COND

\* What CInv says of the scheduler record.
LEMMA Parts ==
    ASSUME CInv
    PROVE  /\ Sound(sched, Queues)
           /\ sched.state \in [Thread -> {"READY", "BLOCKED"}]
           /\ pc \in [Thread -> Place \cup {"cond"}]
           /\ mutex \in MutexType
           /\ \A t \in Thread : sched.state[t] = "BLOCKED" => pc[t] \in {"cond", "acquire"}
<1>1. Sound(sched, Queues)
  BY DEF CInv, CondTypeOK, CondWaitConsistent, Sound
<1>2. /\ sched.state \in [Thread -> {"READY", "BLOCKED"}]
      /\ \A t \in Thread : /\ sched.state[t] = "BLOCKED" <=> sched.blocking_wait_queue[t] # NULL
                           /\ sched.blocking_wait_queue[t] \in Queues \cup {NULL}
  BY <1>1, SoundFields
<1>3. \A t \in Thread : sched.state[t] = "BLOCKED" => pc[t] \in {"cond", "acquire"}
  BY <1>2 DEF CInv, Placed, Queues
<1>4. QED BY <1>1, <1>2, <1>3 DEF CInv, CondTypeOK

LEMMA InitCInv == Untimed /\ CondInit => CInv
<1> SUFFICES ASSUME Untimed, CondInit PROVE CInv
  OBVIOUS
<1>1. Sound(sched, Queues)
  BY SchedInitSound, QueuesNotNull DEF CondInit
<1>2. Placed(sched, pc)
  <2>1. /\ sched.blocking_wait_queue = [t \in Thread |-> NULL] /\ sched.timer = {}
        /\ pc = [t \in Thread |-> "idle"]
    BY DEF CondInit, SchedInit
  <2>2. QED BY <2>1, QueuesNotNull DEF Placed
<1>3. ready \in BOOLEAN /\ magic \in BOOLEAN
  BY ZenonT(30) DEF CondInit
<1>4. MUTEX_INITIAL_VALUE \in MutexType
  BY DEF MUTEX_INITIAL_VALUE, MutexType
<1>5. CondTypeOK /\ CondWaitConsistent
  BY <1>1, <1>3, <1>4 DEF CondInit, CondTypeOK, CondWaitConsistent, Sound, Place
<1>6. ConsumersWait /\ NoMissedSignal
  BY ProducerAssumption DEF CondInit, ConsumersWait, NoMissedSignal
<1>7. QED BY <1>2, <1>5, <1>6 DEF CInv

-----------------------------------------------------------------------------

\* What the operations do to a record that is sound and placed.

LEMMA BlockPlaced ==
    ASSUME NEW s, Sound(s, Queues), NEW p \in [Thread -> Place \cup {"cond"}], Placed(s, p),
           NEW t \in Thread, s.state[t] = "READY", NEW q \in Queues, NEW timeout,
           NEW b, b = wait_queue_block(s, q, t, timeout),
           NEW r, r = [p EXCEPT ![t] = IF q = COND THEN "cond" ELSE "acquire"],
           q = WAIT => timeout = "INFINITE" /\ t \notin s.timer
    PROVE  Sound(b, Queues) /\ Placed(b, r) /\ BlockedOn(s, b, Queues, q, t)
<1>1. Sound(b, Queues) /\ BlockedOn(s, b, Queues, q, t)
  BY QueuesNotNull, BlockEffect
<1>2. q = WAIT => b.timer = s.timer
  BY DEF wait_queue_block
<1>3. Placed(b, r)
  BY <1>1, <1>2, QueuesNotNull, SMTT(30) DEF Placed, BlockedOn, Queues
<1>4. QED BY <1>1, <1>3

\* Waking the head of a queue.
LEMMA WakePlaced ==
    ASSUME NEW s, Sound(s, Queues), NEW p, Placed(s, p), NEW q \in Queues,
           NEW w, w = wait_queue_wake_one(s, q, "NO_ERROR")
    PROVE  /\ Sound(w, Queues) /\ Placed(w, p) /\ WokeOne(s, w, Queues, q, "NO_ERROR")
           /\ \A t \in Thread : s.state[t] = "READY" => w.state[t] = "READY"
<1>1. "NO_ERROR" \in Status
  BY DEF Status
<1>2. Sound(w, Queues) /\ WokeOne(s, w, Queues, q, "NO_ERROR")
  BY <1>1, QueuesNotNull, WakeOneSound, WakeOneEffect
<1>3. CASE s.list[q] = <<>>
  BY <1>2, <1>3 DEF WokeOne
<1>4. CASE s.list[q] # <<>>
  <2>1. PICK h \in Thread : Woken(s, w, h, "NO_ERROR")
    BY <1>2, <1>4 DEF WokeOne
  <2>2. w.timer = s.timer
    BY <1>2 DEF WokeOne
  <2>3. Placed(w, p) /\ \A t \in Thread : s.state[t] = "READY" => w.state[t] = "READY"
    BY <2>1, <2>2, QueuesNotNull DEF Placed, Woken
  <2>4. QED BY <1>2, <2>3
<1>5. QED BY <1>3, <1>4

LEMMA WakeAllPlaced ==
    ASSUME NEW s, Sound(s, Queues), NEW p, Placed(s, p), NEW error \in Status,
           NEW w, w = wait_queue_wake_all(s, COND, error)
    PROVE  Sound(w, Queues) /\ Placed(w, p) /\ w.list[COND] = <<>>
<1>1. Sound(w, Queues) /\ WokeAll(s, w, Queues, COND, error)
  BY QueuesNotNull, WakeAllSound, WakeAllEffect
<1>2. Placed(w, p) /\ w.list[COND] = <<>>
  BY <1>1, QueuesNotNull, SMTT(30) DEF Placed, WokeAll
<1>3. QED BY <1>1, <1>2

LEMMA ResumePlaced ==
    ASSUME NEW s, Sound(s, Queues), NEW p, Placed(s, p), NEW t \in Thread,
           NEW r, r = wait_queue_block_resume(s, t)
    PROVE  /\ Sound(r, Queues) /\ Placed(r, p) /\ t \notin r.timer
           /\ r.state = s.state /\ r.list = s.list /\ r.wait_queue_block_ret = s.wait_queue_block_ret
<1>1. /\ Sound(r, Queues) /\ r.state = s.state /\ r.list = s.list
      /\ r.wait_queue_block_ret = s.wait_queue_block_ret
      /\ r.blocking_wait_queue = s.blocking_wait_queue /\ r.timer = s.timer \ {t}
  BY ResumeEffect
<1>2. QED BY <1>1 DEF Placed

\* mutex_release_internal() on the record.
LEMMA WakeNextPlaced ==
    ASSUME CInv, NEW w, w = WakeNext(sched)
    PROVE  /\ Sound(w, Queues) /\ Placed(w, pc) /\ w.list[COND] = sched.list[COND] /\ w.timer = sched.timer
           /\ \A t \in Thread : sched.state[t] = "READY" => w.state[t] = "READY"
<1>1. Sound(sched, Queues) /\ Placed(sched, pc)
  BY Parts DEF CInv
<1>2. CASE w = sched
  BY <1>1, <1>2
<1>3. CASE w = wait_queue_wake_one(sched, WAIT, "NO_ERROR")
  <2>1. /\ Sound(w, Queues) /\ Placed(w, pc) /\ WokeOne(sched, w, Queues, WAIT, "NO_ERROR")
        /\ \A t \in Thread : sched.state[t] = "READY" => w.state[t] = "READY"
    BY <1>1, <1>3, QueuesNotNull, WakePlaced
  <2>2. w.list[COND] = sched.list[COND] /\ w.timer = sched.timer
    BY <2>1, QueuesNotNull DEF WokeOne
  <2>3. QED BY <2>1, <2>2
<1>4. QED BY <1>2, <1>3 DEF WakeNext

-----------------------------------------------------------------------------

\* No signal is missed by a step that neither sets ready nor takes back a signal,
\* adds nobody to the queue of the condition and lets no consumer go back.
LEMMA SignalKept ==
    ASSUME CInv, UNCHANGED condVars,
           sched.list[COND] = <<>> => sched'.list[COND] = <<>>,
           \A u \in Thread \ Producer : Awake(u) => Awake(u)'
    PROVE  NoMissedSignal'
<1> SUFFICES ASSUME magic, ready, sched'.list[COND] # <<>>, owes = {}
             PROVE  \E t \in Thread \ Producer : Awake(t)'
  BY DEF NoMissedSignal, condVars, Awake, Running
<1>1. PICK t \in Thread \ Producer : Awake(t)
  BY DEF CInv, NoMissedSignal, Awake
<1>2. QED BY <1>1

\* From the parts of the invariant after a step that leaves the condition alone.
LEMMA StepCInv ==
    ASSUME CInv, UNCHANGED condVars, Sound(sched', Queues), Placed(sched', pc'),
           mutex' \in MutexType, pc' \in [Thread -> Place \cup {"cond"}],
           \A u \in Producer : pc'[u] = "cond" => pc[u] = "cond", NoMissedSignal'
    PROVE  CInv'
<1>1. CondTypeOK' /\ CondWaitConsistent'
  BY DEF CInv, CondTypeOK, CondWaitConsistent, Sound, condVars
<1>2. Placed(sched, pc)' /\ ConsumersWait'
  BY DEF CInv, ConsumersWait, Placed
<1>3. QED BY <1>1, <1>2 DEF CInv, Untimed

\* mutex_acquire_timeout_internal() up to the block, by a thread that was idle or
\* waited for the condition.
LEMMA InternalCInv ==
    ASSUME CInv, UNCHANGED condVars, NEW t \in Thread, NEW timeout, timeout # "FINITE", timeout \in Timeout,
           NEW s, Sound(s, Queues), Placed(s, pc), t \notin s.timer, s.state = sched.state,
           s.list = sched.list, sched.state[t] = "READY", pc[t] \in {"idle", "cond"},
           pc[t] = "cond" => timeout = "INFINITE",
           mutex_acquire_timeout_internal(t, s, timeout)
    PROVE  CInv'
<1>0. mutex \in MutexType /\ mutex.count \in Int /\ pc \in [Thread -> Place \cup {"cond"}]
  BY Parts DEF MutexType
<1>1. CASE Contended /\ timeout = "ZERO"
  <2>1. sched' = s /\ mutex' = mutex /\ pc' = pc
    BY <1>1 DEF mutex_acquire_timeout_internal
  <2>2. NoMissedSignal'
    <3>1. \A u \in Thread \ Producer : Awake(u) => Awake(u)'
      BY <2>1 DEF Awake, Running
    <3>2. QED BY <2>1, <3>1, SignalKept
  <2>3. QED BY <1>0, <2>1, <2>2, StepCInv
<1>2. CASE Contended /\ timeout # "ZERO"
  <2>1. /\ sched' = wait_queue_block(s, WAIT, t, timeout)
        /\ mutex' = [mutex EXCEPT !.count = @ + 1]
        /\ pc' = [pc EXCEPT ![t] = "acquire"]
    BY <1>2 DEF mutex_acquire_timeout_internal
  <2>2. timeout = "INFINITE"
    BY <1>2 DEF Timeout
  <2>3. Sound(sched', Queues) /\ Placed(sched', pc') /\ BlockedOn(s, sched', Queues, WAIT, t)
    BY <1>0, <2>1, <2>2, QueuesNotNull, BlockPlaced, ZenonT(30)
  <2>4. NoMissedSignal'
    <3>1. \A u \in Thread \ Producer : Awake(u) => Awake(u)'
      BY <1>0, <2>1, <2>3 DEF Awake, Running, BlockedOn
    <3>2. sched'.list[COND] = sched.list[COND]
      BY <2>3, QueuesNotNull DEF BlockedOn
    <3>3. QED BY <3>1, <3>2, SignalKept
  <2>5. mutex' \in MutexType
    <3>1. mutex.count + 1 \in Int
      BY <1>0
    <3>2. QED BY <1>0, <2>1, <3>1 DEF MutexType
  <2>6. pc' \in [Thread -> Place \cup {"cond"}] /\ \A u \in Producer : pc'[u] = "cond" => pc[u] = "cond"
    BY <1>0, <2>1, ProducerAssumption DEF Place
  <2>7. QED BY <2>3, <2>4, <2>5, <2>6, StepCInv
<1>3. CASE ~Contended
  <2>1. /\ sched' = s /\ pc' = [pc EXCEPT ![t] = "held"]
        /\ mutex' = [mutex EXCEPT !.count = @ + 1, !.holder = t]
    BY <1>3 DEF mutex_acquire_timeout_internal
  <2>2. Placed(sched', pc')
    <3>1. s.blocking_wait_queue[t] = NULL
      BY ReadyOnNoQueue
    <3>2. QED BY <1>0, <2>1, <3>1, QueuesNotNull DEF Placed
  <2>3. NoMissedSignal'
    <3>1. \A u \in Thread \ Producer : Awake(u) => Awake(u)'
      BY <1>0, <2>1 DEF Awake, Running
    <3>2. QED BY <2>1, <3>1, SignalKept
  <2>4. mutex' \in MutexType
    <3>1. mutex.count + 1 \in Int /\ t \in Thread \cup {NULL}
      BY <1>0
    <3>2. QED BY <1>0, <2>1, <3>1, MutexUpdates, ZenonT(30)
  <2>5. pc' \in [Thread -> Place \cup {"cond"}] /\ \A u \in Producer : pc'[u] = "cond" => pc[u] = "cond"
    BY <1>0, <2>1, ProducerAssumption DEF Place
  <2>6. QED BY <2>1, <2>2, <2>3, <2>4, <2>5, StepCInv
<1>4. QED BY <1>1, <1>2, <1>3

LEMMA AcquireCInv ==
    ASSUME CInv, NEW t \in Thread, NEW timeout \in Timeouts, Acquire(t, timeout)
    PROVE  CInv'
<1>1. /\ pc[t] = "idle" /\ sched.state[t] = "READY" /\ UNCHANGED condVars
      /\ mutex_acquire_timeout_internal(t, sched, timeout)
  BY DEF Acquire, mutex_acquire_timeout, Running
<1>2. timeout # "FINITE" /\ timeout \in Timeout
  BY TimeoutsAssumption DEF CInv, Untimed
<1>3. Sound(sched, Queues) /\ Placed(sched, pc) /\ t \notin sched.timer
  BY <1>1, Parts DEF CInv, Placed
<1>4. QED BY <1>1, <1>2, <1>3, InternalCInv

LEMMA CondResumeCInv ==
    ASSUME CInv, NEW t \in Thread, cond_wait_resume(t)
    PROVE  CInv'
<1> DEFINE s == wait_queue_block_resume(sched, t)
<1>1. /\ pc[t] = "cond" /\ sched.state[t] = "READY" /\ UNCHANGED condVars
      /\ mutex_acquire_timeout_internal(t, s, "INFINITE")
  BY DEF cond_wait_resume, Running
<1>2. /\ Sound(s, Queues) /\ Placed(s, pc) /\ t \notin s.timer
      /\ s.state = sched.state /\ s.list = sched.list
  BY Parts, ResumePlaced DEF CInv
<1>3. PICK timeout \in Timeout : timeout = "INFINITE"
  BY DEF Timeout
<1> HIDE DEF s
<1>4. QED BY <1>1, <1>2, <1>3, InternalCInv

LEMMA ResumeCInv ==
    ASSUME CInv, NEW t \in Thread, mutex_acquire_resume(t), UNCHANGED condVars
    PROVE  CInv'
<1>0. /\ pc[t] = "acquire" /\ sched.wait_queue_block_ret[t] = "NO_ERROR"
      /\ sched' = wait_queue_block_resume(sched, t) /\ sched.state[t] = "READY"
      /\ mutex \in MutexType /\ pc \in [Thread -> Place \cup {"cond"}]
  BY Parts DEF mutex_acquire_resume, CInv, Placed, Running
<1>1. mutex' = [mutex EXCEPT !.holder = t] /\ pc' = [pc EXCEPT ![t] = "held"]
  BY <1>0 DEF mutex_acquire_resume
<1>2. /\ Sound(sched', Queues) /\ Placed(sched', pc) /\ t \notin sched'.timer
      /\ sched'.state = sched.state /\ sched'.list = sched.list
  BY <1>0, Parts, ResumePlaced DEF CInv
<1>3. Placed(sched', pc')
  <2>1. sched'.blocking_wait_queue[t] = NULL
    <3>1. sched'.state[t] = "READY"
      BY <1>0, <1>2
    <3>2. QED BY <3>1, <1>2, ReadyOnNoQueue
  <2>2. QED BY <1>0, <1>1, <1>2, <2>1, QueuesNotNull DEF Placed
<1>4. NoMissedSignal'
  <2>1. \A u \in Thread \ Producer : Awake(u) => Awake(u)'
    BY <1>0, <1>1, <1>2 DEF Awake, Running
  <2>2. QED BY <1>2, <2>1, SignalKept
<1>5. mutex' \in MutexType
  BY <1>0, <1>1 DEF MutexType
<1>6. pc' \in [Thread -> Place \cup {"cond"}] /\ \A u \in Producer : pc'[u] = "cond" => pc[u] = "cond"
  BY <1>0, <1>1, ProducerAssumption DEF Place
<1>7. QED BY <1>2, <1>3, <1>4, <1>5, <1>6, StepCInv

\* A thread that holds the mutex is not blocked and has no timer.
LEMMA HolderRuns ==
    ASSUME CInv, NEW t \in Thread, pc[t] = "held"
    PROVE  sched.state[t] = "READY" /\ t \notin sched.timer
BY Parts DEF CInv, Placed

LEMMA ReleaseCInv ==
    ASSUME CInv, NEW t \in Thread, Release(t)
    PROVE  CInv'
<1>0. /\ pc[t] = "held" /\ sched' = WakeNext(sched) /\ pc' = [pc EXCEPT ![t] = "idle"]
      /\ mutex' = [mutex EXCEPT !.holder = NULL, !.count = @ - 1] /\ UNCHANGED condVars
      /\ t \in Producer \/ ~ready
      /\ mutex \in MutexType /\ mutex.count \in Int /\ pc \in [Thread -> Place \cup {"cond"}]
  BY Parts DEF Release, mutex_release, mutex_release_internal, MutexType
<1>1. /\ Sound(sched', Queues) /\ Placed(sched', pc) /\ sched'.list[COND] = sched.list[COND]
      /\ sched'.timer = sched.timer
      /\ \A u \in Thread : sched.state[u] = "READY" => sched'.state[u] = "READY"
  BY <1>0, WakeNextPlaced
<1>2. Placed(sched', pc')
  BY <1>0, <1>1 DEF Placed
<1>3. NoMissedSignal'
  <2>1. CASE ~ready
    BY <1>0, <2>1 DEF NoMissedSignal, condVars
  <2>2. CASE t \in Producer
    <3>1. \A u \in Thread \ Producer : Awake(u) => Awake(u)'
      BY <1>0, <1>1, <2>2 DEF Awake, Running
    <3>2. QED BY <1>0, <1>1, <3>1, SignalKept
  <2>3. QED BY <1>0, <2>1, <2>2
<1>4. mutex' \in MutexType
  <2>1. mutex.count - 1 \in Int /\ NULL \in Thread \cup {NULL}
    BY <1>0
  <2>2. QED BY <1>0, <2>1, MutexUpdates, ZenonT(30)
<1>5. pc' \in [Thread -> Place \cup {"cond"}] /\ \A u \in Producer : pc'[u] = "cond" => pc[u] = "cond"
  BY <1>0, ProducerAssumption DEF Place
<1>6. QED BY <1>0, <1>1, <1>2, <1>3, <1>4, <1>5, StepCInv

\* The timer of a wait for the condition expires: the consumer is awake.
LEMMA TimeoutCInv ==
    ASSUME CInv, NEW t \in Thread, acquire_timeout(t), UNCHANGED condVars
    PROVE  CInv'
<1>0. t \in sched.timer /\ sched' = wait_queue_timeout_handler(sched, t) /\ mutex' = mutex /\ pc' = pc
  BY DEF acquire_timeout
<1>1. pc[t] = "cond" /\ t \notin Producer
  BY <1>0 DEF CInv, Placed, ConsumersWait
<1>2. Sound(sched', Queues) /\ Expired(sched, sched', t)
  <2>1. Sound(sched, Queues)
    BY Parts
  <2>2. QED BY <1>0, <2>1, QueuesNotNull, TimeoutSound, TimeoutEffect
<1>3. CASE sched.state[t] # "BLOCKED"
  <2>1. /\ sched'.state = sched.state /\ sched'.list = sched.list /\ sched'.timer = sched.timer \ {t}
        /\ sched'.wait_queue_block_ret = sched.wait_queue_block_ret
        /\ sched'.blocking_wait_queue = sched.blocking_wait_queue
    BY <1>2, <1>3 DEF Expired
  <2>2. Placed(sched', pc')
    BY <1>0, <2>1 DEF CInv, Placed
  <2>3. NoMissedSignal'
    <3>1. \A u \in Thread \ Producer : Awake(u) => Awake(u)'
      BY <1>0, <2>1 DEF Awake, Running
    <3>2. QED BY <2>1, <3>1, SignalKept
  <2>4. QED BY <1>0, <1>2, <2>2, <2>3, Parts, StepCInv
<1>4. CASE sched.state[t] = "BLOCKED"
  <2>1. Woken(sched, sched', t, "ERR_TIMED_OUT") /\ sched'.timer = sched.timer \ {t}
    BY <1>2, <1>4 DEF Expired
  <2>2. Placed(sched', pc')
    <3>1. \A u \in Thread : u # t => /\ sched'.blocking_wait_queue[u] = sched.blocking_wait_queue[u]
                                    /\ sched'.wait_queue_block_ret[u] = sched.wait_queue_block_ret[u]
      BY <2>1 DEF Woken
    <3>2. sched'.blocking_wait_queue[t] = NULL /\ sched'.timer = sched.timer \ {t} /\ pc' = pc
      BY <1>0, <2>1 DEF Woken
    <3>3. Placed(sched, pc)
      BY DEF CInv
    <3>4. ASSUME NEW u \in Thread, u # t
          PROVE  /\ sched'.blocking_wait_queue[u] = COND => pc'[u] = "cond"
                 /\ sched'.blocking_wait_queue[u] = WAIT => pc'[u] = "acquire"
                 /\ u \in sched'.timer => pc'[u] = "cond"
                 /\ pc'[u] = "acquire" => sched'.wait_queue_block_ret[u] = "NO_ERROR"
      BY <3>1, <3>2, <3>3, <3>4 DEF Placed
    <3>5. /\ sched'.blocking_wait_queue[t] \notin {COND, WAIT}
          /\ t \notin sched'.timer /\ pc'[t] = "cond"
      BY <3>2, <1>1, QueuesNotNull
    <3>6. QED BY <3>4, <3>5 DEF Placed
  <2>3. NoMissedSignal'
    <3>1. sched'.state[t] = "READY" /\ pc'[t] = "cond"
      BY <1>0, <1>1, <2>1 DEF Woken
    <3>2. QED BY <1>1, <3>1 DEF NoMissedSignal, Running
  <2>4. QED BY <1>0, <1>2, <2>2, <2>3, Parts, StepCInv
<1>5. QED BY <1>3, <1>4

LEMMA DestroyResumeCInv ==
    ASSUME CInv, NEW t \in Thread, wait_queue_destroy_resume(t), UNCHANGED condVars
    PROVE  CInv'
<1>0. /\ pc[t] = "destroy" /\ pc' = [pc EXCEPT ![t] = "idle"] /\ sched' = sched /\ mutex' = mutex
      /\ pc \in [Thread -> Place \cup {"cond"}]
  BY Parts DEF wait_queue_destroy_resume
<1>1. Placed(sched', pc')
  BY <1>0 DEF CInv, Placed
<1>2. NoMissedSignal'
  <2>1. \A u \in Thread \ Producer : Awake(u) => Awake(u)'
    BY <1>0 DEF Awake, Running
  <2>2. QED BY <1>0, <2>1, SignalKept
<1>3. pc' \in [Thread -> Place \cup {"cond"}] /\ \A u \in Producer : pc'[u] = "cond" => pc[u] = "cond"
  BY <1>0, ProducerAssumption DEF Place
<1>4. QED BY <1>0, <1>1, <1>2, <1>3, Parts, StepCInv

\* A consumer that found ready unset goes to sleep, on the condition or, when it
\* would not wait, on the mutex that it has just handed over.
LEMMA CondWaitCInv ==
    ASSUME CInv, NEW t \in Thread, NEW timeout, cond_wait_timeout(t, timeout)
    PROVE  CInv'
<1> DEFINE w == WakeNext(sched)
<1>0. /\ t \notin Producer /\ pc[t] = "held" /\ ~ready /\ UNCHANGED condVars
      /\ mutex \in MutexType /\ mutex.count \in Int /\ pc \in [Thread -> Place \cup {"cond"}]
  BY Parts DEF cond_wait_timeout, MutexType
<1>1. /\ Sound(w, Queues) /\ Placed(w, pc) /\ w.timer = sched.timer /\ w.state[t] = "READY"
      /\ t \notin w.timer
  <2>1. sched.state[t] = "READY" /\ t \notin sched.timer
    BY <1>0, HolderRuns
  <2>2. QED BY <2>1, WakeNextPlaced
<1>2. NoMissedSignal'
  BY <1>0 DEF NoMissedSignal, condVars
<1>3. CASE timeout # "ZERO"
  <2>1. /\ mutex' = [mutex EXCEPT !.holder = NULL, !.count = @ - 1]
        /\ sched' = wait_queue_block(w, COND, t, timeout) /\ pc' = [pc EXCEPT ![t] = "cond"]
    BY <1>3 DEF cond_wait_timeout
  <2> HIDE DEF w
  <2>2. Sound(sched', Queues) /\ Placed(sched', pc')
    BY <1>0, <1>1, <2>1, QueuesNotNull, BlockPlaced, ZenonT(30)
  <2>3. mutex' \in MutexType
    <3>1. mutex.count - 1 \in Int /\ NULL \in Thread \cup {NULL}
      BY <1>0
    <3>2. QED BY <1>0, <2>1, <3>1, MutexUpdates, ZenonT(30)
  <2>4. pc' \in [Thread -> Place \cup {"cond"}] /\ \A u \in Producer : pc'[u] = "cond" => pc[u] = "cond"
    BY <1>0, <2>1, ProducerAssumption DEF Place
  <2>5. QED BY <1>0, <1>2, <2>2, <2>3, <2>4, StepCInv
<1>4. CASE timeout = "ZERO" /\ mutex.count > 1
  <2>1. /\ mutex' = [mutex EXCEPT !.holder = NULL]
        /\ sched' = wait_queue_block(w, WAIT, t, "INFINITE") /\ pc' = [pc EXCEPT ![t] = "acquire"]
    BY <1>0, <1>4 DEF cond_wait_timeout
  <2> HIDE DEF w
  <2>2. PICK infinite : infinite = "INFINITE"
    OBVIOUS
  <2>3. Sound(sched', Queues) /\ Placed(sched', pc')
    BY <1>0, <1>1, <2>1, <2>2, QueuesNotNull, BlockPlaced, ZenonT(30)
  <2>4. mutex' \in MutexType
    BY <1>0, <2>1, MutexUpdates, ZenonT(30)
  <2>5. pc' \in [Thread -> Place \cup {"cond"}] /\ \A u \in Producer : pc'[u] = "cond" => pc[u] = "cond"
    BY <1>0, <2>1, ProducerAssumption DEF Place
  <2>6. QED BY <1>0, <1>2, <2>3, <2>4, <2>5, StepCInv
<1>5. CASE timeout = "ZERO" /\ ~(mutex.count > 1)
  <2>1. sched' = sched /\ mutex' = mutex /\ pc' = pc
    BY <1>0, <1>5 DEF cond_wait_timeout, vars
  <2>2. QED BY <1>0, <1>2, <2>1, Parts, StepCInv DEF CInv
<1>6. QED BY <1>3, <1>4, <1>5

\* From the parts of the invariant after a step that leaves the mutex alone.
LEMMA CondStepCInv ==
    ASSUME CInv, Sound(sched', Queues), Placed(sched', pc'), UNCHANGED mutex,
           pc' \in [Thread -> Place \cup {"cond"}],
           \A u \in Producer : pc'[u] = "cond" => pc[u] = "cond",
           ready' \in BOOLEAN, magic' \in BOOLEAN, owes' \subseteq Producer, NoMissedSignal'
    PROVE  CInv'
<1>1. CondTypeOK' /\ CondWaitConsistent'
  BY DEF CInv, CondTypeOK, CondWaitConsistent, Sound
<1>2. Placed(sched, pc)' /\ ConsumersWait'
  BY DEF CInv, ConsumersWait, Placed
<1>3. QED BY <1>1, <1>2 DEF CInv, Untimed

\* A thread on the queue of the condition is a consumer inside its wait.
LEMMA OnCond ==
    ASSUME CInv, NEW h \in Thread, sched.blocking_wait_queue[h] = COND
    PROVE  pc[h] = "cond" /\ h \notin Producer
BY DEF CInv, Placed, ConsumersWait

LEMMA SignalCInv ==
    ASSUME CInv, NEW t \in Thread, cond_signal(t)
    PROVE  CInv'
<1>0. /\ sched' = wait_queue_wake_one(sched, COND, "NO_ERROR") /\ owes' = owes \ {t}
      /\ UNCHANGED <<mutex, pc, ready, magic>>
      /\ ready \in BOOLEAN /\ magic \in BOOLEAN /\ owes \subseteq Producer
  BY DEF cond_signal, CInv, CondTypeOK
<1>1. Sound(sched', Queues) /\ Placed(sched', pc) /\ WokeOne(sched, sched', Queues, COND, "NO_ERROR")
  <2>1. Sound(sched, Queues) /\ Placed(sched, pc) /\ COND \in Queues
    BY Parts, QueuesNotNull DEF CInv
  <2>2. QED BY <1>0, <2>1, WakePlaced
<1>2. NoMissedSignal'
  <2>1. CASE sched.list[COND] = <<>>
    BY <1>1, <2>1 DEF WokeOne, NoMissedSignal
  <2>2. CASE sched.list[COND] # <<>>
    <3>1. PICK h \in Thread : sched.blocking_wait_queue[h] = COND /\ Woken(sched, sched', h, "NO_ERROR")
      BY <1>1, <2>2 DEF WokeOne
    <3>2. sched'.state[h] = "READY" /\ pc'[h] = "cond" /\ h \notin Producer
      BY <1>0, <3>1, OnCond DEF Woken
    <3>3. QED BY <3>2 DEF NoMissedSignal, Running
  <2>3. QED BY <2>1, <2>2
<1>3. QED BY <1>0, <1>1, <1>2, Parts, CondStepCInv

LEMMA BroadcastCInv ==
    ASSUME CInv, NEW t \in Thread, cond_broadcast(t)
    PROVE  CInv'
<1>0. /\ sched' = wait_queue_wake_all(sched, COND, "NO_ERROR") /\ owes' = owes \ {t}
      /\ UNCHANGED <<mutex, pc, ready, magic>>
      /\ ready \in BOOLEAN /\ magic \in BOOLEAN /\ owes \subseteq Producer
  BY DEF cond_broadcast, CInv, CondTypeOK
<1>1. Sound(sched', Queues) /\ Placed(sched', pc) /\ sched'.list[COND] = <<>>
  <2>1. Sound(sched, Queues) /\ Placed(sched, pc) /\ "NO_ERROR" \in Status
    BY Parts DEF CInv, Status
  <2>2. QED BY <1>0, <2>1, WakeAllPlaced
<1>2. NoMissedSignal'
  BY <1>1 DEF NoMissedSignal
<1>3. QED BY <1>0, <1>1, <1>2, Parts, CondStepCInv

LEMMA DestroyCInv ==
    ASSUME CInv, NEW t \in Thread, cond_destroy(t)
    PROVE  CInv'
<1>0. /\ sched' = wait_queue_wake_all(sched, COND, "ERR_OBJECT_DESTROYED") /\ magic' = FALSE
      /\ pc[t] = "idle" /\ UNCHANGED <<mutex, ready, owes>>
      /\ pc' = [pc EXCEPT ![t] = IF sched.list[COND] = <<>> THEN "idle" ELSE "destroy"]
      /\ ready \in BOOLEAN /\ owes \subseteq Producer /\ pc \in [Thread -> Place \cup {"cond"}]
  BY DEF cond_destroy, wait_queue_destroy, CInv, CondTypeOK
<1>1. Sound(sched', Queues) /\ Placed(sched', pc)
  <2>1. Sound(sched, Queues) /\ Placed(sched, pc) /\ "ERR_OBJECT_DESTROYED" \in Status
    BY Parts DEF CInv, Status
  <2>2. QED BY <1>0, <2>1, WakeAllPlaced
<1>2. Placed(sched', pc')
  BY <1>0, <1>1 DEF Placed
<1>3. pc' \in [Thread -> Place \cup {"cond"}] /\ \A u \in Producer : pc'[u] = "cond" => pc[u] = "cond"
  BY <1>0, ProducerAssumption DEF Place
<1>4. NoMissedSignal' /\ magic' \in BOOLEAN
  BY <1>0, ZenonT(30) DEF NoMissedSignal
<1>5. QED BY <1>0, <1>1, <1>2, <1>3, <1>4, CondStepCInv

\* cond_init() finds nobody on the queue: the signals are as exact as before.
LEMMA CondInitCInv ==
    ASSUME CInv, cond_init
    PROVE  CInv'
<1>0. /\ UNCHANGED <<sched, mutex, pc, ready, owes>> /\ magic' = TRUE
      /\ \A t \in Thread : pc[t] # "cond"
      /\ ready \in BOOLEAN /\ owes \subseteq Producer
  BY DEF cond_init, vars, CInv, CondTypeOK
<1>1. sched.list[COND] = <<>>
  <2>1. CASE sched.list[COND] # <<>>
    <3>1. Sound(sched, Queues) /\ COND \in Queues
      BY Parts, QueuesNotNull
    <3>2. Head(sched.list[COND]) \in Thread /\ sched.blocking_wait_queue[Head(sched.list[COND])] = COND
      BY <2>1, <3>1, HeadWaits
    <3>3. QED BY <1>0, <3>2, OnCond
  <2>2. QED BY <2>1
<1>2. NoMissedSignal' /\ magic' \in BOOLEAN
  BY <1>0, <1>1 DEF NoMissedSignal
<1>3. QED BY <1>0, <1>2, Parts, CondStepCInv DEF CInv

LEMMA ClientCInv ==
    ASSUME CInv, NEW t \in Thread, Produce(t) \/ Consume(t)
    PROVE  CInv'
<1>0. /\ UNCHANGED <<sched, mutex, pc, magic>> /\ magic \in BOOLEAN /\ owes \subseteq Producer
      /\ owes' \subseteq Producer
  BY DEF Produce, Consume, vars, CInv, CondTypeOK
<1>1. ready' \in BOOLEAN
  BY ZenonT(30) DEF Produce, Consume
<1>2. NoMissedSignal'
  BY DEF Produce, Consume, NoMissedSignal
<1>3. QED BY <1>0, <1>1, <1>2, Parts, CondStepCInv DEF CInv

LEMMA NextCInv == CInv /\ [CondNext]_allVars => CInv'
<1> SUFFICES ASSUME CInv, [CondNext]_allVars PROVE CInv'
  OBVIOUS
<1>1. CASE UNCHANGED allVars
  BY <1>1 DEF allVars, vars, condVars, CInv, Untimed, CondTypeOK, CondWaitConsistent, QueuesConsistent, On,
              Placed, ConsumersWait, NoMissedSignal, Running
<1>2. CASE CondNext
  BY <1>2, AcquireCInv, ResumeCInv, ReleaseCInv, TimeoutCInv, DestroyResumeCInv, CondWaitCInv, CondResumeCInv,
     SignalCInv, BroadcastCInv, DestroyCInv, ClientCInv, CondInitCInv DEF CondNext
<1>3. QED BY <1>1, <1>2

(***************************************************************************)
(* kernel/cond.c on kernel/mutex.c misses no signal: a consumer sleeps on  *)
(* the condition while ready is set only as long as a producer has still   *)
(* to signal or another consumer is on its way to see it.  Consumers may   *)
(* time out on the condition, or the condition be destroyed; only the      *)
(* mutex is acquired without a finite timeout, since a consumer that gives *)
(* up the mutex takes its signal with it.                                  *)
(***************************************************************************)
THEOREM MonitorMissesNoSignal == Untimed /\ CondSpec => []NoMissedSignal
<1>1. CInv => NoMissedSignal
  BY DEF CInv
<1>2. QED BY InitCInv, NextCInv, <1>1, PTL DEF CondSpec

(***************************************************************************)
(* While threads move between the queue of the condition and that of the   *)
(* mutex, inside cond_wait_timeout(), each is on the queue it is blocked   *)
(* on, once, and on no other.                                              *)
(***************************************************************************)
THEOREM MonitorQueuesConsistent == Untimed /\ CondSpec => []CondWaitConsistent
<1>1. CInv => CondWaitConsistent
  BY DEF CInv
<1>2. QED BY InitCInv, NextCInv, <1>1, PTL DEF CondSpec

=============================================================================
