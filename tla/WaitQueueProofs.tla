--------------------------- MODULE WaitQueueProofs ---------------------------
(***************************************************************************)
(* Every wait queue operation keeps the scheduler record well typed and    *)
(* its queues consistent, for every set of threads and of wait queues.     *)
(***************************************************************************)
EXTENDS WaitQueue, ListProofs

LEMMA DeleteElements ==
    ASSUME NEW l \in Seq(Thread), IsInjective(l), NEW t \in Range(l)
    PROVE  /\ list_delete(l, t) \in Seq(Thread)
           /\ Len(list_delete(l, t)) = Len(l) - 1
           /\ Range(list_delete(l, t)) = Range(l) \ {t}
           /\ IsInjective(list_delete(l, t))
<1> DEFINE k == CHOOSE i \in DOMAIN l : l[i] = t
<1>1. k \in 1..Len(l) /\ l[k] = t
  BY ElementsOfList
<1> HIDE DEF k
<1>2. QED BY <1>1, RemoveElements, ZenonT(30) DEF list_delete, k

-----------------------------------------------------------------------------

\* The scheduler record s is over the wait queues Q and its queues are sound.
Sound(s, Q) == s \in SchedType(Q) /\ QueuesConsistent(s, Q)

LEMMA SchedInitSound ==
    ASSUME NEW Q, NULL \notin Q PROVE Sound(SchedInit(Q), Q)
<1>1. <<>> \in Seq(Thread) /\ Len(<<>>) = 0 /\ Range(<<>>) = {} /\ IsInjective(<<>>)
  BY DEF Range, IsInjective
<1>2. QED
  BY <1>1 DEF Sound, SchedInit, SchedType, QueuesConsistent, On, Status

\* The two halves of Sound, field by field.
LEMMA SoundFields ==
    ASSUME NEW Q, NEW s, Sound(s, Q)
    PROVE  /\ s \in SchedType(Q)
           /\ s.state \in [Thread -> {"READY", "BLOCKED"}]
           /\ s.blocking_wait_queue \in [Thread -> Q \cup {NULL}]
           /\ s.wait_queue_block_ret \in [Thread -> Status]
           /\ s.timer \subseteq Thread
           /\ s.list \in [Q -> Seq(Thread)]
           /\ s.count \in [Q -> Int]
           /\ \A t \in Thread : s.state[t] = "BLOCKED" <=> s.blocking_wait_queue[t] # NULL
           /\ \A q \in Q : /\ s.list[q] \in Seq(Thread)
                           /\ Range(s.list[q]) = {t \in Thread : s.blocking_wait_queue[t] = q}
                           /\ IsInjective(s.list[q])
                           /\ s.count[q] = Len(s.list[q])
<1>1. s \in SchedType(Q) BY DEF Sound
<1>2. s.list \in [Q -> Seq(Thread)] BY <1>1 DEF SchedType
<1>3. QED BY <1>1, <1>2 DEF Sound, SchedType, QueuesConsistent, On

\* A READY thread is on no wait queue: blocking_wait_queue is NULL, as the unblock left it.
LEMMA ReadyOnNoQueue ==
    ASSUME NEW Q, NEW s, Sound(s, Q), NEW t \in Thread, s.state[t] = "READY"
    PROVE  s.blocking_wait_queue[t] = NULL
<1>1. \A u \in Thread : s.state[u] = "BLOCKED" <=> s.blocking_wait_queue[u] # NULL
  BY SoundFields
<1>2. QED BY <1>1

\* Enough for a record to be sound: its fields, and its queues one by one.
LEMMA FieldsSound ==
    ASSUME NEW Q, NEW s \in SchedType(Q),
           \A t \in Thread : s.state[t] = "BLOCKED" <=> s.blocking_wait_queue[t] # NULL,
           \A q \in Q : /\ Range(s.list[q]) = {t \in Thread : s.blocking_wait_queue[t] = q}
                        /\ IsInjective(s.list[q])
                        /\ s.count[q] = Len(s.list[q])
    PROVE  Sound(s, Q)
BY DEF Sound, QueuesConsistent, On

\* A running thread that blocks keeps the queues sound.
LEMMA BlockSound ==
    ASSUME NEW Q, NULL \notin Q, NEW q \in Q, NEW s, Sound(s, Q),
           NEW t \in Thread, s.state[t] = "READY", NEW timeout
    PROVE  Sound(wait_queue_block(s, q, t, timeout), Q)
<1> DEFINE b == wait_queue_block(s, q, t, timeout)
           l == Append(s.list[q], t)
<1>0. s \in SchedType(Q)
  BY DEF Sound
<1>1. t \notin Range(s.list[q]) /\ IsInjective(s.list[q]) /\ s.list[q] \in Seq(Thread)
  BY SoundFields
<1>2. l \in Seq(Thread) /\ Len(l) = Len(s.list[q]) + 1 /\ Range(l) = Range(s.list[q]) \cup {t} /\ IsInjective(l)
  BY <1>1, AppendElements
<1>3. b \in SchedType(Q)
  <2>1. Append(s.list[q], t) \in Seq(Thread)
    BY <1>2
  <2>2. QED BY <2>1, <1>0 DEF SchedType, wait_queue_block, Status
<1>4. /\ b.state = [s.state EXCEPT ![t] = "BLOCKED"]
      /\ b.blocking_wait_queue = [s.blocking_wait_queue EXCEPT ![t] = q]
      /\ b.timer \subseteq s.timer \cup {t}
      /\ b.list = [s.list EXCEPT ![q] = l]
      /\ b.count = [s.count EXCEPT ![q] = s.count[q] + 1]
  BY <1>0 DEF SchedType, wait_queue_block
<1> HIDE DEF b, l
<1>5. \A u \in Thread : b.state[u] = "BLOCKED" <=> b.blocking_wait_queue[u] # NULL
  BY <1>4, SoundFields
<1>6. ASSUME NEW p \in Q
      PROVE  /\ Range(b.list[p]) = {u \in Thread : b.blocking_wait_queue[u] = p}
             /\ IsInjective(b.list[p])
             /\ b.count[p] = Len(b.list[p])
  <2>1. CASE p = q
    BY <2>1, <1>2, <1>4, SoundFields
  <2>2. CASE p # q
    <3>1. b.list[p] = s.list[p] /\ b.count[p] = s.count[p]
      BY <2>2, <1>4, SoundFields
    <3>2. s.blocking_wait_queue[t] = NULL
      BY SoundFields
    <3>3. \A u \in Thread : b.blocking_wait_queue[u] = p <=> s.blocking_wait_queue[u] = p
      BY <3>2, <2>2, <1>4, SoundFields
    <3>4. QED BY <3>1, <3>3, SoundFields
  <2>3. QED BY <2>1, <2>2
<1>7. QED BY <1>3, <1>5, <1>6, FieldsSound DEF b

\* Waking a thread that waits on q keeps the queues sound.
LEMMA WakeSound ==
    ASSUME NEW Q, NULL \notin Q, NEW q \in Q, NEW s, Sound(s, Q),
           NEW t \in Thread, s.blocking_wait_queue[t] = q, NEW error \in Status
    PROVE  Sound(Wake(s, q, t, error), Q)
<1> DEFINE w == Wake(s, q, t, error)
           l == list_delete(s.list[q], t)
<1>0. s \in SchedType(Q)
  BY DEF Sound
<1>1. t \in Range(s.list[q]) /\ IsInjective(s.list[q]) /\ s.list[q] \in Seq(Thread)
  BY SoundFields
<1>2. l \in Seq(Thread) /\ Len(l) = Len(s.list[q]) - 1 /\ Range(l) = Range(s.list[q]) \ {t} /\ IsInjective(l)
  BY <1>1, DeleteElements
<1>3. /\ w.state = [s.state EXCEPT ![t] = "READY"]
      /\ w.blocking_wait_queue = [s.blocking_wait_queue EXCEPT ![t] = NULL]
      /\ w.list = [s.list EXCEPT ![q] = l]
      /\ w.count = [s.count EXCEPT ![q] = s.count[q] - 1]
  BY <1>0 DEF SchedType, Wake
<1>4. w \in SchedType(Q)
  BY <1>0, <1>2 DEF SchedType, Wake
<1> HIDE DEF w, l
<1>5. \A u \in Thread : w.state[u] = "BLOCKED" <=> w.blocking_wait_queue[u] # NULL
  BY <1>3, SoundFields
<1>6. ASSUME NEW p \in Q
      PROVE  /\ Range(w.list[p]) = {u \in Thread : w.blocking_wait_queue[u] = p}
             /\ IsInjective(w.list[p])
             /\ w.count[p] = Len(w.list[p])
  <2>1. CASE p = q
    <3>1. w.list[p] = l /\ w.count[p] = s.count[q] - 1
      BY <2>1, <1>3, SoundFields
    <3>2. \A u \in Thread : w.blocking_wait_queue[u] = p <=> u # t /\ s.blocking_wait_queue[u] = q
      BY <2>1, <1>3, SoundFields
    <3>3. Range(s.list[q]) = {u \in Thread : s.blocking_wait_queue[u] = q} /\ s.count[q] = Len(s.list[q])
      BY SoundFields
    <3>4. QED BY <3>1, <3>2, <3>3, <1>2
  <2>2. CASE p # q
    <3>1. w.list[p] = s.list[p] /\ w.count[p] = s.count[p]
      BY <2>2, <1>3, SoundFields
    <3>2. \A u \in Thread : w.blocking_wait_queue[u] = p <=> s.blocking_wait_queue[u] = p
      BY <2>2, <1>3, SoundFields
    <3>3. QED BY <3>1, <3>2, SoundFields
  <2>3. QED BY <2>1, <2>2
<1>7. QED BY <1>4, <1>5, <1>6, FieldsSound DEF w

\* The head of a queue that is not empty is blocked on it.
LEMMA HeadWaits ==
    ASSUME NEW Q, NEW q \in Q, NEW s, Sound(s, Q), s.list[q] # <<>>
    PROVE  Head(s.list[q]) \in Thread /\ s.blocking_wait_queue[Head(s.list[q])] = q
<1>1. s.list[q] \in Seq(Thread) /\ Range(s.list[q]) = {t \in Thread : s.blocking_wait_queue[t] = q}
  BY SoundFields
<1>2. Head(s.list[q]) \in Range(s.list[q])
  BY <1>1, HeadTailProperties, EmptySeq, ElementsOfList
<1>3. QED BY <1>1, <1>2

\* A queue is empty exactly if no thread is blocked on it.
LEMMA EmptyMeansNone ==
    ASSUME NEW q, NULL # q, NEW s, Sound(s, {q})
    PROVE  s.list[q] = <<>> <=> \A t \in Thread : s.state[t] # "BLOCKED"
<1>1. /\ s.list[q] \in Seq(Thread) /\ Range(s.list[q]) = {t \in Thread : s.blocking_wait_queue[t] = q}
      /\ \A t \in Thread : s.state[t] = "BLOCKED" <=> s.blocking_wait_queue[t] # NULL
      /\ \A t \in Thread : s.blocking_wait_queue[t] \in {q, NULL}
  BY SoundFields
<1>2. ASSUME s.list[q] = <<>> PROVE \A t \in Thread : s.state[t] # "BLOCKED"
  <2>1. Range(<<>>) = {}
    BY DEF Range
  <2>2. QED BY <1>1, <1>2, <2>1
<1>3. ASSUME \A t \in Thread : s.state[t] # "BLOCKED" PROVE s.list[q] = <<>>
  <2>1. CASE s.list[q] # <<>>
    <3>1. q \in {q}
      OBVIOUS
    <3>2. Head(s.list[q]) \in Thread /\ s.blocking_wait_queue[Head(s.list[q])] = q
      BY <2>1, <3>1, HeadWaits, ZenonT(30)
    <3>3. QED BY <1>1, <1>3, <3>2
  <2>2. QED BY <2>1
<1>4. QED BY <1>2, <1>3

LEMMA WakeOneSound ==
    ASSUME NEW Q, NULL \notin Q, NEW q \in Q, NEW s, Sound(s, Q), NEW error \in Status
    PROVE  Sound(wait_queue_wake_one(s, q, error), Q)
BY HeadWaits, WakeSound DEF wait_queue_wake_one

LEMMA WakeAllSound ==
    ASSUME NEW Q, NULL \notin Q, NEW q \in Q, NEW s, Sound(s, Q), NEW error \in Status
    PROVE  Sound(wait_queue_wake_all(s, q, error), Q)
<1> DEFINE w == wait_queue_wake_all(s, q, error)
<1>0. s \in SchedType(Q)
  BY DEF Sound
<1>1. <<>> \in Seq(Thread) /\ Len(<<>>) = 0 /\ Range(<<>>) = {} /\ IsInjective(<<>>)
  BY DEF Range, IsInjective
<1>2. s.list[q] \in Seq(Thread) /\ On(s, q) = {t \in Thread : s.blocking_wait_queue[t] = q}
  BY SoundFields DEF On
<1>3. Len(s.list[q]) \in Nat
  BY <1>2, LenProperties
<1>4. w \in SchedType(Q)
  BY <1>0, <1>1, <1>3 DEF SchedType, wait_queue_wake_all
<1>5. /\ w.state = [t \in Thread |-> IF t \in On(s, q) THEN "READY" ELSE s.state[t]]
      /\ w.blocking_wait_queue = [t \in Thread |-> IF t \in On(s, q) THEN NULL ELSE s.blocking_wait_queue[t]]
      /\ w.list = [s.list EXCEPT ![q] = <<>>]
      /\ w.count = [s.count EXCEPT ![q] = s.count[q] - Len(s.list[q])]
  BY DEF wait_queue_wake_all
<1> HIDE DEF w
<1>6. \A u \in Thread : w.state[u] = "BLOCKED" <=> w.blocking_wait_queue[u] # NULL
  BY <1>5, SoundFields
<1>7. ASSUME NEW p \in Q
      PROVE  /\ Range(w.list[p]) = {u \in Thread : w.blocking_wait_queue[u] = p}
             /\ IsInjective(w.list[p])
             /\ w.count[p] = Len(w.list[p])
  <2>1. CASE p = q
    <3>1. w.list[p] = <<>> /\ w.count[p] = 0
      BY <2>1, <1>3, <1>5, SoundFields
    <3>2. \A u \in Thread : w.blocking_wait_queue[u] # p
      BY <2>1, <1>2, <1>5, SoundFields
    <3>3. QED BY <3>1, <3>2, <1>1
  <2>2. CASE p # q
    <3>1. w.list[p] = s.list[p] /\ w.count[p] = s.count[p]
      BY <2>2, <1>5, SoundFields
    <3>2. \A u \in Thread : w.blocking_wait_queue[u] = p <=> s.blocking_wait_queue[u] = p
      BY <2>2, <1>2, <1>5, SoundFields
    <3>3. QED BY <3>1, <3>2, SoundFields
  <2>3. QED BY <2>1, <2>2
<1>8. QED BY <1>4, <1>6, <1>7, FieldsSound DEF w

LEMMA ResumeSound ==
    ASSUME NEW Q, NEW s, Sound(s, Q), NEW t
    PROVE  Sound(wait_queue_block_resume(s, t), Q)
BY SMTT(30) DEF Sound, SchedType, QueuesConsistent, On, wait_queue_block_resume

LEMMA TimeoutSound ==
    ASSUME NEW Q, NULL \notin Q, NEW s, Sound(s, Q), NEW t \in Thread
    PROVE  Sound(wait_queue_timeout_handler(s, t), Q)
<1> DEFINE r == wait_queue_block_resume(s, t)
<1>1. Sound(r, Q)
  BY ResumeSound
<1>2. wait_queue_timeout_handler(s, t) = thread_unblock_from_wait_queue(r, t, "ERR_TIMED_OUT")
  BY DEF wait_queue_timeout_handler, wait_queue_block_resume
<1> HIDE DEF r
<1>3. CASE r.state[t] # "BLOCKED"
  BY <1>1, <1>2, <1>3 DEF thread_unblock_from_wait_queue
<1>4. CASE r.state[t] = "BLOCKED"
  <2>1. r.blocking_wait_queue[t] \in Q
    BY <1>1, <1>4, SoundFields
  <2>2. "ERR_TIMED_OUT" \in Status
    BY DEF Status
  <2>3. QED BY <1>1, <1>2, <1>4, <2>1, <2>2, WakeSound DEF thread_unblock_from_wait_queue
<1>5. QED BY <1>3, <1>4

-----------------------------------------------------------------------------

(***************************************************************************)
(* What the operations do to the fields of a sound record, for the proofs  *)
(* of the primitives that are built on them.                               *)
(***************************************************************************)

\* The head of a queue is deleted by taking its tail.
LEMMA DeleteHead ==
    ASSUME NEW l \in Seq(Thread), l # <<>>, IsInjective(l)
    PROVE  list_delete(l, Head(l)) = Tail(l)
BY CutHead, ZenonT(30) DEF list_delete

\* From s to b, thread t has been blocked on queue q, behind the others.
BlockedOn(s, b, Q, q, t) ==
    /\ b.timer \subseteq s.timer \cup {t}
    /\ \A u \in Thread :
        /\ b.state[u] = IF u = t THEN "BLOCKED" ELSE s.state[u]
        /\ b.blocking_wait_queue[u] = IF u = t THEN q ELSE s.blocking_wait_queue[u]
        /\ b.wait_queue_block_ret[u] = IF u = t THEN "NO_ERROR" ELSE s.wait_queue_block_ret[u]
    /\ \A p \in Q : b.list[p] = IF p = q THEN Append(s.list[q], t) ELSE s.list[p]

LEMMA BlockEffect ==
    ASSUME NEW Q, NULL \notin Q, NEW q \in Q, NEW s, Sound(s, Q),
           NEW t \in Thread, s.state[t] = "READY", NEW timeout,
           NEW b, b = wait_queue_block(s, q, t, timeout)
    PROVE  Sound(b, Q) /\ BlockedOn(s, b, Q, q, t)
<1>1. Sound(b, Q)
  BY BlockSound
<1>2. /\ b.state = [s.state EXCEPT ![t] = "BLOCKED"]
      /\ b.blocking_wait_queue = [s.blocking_wait_queue EXCEPT ![t] = q]
      /\ b.wait_queue_block_ret = [s.wait_queue_block_ret EXCEPT ![t] = "NO_ERROR"]
      /\ b.list = [s.list EXCEPT ![q] = Append(s.list[q], t)]
  BY DEF wait_queue_block
<1>3. /\ \A u \in Thread :
            /\ b.state[u] = IF u = t THEN "BLOCKED" ELSE s.state[u]
            /\ b.blocking_wait_queue[u] = IF u = t THEN q ELSE s.blocking_wait_queue[u]
            /\ b.wait_queue_block_ret[u] = IF u = t THEN "NO_ERROR" ELSE s.wait_queue_block_ret[u]
      /\ \A p \in Q : b.list[p] = IF p = q THEN Append(s.list[q], t) ELSE s.list[p]
  BY <1>2, SoundFields
<1>4. b.timer \subseteq s.timer \cup {t}
  BY DEF wait_queue_block
<1>5. QED BY <1>1, <1>3, <1>4 DEF BlockedOn

\* From s to w, thread h alone has been made ready and given a status.
Woken(s, w, h, error) ==
    /\ s.state[h] = "BLOCKED"
    /\ \A u \in Thread :
        /\ w.state[u] = IF u = h THEN "READY" ELSE s.state[u]
        /\ w.blocking_wait_queue[u] = IF u = h THEN NULL ELSE s.blocking_wait_queue[u]
        /\ w.wait_queue_block_ret[u] = IF u = h THEN error ELSE s.wait_queue_block_ret[u]

\* From s to w, the head of queue q, if it has one, has been woken and taken off.
WokeOne(s, w, Q, q, error) ==
    /\ w.timer = s.timer
    /\ s.list[q] = <<>> => w = s
    /\ s.list[q] # <<>> => \E h \in Thread :
        /\ h = Head(s.list[q])
        /\ s.blocking_wait_queue[h] = q
        /\ Woken(s, w, h, error)
        /\ \A p \in Q : w.list[p] = IF p = q THEN Tail(s.list[q]) ELSE s.list[p]

\* From s to w, every thread on queue q has been woken.
WokeAll(s, w, Q, q, error) ==
    /\ w.timer = s.timer
    /\ \A p \in Q : w.list[p] = IF p = q THEN <<>> ELSE s.list[p]
    /\ \A u \in Thread :
        IF s.blocking_wait_queue[u] = q
        THEN /\ w.state[u] = "READY" /\ w.wait_queue_block_ret[u] = error
             /\ w.blocking_wait_queue[u] = NULL
        ELSE /\ w.state[u] = s.state[u] /\ w.wait_queue_block_ret[u] = s.wait_queue_block_ret[u]
             /\ w.blocking_wait_queue[u] = s.blocking_wait_queue[u]

\* From s to r, the wait of thread t has timed out, if it had not ended.
Expired(s, r, t) ==
    /\ r.timer = s.timer \ {t}
    /\ s.state[t] # "BLOCKED" =>
        /\ r.state = s.state /\ r.wait_queue_block_ret = s.wait_queue_block_ret /\ r.list = s.list
        /\ r.blocking_wait_queue = s.blocking_wait_queue
    /\ s.state[t] = "BLOCKED" => Woken(s, r, t, "ERR_TIMED_OUT")

\* wait_queue_wake_one() leaves an empty queue alone and wakes the head of any other.
LEMMA WakeOneEffect ==
    ASSUME NEW Q, NULL \notin Q, NEW q \in Q, NEW s, Sound(s, Q), NEW error \in Status,
           NEW w, w = wait_queue_wake_one(s, q, error)
    PROVE  Sound(w, Q) /\ WokeOne(s, w, Q, q, error)
<1>1. Sound(w, Q)
  BY WakeOneSound
<1>2. CASE s.list[q] = <<>>
  BY <1>1, <1>2, SMTT(30) DEF wait_queue_wake_one, WokeOne
<1>3. CASE s.list[q] # <<>>
  <2> DEFINE h == Head(s.list[q])
  <2>1. h \in Thread /\ s.blocking_wait_queue[h] = q
    BY <1>3, HeadWaits
  <2>2. s.state[h] = "BLOCKED"
    <3> HIDE DEF h
    <3>1. QED BY <2>1, SoundFields
  <2>3. w = Wake(s, q, h, error)
    BY <1>3 DEF wait_queue_wake_one
  <2>4. list_delete(s.list[q], h) = Tail(s.list[q])
    BY <1>3, SoundFields, DeleteHead, ZenonT(30)
  <2>5. h = Head(s.list[q])
    OBVIOUS
  <2> HIDE DEF h
  <2>6. /\ w.state = [s.state EXCEPT ![h] = "READY"]
        /\ w.blocking_wait_queue = [s.blocking_wait_queue EXCEPT ![h] = NULL]
        /\ w.wait_queue_block_ret = [s.wait_queue_block_ret EXCEPT ![h] = error]
        /\ w.list = [s.list EXCEPT ![q] = list_delete(s.list[q], h)]
        /\ w.timer = s.timer
    BY <2>3 DEF Wake
  <2>7. /\ \A u \in Thread :
            /\ w.state[u] = IF u = h THEN "READY" ELSE s.state[u]
            /\ w.blocking_wait_queue[u] = IF u = h THEN NULL ELSE s.blocking_wait_queue[u]
            /\ w.wait_queue_block_ret[u] = IF u = h THEN error ELSE s.wait_queue_block_ret[u]
        /\ \A p \in Q : w.list[p] = IF p = q THEN Tail(s.list[q]) ELSE s.list[p]
    BY <2>4, <2>6, SoundFields
  <2>8. QED BY <1>1, <1>3, <2>1, <2>2, <2>5, <2>6, <2>7, SMTT(30) DEF WokeOne, Woken
<1>4. QED BY <1>2, <1>3

\* wait_queue_wake_all() leaves no thread blocked on the queue.
LEMMA WakeAllEffect ==
    ASSUME NEW Q, NULL \notin Q, NEW q \in Q, NEW s, Sound(s, Q), NEW error \in Status,
           NEW w, w = wait_queue_wake_all(s, q, error)
    PROVE  Sound(w, Q) /\ WokeAll(s, w, Q, q, error)
<1>1. Sound(w, Q)
  BY WakeAllSound
<1>2. On(s, q) = {t \in Thread : s.blocking_wait_queue[t] = q}
  BY SoundFields DEF On
<1>3. w.list = [s.list EXCEPT ![q] = <<>>] /\ w.timer = s.timer
  BY DEF wait_queue_wake_all
<1>4. QED BY <1>1, <1>2, <1>3, SoundFields DEF wait_queue_wake_all, WokeAll

LEMMA ResumeEffect ==
    ASSUME NEW Q, NEW s, Sound(s, Q), NEW t, NEW r, r = wait_queue_block_resume(s, t)
    PROVE  /\ Sound(r, Q)
           /\ r.state = s.state /\ r.wait_queue_block_ret = s.wait_queue_block_ret
           /\ r.list = s.list /\ r.blocking_wait_queue = s.blocking_wait_queue
           /\ r.timer = s.timer \ {t}
<1>1. Sound(r, Q)
  BY ResumeSound
<1>2. s \in SchedType(Q)
  BY DEF Sound
<1>3. QED BY <1>1, <1>2 DEF wait_queue_block_resume, SchedType

\* An expired timer wakes its thread if that is still blocked.
LEMMA TimeoutEffect ==
    ASSUME NEW Q, NULL \notin Q, NEW s, Sound(s, Q), NEW t \in Thread,
           NEW r, r = wait_queue_timeout_handler(s, t)
    PROVE  Sound(r, Q) /\ Expired(s, r, t)
<1> DEFINE v == wait_queue_block_resume(s, t)
<1>1. Sound(r, Q)
  BY TimeoutSound
<1>2. /\ v.state = s.state /\ v.wait_queue_block_ret = s.wait_queue_block_ret /\ v.list = s.list
      /\ v.blocking_wait_queue = s.blocking_wait_queue /\ v.timer = s.timer \ {t}
  BY ResumeEffect
<1>3. r = thread_unblock_from_wait_queue(v, t, "ERR_TIMED_OUT")
  BY DEF wait_queue_timeout_handler, wait_queue_block_resume
<1> HIDE DEF v
<1>4. CASE s.state[t] # "BLOCKED"
  BY <1>1, <1>2, <1>3, <1>4, SMTT(30) DEF thread_unblock_from_wait_queue, Expired
<1>5. CASE s.state[t] = "BLOCKED"
  <2>1. r = Wake(v, v.blocking_wait_queue[t], t, "ERR_TIMED_OUT")
    BY <1>2, <1>3, <1>5, SMTT(30) DEF thread_unblock_from_wait_queue
  <2>2. /\ r.state = [s.state EXCEPT ![t] = "READY"]
        /\ r.blocking_wait_queue = [s.blocking_wait_queue EXCEPT ![t] = NULL]
        /\ r.timer = s.timer \ {t}
        /\ r.wait_queue_block_ret = [s.wait_queue_block_ret EXCEPT ![t] = "ERR_TIMED_OUT"]
    BY <1>2, <2>1 DEF Wake
  <2>3. QED BY <1>1, <1>5, <2>2, SoundFields DEF Expired, Woken
<1>6. QED BY <1>4, <1>5

=============================================================================
