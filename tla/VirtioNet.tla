------------------------------- MODULE VirtioNet -------------------------------
(***************************************************************************)
(* dev/virtio/net/virtio-net.c on the rings of dev/virtio/virtio.c, with   *)
(* the packet buffers of lib/minip/pktbuf.c: threads that send, the device *)
(* that uses descriptors in any order, the interrupt handler that takes    *)
(* back what it has used, and the worker that hands up what was received   *)
(* and may send an answer itself.                                          *)
(*                                                                         *)
(* A section under ndev->lock is one step.  A semaphore and the pool it    *)
(* counts are one number: an object is in the pool before it is counted.   *)
(***************************************************************************)
EXTENDS Integers, Sequences, SequencesExt, FiniteSets, FiniteSetsExt

CONSTANTS
    Sender, WORKER, NULL,
    TX_RING_SIZE, RX_RING_SIZE,
    PKTBUF_POOL_SIZE

VARIABLES
    objects,            \* in pktbuf_pool
    free_list,          \* of each ring
    next,               \* of each ring: the descriptor after each one, or NULL
    pending,            \* whether pending_rx_packet and pending_tx_packet have a pktbuf for each descriptor
    tx_pending_count,
    avail,              \* of each ring: the chains that the device has not used
    used,               \* of each ring: the chains it has used; idx has the bits under the mask
    last_used,          \* of each ring
    irq_status,         \* an interrupt is pending
    irq,                \* the locals of virtio_mmio_irq()
    completed_rx_queue, \* how many pktbufs are in it
    rx_event,
    th,                 \* the locals of each thread
    hurt                \* history: what has gone wrong

vars == <<objects, free_list, next, pending, tx_pending_count, avail, used, last_used,
          irq_status, irq, completed_rx_queue, rx_event, th, hurt>>

Ring == {"rx", "tx"}
Thread == Sender \cup {WORKER}

Num(r) == IF r = "rx" THEN RX_RING_SIZE ELSE TX_RING_SIZE
Desc(r) == 0..Num(r) - 1

\* How many buffers virtio_net_start() queues up.
Queued == RX_RING_SIZE - 1

\* What virtio_net_start() leaves.
Init ==
    /\ objects = PKTBUF_POOL_SIZE - 2 * Queued
    /\ free_list = [r \in Ring |-> IF r = "rx" THEN [i \in 1..Num(r) - Queued |-> Num(r) - Queued - i]
                                   ELSE [i \in 1..Num(r) |-> Num(r) - i]]
    /\ next = [r \in Ring |-> [i \in Desc(r) |-> NULL]]
    /\ pending = [r \in Ring |-> [i \in Desc(r) |-> r = "rx" /\ i >= Num(r) - Queued]]
    /\ tx_pending_count = 0
    /\ avail = [r \in Ring |-> IF r = "rx" THEN Num(r) - Queued..Num(r) - 1 ELSE {}]
    /\ used = [r \in Ring |-> [idx |-> 0, ring |-> [i \in Desc(r) |-> NULL]]]
    /\ last_used = [r \in Ring |-> 0]
    /\ irq_status = FALSE
    /\ irq = [pc |-> "none", cur |-> NULL]
    /\ completed_rx_queue = 0
    /\ rx_event = FALSE
    /\ th = [t \in Thread |-> [pc |-> IF t = WORKER THEN "wait" ELSE "idle",
                               header |-> 0, held |-> 0, rx |-> 0]]
    /\ hurt = {}

ringVars == <<free_list, next, pending, tx_pending_count, avail>>
irqVars == <<used, last_used, irq_status, irq>>

Goto(t, pc) == th' = [th EXCEPT ![t].pc = pc]

-----------------------------------------------------------------------------
(***************************************************************************)
(* Sending: a packet in a pktbuf, and one more pktbuf for its header.      *)
(***************************************************************************)

Send(t) ==
    /\ th[t].pc = "idle"
    /\ Goto(t, "alloc")
    /\ UNCHANGED <<objects, ringVars, irqVars, completed_rx_queue, rx_event, hurt>>

\* pktbuf_alloc() waits for one object of the pool and then for another.
get_pool_object(t) ==
    /\ th[t].pc = "alloc"
    /\ objects > 0
    /\ objects' = objects - 1
    /\ th' = [th EXCEPT ![t] =
            IF @.header = 0 THEN [@ EXCEPT !.header = 1]
            ELSE [@ EXCEPT !.header = 0,
                           !.held = @ + 1,
                           !.pc = IF th[t].held = 1 THEN "queue" ELSE "alloc"]]
    /\ UNCHANGED <<ringVars, irqVars, completed_rx_queue, rx_event, hurt>>

\* Where a thread that has sent goes on.
Sent(t) == IF t = WORKER THEN "requeue" ELSE "idle"

\* A full ring: virtio_net_queue_tx_pktbuf() returns with ndev->lock held.
virtio_net_queue_tx_full(t) ==
    /\ th[t].pc = "queue"
    /\ tx_pending_count + 2 > TX_RING_SIZE
    /\ objects' = objects + 4
    /\ th' = [th EXCEPT ![t].held = 0, ![t].pc = Sent(t)]
    /\ hurt' = hurt \cup {"lock held"}
    /\ UNCHANGED <<ringVars, irqVars, completed_rx_queue, rx_event>>

\* A chain of two: what virtio_alloc_desc_chain() takes last comes first.
virtio_net_queue_tx_pktbuf(t) ==
    /\ th[t].pc = "queue"
    /\ tx_pending_count + 2 <= TX_RING_SIZE
    /\ LET d == Head(free_list["tx"])
           i == free_list["tx"][2]
       IN  /\ free_list' = [free_list EXCEPT !["tx"] = SubSeq(@, 3, Len(@))]
           /\ next' = [next EXCEPT !["tx"][i] = d, !["tx"][d] = NULL]
           /\ pending' = [pending EXCEPT !["tx"][i] = TRUE, !["tx"][d] = TRUE]
           /\ tx_pending_count' = tx_pending_count + 2
           /\ avail' = [avail EXCEPT !["tx"] = @ \cup {i}]
    /\ th' = [th EXCEPT ![t].held = 0, ![t].pc = Sent(t)]
    /\ UNCHANGED <<objects, irqVars, completed_rx_queue, rx_event, hurt>>

-----------------------------------------------------------------------------
(***************************************************************************)
(* The device and its interrupt.                                           *)
(***************************************************************************)

Device(r) ==
    /\ \E head \in avail[r] :
        /\ avail' = [avail EXCEPT ![r] = @ \ {head}]
        /\ used' = [used EXCEPT ![r].ring[used[r].idx % Num(r)] = head, ![r].idx = (@ + 1) % Num(r)]
    /\ irq_status' = TRUE
    /\ UNCHANGED <<objects, free_list, next, pending, tx_pending_count, last_used, irq,
                   completed_rx_queue, rx_event, th, hurt>>

\* Whether the handler acknowledges the interrupt in its step at pc.
Acknowledged(pc) == pc = "none"

virtio_mmio_irq ==
    /\ irq.pc = "none" /\ irq_status
    /\ irq_status' = (irq_status /\ ~Acknowledged(irq.pc))
    /\ irq' = [pc |-> "rx", cur |-> NULL]
    /\ UNCHANGED <<objects, ringVars, used, last_used, completed_rx_queue, rx_event, th, hurt>>

\* used->idx is read once for each ring.
virtio_mmio_irq_idx ==
    /\ irq.pc \in Ring /\ irq.cur = NULL
    /\ irq' = [irq EXCEPT !.cur = used[irq.pc].idx]
    /\ UNCHANGED <<objects, ringVars, used, last_used, irq_status, completed_rx_queue, rx_event, th, hurt>>

\* The descriptors of the chain that begins with i, in a ring whose chains have one or two.
Chain(r, i) == IF next[r][i] = NULL THEN <<i>> ELSE <<i, next[r][i]>>

\* Somebody sleeps in sem_wait() for an object of the pool.
Waiter == objects = 0 /\ \E t \in Thread : th[t].pc = "alloc"

\* Mutant of TxDone: one for each chain.
TxDone_PerChain(chain) == tx_pending_count - 1

TxDone(chain) == tx_pending_count - Len(chain)

\* virtio_net_irq_driver_callback() on the next element of the used ring.
\* What was sent is freed; the buffer of a pktbuf with a request to reschedule,
\* whatever pktbuf_free() was told.
virtio_net_irq_driver_callback ==
    LET r == irq.pc
        chain == Chain(r, used[r].ring[last_used[r]])
    IN  /\ irq.pc \in Ring /\ irq.cur # NULL /\ last_used[r] # irq.cur
        /\ free_list' = [free_list EXCEPT ![r] = Reverse(chain) \o @]
        /\ pending' = [pending EXCEPT ![r] = [i \in Desc(r) |-> @[i] /\ i \notin ToSet(chain)]]
        /\ last_used' = [last_used EXCEPT ![r] = (@ + 1) % Num(r)]
        /\ IF r = "rx"
           THEN /\ completed_rx_queue' = completed_rx_queue + Len(chain)
                /\ irq' = [irq EXCEPT !.pc = "signal"]
                /\ UNCHANGED <<objects, tx_pending_count, hurt>>
           ELSE /\ tx_pending_count' = TxDone(chain)
                /\ objects' = objects + 2 * Len(chain)
                /\ hurt' = IF Waiter THEN hurt \cup {"rescheduled in irq"} ELSE hurt
                /\ UNCHANGED <<completed_rx_queue, irq>>
        /\ used' = [used EXCEPT ![r].ring[last_used[r]] = NULL]     \* which is not read again
        /\ UNCHANGED <<next, avail, irq_status, rx_event, th>>

virtio_net_irq_signal ==
    /\ irq.pc = "signal"
    /\ rx_event' = TRUE
    /\ irq' = [irq EXCEPT !.pc = "rx"]
    /\ UNCHANGED <<objects, ringVars, used, last_used, irq_status, completed_rx_queue, th, hurt>>

virtio_mmio_irq_ring_done ==
    /\ irq.pc \in Ring /\ irq.cur # NULL /\ last_used[irq.pc] = irq.cur
    /\ irq' = [pc |-> IF irq.pc = "rx" THEN "tx" ELSE "none", cur |-> NULL]
    /\ irq_status' = (irq_status /\ ~Acknowledged(irq.pc))
    /\ UNCHANGED <<objects, ringVars, used, last_used, completed_rx_queue, rx_event, th, hurt>>

-----------------------------------------------------------------------------
(***************************************************************************)
(* virtio_net_rx_worker().                                                 *)
(***************************************************************************)

rx_worker_event_wait ==
    /\ th[WORKER].pc = "wait" /\ rx_event
    /\ rx_event' = FALSE
    /\ Goto(WORKER, "take")
    /\ UNCHANGED <<objects, ringVars, irqVars, completed_rx_queue, hurt>>

rx_worker_take ==
    /\ th[WORKER].pc = "take"
    /\ IF completed_rx_queue = 0
       THEN Goto(WORKER, "wait") /\ UNCHANGED completed_rx_queue
       ELSE \E pc \in {"alloc", "requeue"} :    \* minip_rx_driver_callback() answers, or not
                /\ th' = [th EXCEPT ![WORKER].pc = pc, ![WORKER].rx = 1]
                /\ completed_rx_queue' = completed_rx_queue - 1
    /\ UNCHANGED <<objects, ringVars, irqVars, rx_event, hurt>>

\* It "shouldn't be possible not to have a descriptor ready": NicNotStuck says so.
virtio_net_queue_rx ==
    /\ th[WORKER].pc = "requeue" /\ free_list["rx"] # <<>>
    /\ LET i == Head(free_list["rx"])
       IN  /\ free_list' = [free_list EXCEPT !["rx"] = Tail(@)]
           /\ next' = [next EXCEPT !["rx"][i] = NULL]
           /\ pending' = [pending EXCEPT !["rx"][i] = TRUE]
           /\ avail' = [avail EXCEPT !["rx"] = @ \cup {i}]
    /\ th' = [th EXCEPT ![WORKER].pc = "take", ![WORKER].rx = 0]
    /\ UNCHANGED <<objects, tx_pending_count, irqVars, completed_rx_queue, rx_event, hurt>>

\* A reschedule in the interrupt handler comes back; the lock never does.
Halted == "lock held" \in hurt

Next ==
    /\ ~Halted
    /\ \/ \E t \in Thread :
            Send(t) \/ get_pool_object(t) \/ virtio_net_queue_tx_full(t) \/ virtio_net_queue_tx_pktbuf(t)
       \/ \E r \in Ring : Device(r)
       \/ virtio_mmio_irq \/ virtio_mmio_irq_idx \/ virtio_net_irq_driver_callback
       \/ virtio_net_irq_signal \/ virtio_mmio_irq_ring_done
       \/ rx_worker_event_wait \/ rx_worker_take \/ virtio_net_queue_rx

Spec == Init /\ [][Next]_vars

-----------------------------------------------------------------------------

\* The chains of the used ring that the handler has not come to.
Unhandled(r) ==
    LET n == (used[r].idx - last_used[r]) % Num(r)
    IN  {used[r].ring[(last_used[r] + k) % Num(r)] : k \in 0..n - 1}

DescOf(r, heads) == UNION {ToSet(Chain(r, h)) : h \in heads}

(***************************************************************************)
(* Every descriptor is free, with the device or in the used ring, in one   *)
(* of them, and has a pktbuf if it is not free; the pktbufs in the rings,  *)
(* in completed_rx_queue and in the hands of threads and the objects in    *)
(* the pool are as many as at the start; tx_pending_count counts what is   *)
(* being sent.                                                             *)
(***************************************************************************)
NicExact ==
    ~Halted =>
    /\ \A r \in Ring :
        LET busy == {i \in Desc(r) : pending[r][i]}
        IN  /\ ToSet(free_list[r]) = Desc(r) \ busy
            /\ Len(free_list[r]) = Cardinality(Desc(r) \ busy)
            /\ DescOf(r, avail[r]) \cup DescOf(r, Unhandled(r)) = busy
            /\ DescOf(r, avail[r]) \cap DescOf(r, Unhandled(r)) = {}
    /\ tx_pending_count = Cardinality({i \in Desc("tx") : pending["tx"][i]})
    /\ LET Busy(r) == Cardinality({i \in Desc(r) : pending[r][i]})
       IN  objects + 2 * (Busy("rx") + Busy("tx") + completed_rx_queue)
            + MapThenSumSet(LAMBDA t : th[t].header + 2 * (th[t].held + th[t].rx), Thread) = PKTBUF_POOL_SIZE

(***************************************************************************)
(* The driver never comes to rest with work to do: what the device has     *)
(* used has been taken back or an interrupt is pending or being handled,   *)
(* what was received wakes the worker, there is a descriptor for what it   *)
(* queues again, and of the threads that wait for packet buffers not all   *)
(* hold what the others wait for.                                          *)
(***************************************************************************)
NicNotStuck ==
    /\ th[WORKER].pc = "requeue" => free_list["rx"] # <<>>
    /\ \A r \in Ring : used[r].idx # last_used[r] => irq_status \/ irq.pc # "none"
    /\ ~irq_status /\ irq.pc = "none" => avail["rx"] # {} \/ completed_rx_queue > 0 \/ th[WORKER].rx > 0
    /\ completed_rx_queue > 0 /\ th[WORKER].pc = "wait" => rx_event \/ irq.pc = "signal"
    /\ Waiter /\ tx_pending_count = 0 => \E t \in Thread : th[t].pc = "queue"

(***************************************************************************)
(* virtio_net_queue_tx_pktbuf(): "only queue if we have enough tx          *)
(* descriptors", and if not an error is returned and the caller goes on.   *)
(***************************************************************************)
FullRingReturns == "lock held" \notin hurt

(***************************************************************************)
(* virtio_net_irq_driver_callback() frees with pktbuf_free(p, false), since*)
(* it is in an interrupt and holds ndev->lock: no thread is switched to.   *)
(***************************************************************************)
NotRescheduledInIrq == "rescheduled in irq" \notin hurt
==============================================================================
