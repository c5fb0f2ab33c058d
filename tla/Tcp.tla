--------------------------------- MODULE Tcp ---------------------------------
(***************************************************************************)
(* lib/minip/tcp.c: one accepted connection, from the SYN|ACK on.  A reader*)
(* and a writer thread of the program, the thread that closes the socket,  *)
(* the network thread in tcp_input() and the net timer thread share the    *)
(* socket under s->lock.  The peer is an external TCP that keeps to the    *)
(* protocol; the network between them loses, duplicates and reorders.      *)
(* Byte number i of either stream is the number i.                         *)
(***************************************************************************)
EXTENDS Integers, Sequences, SequencesExt, FiniteSets, FiniteSetsExt

CONSTANTS
    SEQ,            \* sequence numbers wrap at this value, 2^32 in the source
    TxFirst, RxFirst,   \* the sequence numbers of the first byte each way
    MSS,            \* s->mss
    RxSize,         \* rx_win_size, the size of the receive buffer
    TxSize,         \* tx_buffer_size
    Loads,          \* bounds: the bytes to write, the segments <<first, last>> of the
                    \* peer's stream, the segments in flight from and to the peer,
                    \* and whether the peer may reset the connection
    NULL

ASSUME SequenceAssumption == SEQ \in Nat /\ SEQ % 2 = 0 /\ TxFirst \in 0..SEQ - 1 /\ RxFirst \in 0..SEQ - 1

VARIABLES
    load,       \* the one of Loads that this behaviour has
    s,          \* the socket, and the segments it has sent that are on their way
    rx,         \* the segment for which tcp_input() has looked up the socket, or NULL
    firing,     \* the timer whose callback is about to take s->lock, or NULL
    reader,     \* where the thread in tcp_read() is
    writer,     \* where the thread in tcp_write() is, and how many bytes it has left
    open,       \* the program has not called tcp_close()
    in,         \* segments on their way to the socket
    peer,       \* the external TCP
    got,        \* history: what tcp_read() has returned
    written,    \* history: how many bytes tcp_write() has taken
    early,      \* history: tcp_close() was called with bytes not acknowledged
    fault       \* the first assertion that failed

vars == <<load, s, rx, firing, reader, writer, open, in, peer, got, written, early, fault>>

-----------------------------------------------------------------------------

Sq(x) == x % SEQ

\* A difference of sequence numbers read as an int32_t.
Signed(d) == IF Sq(d) < SEQ \div 2 THEN Sq(d) ELSE Sq(d) - SEQ

SEQUENCE_GTE(a, b) == Signed(a - b) >= 0
SEQUENCE_LTE(a, b) == Signed(a - b) <= 0
SEQUENCE_GT(a, b) == Signed(a - b) > 0

Lesser(a, b) == Min({a, b})

Segment(flags, seq, ack, data, win) == [flags |-> flags, seq |-> seq, ack |-> ack, data |-> data, win |-> win]

\* A network that holds no more loses the segment, as tcp_send() does when
\* pktbuf_alloc() fails.
Sent(net, limit, seg) == IF Cardinality(net) < limit THEN net \cup {seg} ELSE net

tcp_send(sk, seg) == [sk EXCEPT !.out = Sent(@, load.to, seg)]

inc_socket_ref(sk) == [sk EXCEPT !.ref = @ + 1]
dec_socket_ref(sk) == [sk EXCEPT !.ref = @ - 1]

remove_socket_from_list(sk) == [sk EXCEPT !.listed = FALSE]

\* Mutant of NewlyQueued: every net_timer_set() takes a reference.
NewlyQueued_Always(sk, timer) == TRUE

\* What net_timer_set() returns.
NewlyQueued(sk, timer) == timer \notin sk.timers

tcp_timer_set(sk, timer) ==
    LET k == [sk EXCEPT !.timers = @ \cup {timer}]
    IN  IF NewlyQueued(sk, timer) THEN inc_socket_ref(k) ELSE k

tcp_timer_cancel(sk, timer) ==
    IF timer \in sk.timers THEN dec_socket_ref([sk EXCEPT !.timers = @ \ {timer}]) ELSE sk

\* The right edge of the receive window as the buffer has it.
WindowEdge(sk) == Sq(sk.rx_win_low + RxSize - Len(sk.rx_buffer) - 1)

tcp_socket_send(sk, data, flags, seq) ==
    LET edge == WindowEdge(sk)
        k == IF SEQUENCE_GTE(edge, sk.rx_win_high) THEN [sk EXCEPT !.rx_win_high = edge] ELSE sk
        acked == IF "ACK" \in flags THEN tcp_timer_cancel(k, "ack_delay") ELSE k
    IN  tcp_send(acked, Segment(flags, seq, k.rx_win_low, data, Sq(k.rx_win_high - k.rx_win_low)))

send_ack(sk) ==
    IF sk.state \in {"ESTABLISHED", "CLOSE_WAIT", "FIN_WAIT_2"}
    THEN tcp_socket_send(sk, <<>>, {"ACK"}, sk.tx_win_low)
    ELSE sk

tcp_wakeup_waiters(sk) == [sk EXCEPT !.rx_event = TRUE, !.tx_event = TRUE]

tcp_remote_close(sk) ==
    IF sk.state = "CLOSED" THEN sk
    ELSE tcp_wakeup_waiters(
            tcp_timer_cancel(tcp_timer_cancel([sk EXCEPT !.state = "CLOSED"], "retransmit"), "ack_delay"))

\* The socket tcp_input() makes for a SYN, with its SYN|ACK on the way.
Init ==
    /\ load \in Loads
    /\ s = [state |-> "SYN_RCVD", listed |-> TRUE, ref |-> 1, timers |-> {},
            rx_win_low |-> RxFirst, rx_win_high |-> Sq(RxFirst + RxSize - 1),
            rx_buffer |-> <<>>, rx_event |-> FALSE, rx_full_mss_count |-> 0,
            tx_win_low |-> TxFirst, tx_highest_seq |-> Sq(TxFirst - 1),
            tx_buffer |-> <<>>, tx_event |-> TRUE,
            out |-> {Segment({"SYN", "ACK"}, Sq(TxFirst - 1), RxFirst, <<>>, RxSize - 1)}]
    /\ rx = NULL
    /\ firing = NULL
    /\ reader = "idle"
    /\ writer = [pc |-> "idle", left |-> 0]
    /\ open = TRUE
    /\ in = {}
    /\ peer = [state |-> "connecting", received |-> <<>>, fin_received |-> FALSE,
               acked |-> 0, window |-> 0, fin_sent |-> FALSE]
    /\ got = <<>>
    /\ written = 0
    /\ early = FALSE
    /\ fault = "none"

-----------------------------------------------------------------------------
(***************************************************************************)
(* Receiving: handle_ack(), handle_data() and tcp_input().                 *)
(***************************************************************************)

\* Cancel or reset the retransmit timer.
AckTimer(sk) ==
    IF sk.tx_win_low = sk.tx_highest_seq
    THEN tcp_timer_cancel(sk, "retransmit") ELSE tcp_timer_set(sk, "retransmit")

\* tx_win_high, which nothing reads, is left out.
handle_ack(sk, ack) ==
    IF SEQUENCE_LTE(ack, sk.tx_win_low) \/ SEQUENCE_GT(ack, sk.tx_highest_seq) THEN sk
    ELSE LET acked_len == Sq(ack - sk.tx_win_low)
         IN  [AckTimer([sk EXCEPT !.tx_buffer = SubSeq(@, acked_len + 1, Len(@)), !.tx_win_low = ack])
              EXCEPT !.tx_event = TRUE]

\* Whether a segment reaches the byte that handle_data() is waiting for.
InOrder(sk, seg) ==
    /\ SEQUENCE_LTE(seg.seq, sk.rx_win_low)
    /\ SEQUENCE_GTE(Sq(seg.seq + Len(seg.data) - 1), sk.rx_win_low)

\* The offset into the segment that handle_data() asserts to be within it.
DataOffset(sk, seg) == Sq(seg.seq - sk.rx_win_low)

OffsetFails(sk, seg) ==
    seg.data # <<>> /\ InOrder(sk, seg) /\ DataOffset(sk, seg) >= Len(seg.data)

\* cbuf_write(): what does not fit is dropped.
cbuf_write(buffer, data) == buffer \o SubSeq(data, 1, Lesser(Len(data), RxSize - 1 - Len(buffer)))

handle_data(sk, seg) ==
    IF seg.data = <<>> THEN sk
    ELSE IF ~InOrder(sk, seg) THEN send_ack(sk)
    ELSE LET offset == DataOffset(sk, seg)
             copy_len == Lesser(Sq(sk.rx_win_high - sk.rx_win_low), Len(seg.data) - offset)
             count == IF copy_len >= MSS THEN sk.rx_full_mss_count + 1 ELSE 0
             k == [sk EXCEPT !.rx_win_low = Sq(@ + copy_len),
                             !.rx_buffer = cbuf_write(@, SubSeq(seg.data, offset + 1, offset + copy_len)),
                             !.rx_event = TRUE,
                             !.rx_full_mss_count = count]
         IN  IF count >= 2 \/ Signed(k.rx_win_low + RxSize - k.rx_win_high) > RxSize \div 2
             THEN [send_ack(k) EXCEPT !.rx_full_mss_count = 0]
             ELSE tcp_timer_set(k, "ack_delay")

Acked(sk, seg) == IF "ACK" \in seg.flags THEN handle_ack(sk, seg.ack) ELSE sk

\* The FIN of the peer, which consumes a sequence number, and its ACK, before
\* the socket goes to the next state.
FinAcked(sk, next) == [send_ack([sk EXCEPT !.rx_win_low = Sq(@ + 1)]) EXCEPT !.state = next]

\* Mutant of FinInOrder: a FIN is taken wherever it is in the stream.
FinInOrder_Any(sk, seg) == "FIN" \in seg.flags

\* They are closing, and there is no outstanding data.
FinInOrder(sk, seg) ==
    /\ "FIN" \in seg.flags
    /\ SEQUENCE_GTE(sk.rx_win_low, Sq(seg.seq + (IF seg.data = <<>> THEN 0 ELSE Len(seg.data) - 1)))

Established(sk, seg) ==
    LET k == handle_data(Acked(sk, seg), seg)
    IN  IF FinInOrder(k, seg) THEN [FinAcked(k, "CLOSE_WAIT") EXCEPT !.rx_event = TRUE] ELSE k

CloseWait(sk, seg) == IF "FIN" \in seg.flags THEN send_ack(Acked(sk, seg)) ELSE Acked(sk, seg)

FinWait2(sk, seg) ==
    IF "FIN" \in seg.flags THEN tcp_timer_set(FinAcked(sk, "TIME_WAIT"), "time_wait") ELSE sk

FinWait1(sk, seg) ==
    IF "ACK" \in seg.flags THEN FinWait2([sk EXCEPT !.state = "FIN_WAIT_2"], seg)
    ELSE IF "FIN" \in seg.flags THEN FinAcked(sk, "CLOSING")
    ELSE sk

Closing(sk, seg) ==
    IF "ACK" \in seg.flags THEN tcp_timer_set([sk EXCEPT !.state = "TIME_WAIT"], "time_wait") ELSE sk

LastAck(sk, seg) ==
    IF "ACK" \in seg.flags THEN dec_socket_ref(remove_socket_from_list(tcp_remote_close(sk))) ELSE sk

\* A RST for the segment seg, unless that is one.
SendReset(sk, seg) ==
    IF "RST" \in seg.flags THEN sk ELSE tcp_send(sk, Segment({"RST"}, seg.ack, 0, <<>>, 0))

SynRcvd(sk, seg) ==
    IF "SYN" \notin seg.flags /\ "ACK" \in seg.flags /\ seg.ack = sk.tx_win_low
    THEN [sk EXCEPT !.tx_highest_seq = sk.tx_win_low, !.state = "ESTABLISHED"]
    ELSE SendReset(sk, seg)

\* The switch of tcp_input() on the state of the socket.
Switch(sk, seg) ==
    CASE sk.state = "CLOSED" -> SendReset(sk, seg)
      [] sk.state = "SYN_RCVD" -> SynRcvd(sk, seg)
      [] sk.state = "ESTABLISHED" -> Established(sk, seg)
      [] sk.state = "CLOSE_WAIT" -> CloseWait(sk, seg)
      [] sk.state = "LAST_ACK" -> LastAck(sk, seg)
      [] sk.state = "FIN_WAIT_1" -> FinWait1(sk, seg)
      [] sk.state = "FIN_WAIT_2" -> FinWait2(sk, seg)
      [] sk.state = "CLOSING" -> Closing(sk, seg)
      [] sk.state = "TIME_WAIT" -> sk

Running == fault = "none"

\* Taking a segment from the network, which may keep a copy.
Arrives(net, seg) == seg \in net /\ net' \in {net, net \ {seg}}

\* tcp_input() up to the lock: lookup_socket() passes over a closed socket.
tcp_input(seg) ==
    /\ Running /\ rx = NULL
    /\ Arrives(in, seg)
    /\ IF s.listed /\ s.state # "CLOSED"
       THEN rx' = seg /\ s' = inc_socket_ref(s)
       ELSE rx' = NULL /\ s' = SendReset(s, seg)
    /\ UNCHANGED <<load, firing, reader, writer, open, peer, got, written, early, fault>>

tcp_input_locked ==
    /\ Running /\ rx # NULL
    /\ IF "RST" \notin rx.flags /\ s.state = "ESTABLISHED" /\ OffsetFails(Acked(s, rx), rx)
       THEN fault' = "DEBUG_ASSERT(offset < len)" /\ UNCHANGED <<s, rx>>
       ELSE /\ s' = dec_socket_ref(IF "RST" \in rx.flags THEN tcp_remote_close(s) ELSE Switch(s, rx))
            /\ rx' = NULL
            /\ UNCHANGED fault
    /\ UNCHANGED <<load, firing, reader, writer, open, in, peer, got, written, early>>

-----------------------------------------------------------------------------
(***************************************************************************)
(* The net timer thread: net_timer_work_routine() takes a timer from its   *)
(* queue, and the callback then takes s->lock.                             *)
(***************************************************************************)

net_timer_expires(timer) ==
    /\ Running /\ firing = NULL
    /\ timer \in s.timers
    /\ s' = [s EXCEPT !.timers = @ \ {timer}]
    /\ firing' = timer
    /\ UNCHANGED <<load, rx, reader, writer, open, in, peer, got, written, early, fault>>

Outstanding(sk) == Sq(sk.tx_highest_seq - sk.tx_win_low)

MayRetransmit(sk) == sk.state \in {"ESTABLISHED", "CLOSE_WAIT"} /\ Outstanding(sk) > 0

tcp_retransmit(sk) ==
    tcp_socket_send(sk, SubSeq(sk.tx_buffer, 1, Lesser(MSS, Outstanding(sk))), {"ACK"}, sk.tx_win_low)

\* Mutant of handle_retransmit_timeout: the timer is not set again.
handle_retransmit_timeout_Once(sk) == IF MayRetransmit(sk) THEN tcp_retransmit(sk) ELSE sk

handle_retransmit_timeout(sk) ==
    IF MayRetransmit(sk) THEN tcp_timer_set(tcp_retransmit(sk), "retransmit") ELSE sk

handle_time_wait_timeout(sk) == dec_socket_ref(remove_socket_from_list(sk))

Callback(sk) ==
    CASE firing = "retransmit" -> handle_retransmit_timeout(sk)
      [] firing = "ack_delay" -> send_ack(sk)
      [] firing = "time_wait" -> handle_time_wait_timeout(sk)

net_timer_callback ==
    /\ Running /\ firing # NULL
    /\ IF firing = "time_wait" /\ s.state # "TIME_WAIT"
       THEN fault' = "DEBUG_ASSERT(s->state == STATE_TIME_WAIT)" /\ UNCHANGED <<s, firing>>
       ELSE s' = dec_socket_ref(Callback(s)) /\ firing' = NULL /\ UNCHANGED fault
    /\ UNCHANGED <<load, rx, reader, writer, open, in, peer, got, written, early>>

-----------------------------------------------------------------------------
(***************************************************************************)
(* The calls of the program.  A thread passes event_wait() before it takes *)
(* s->lock; the handle is not used in a new call once it is closed.        *)
(***************************************************************************)

tcp_read ==
    /\ Running /\ open /\ reader = "idle"
    /\ reader' = "event_wait"
    /\ s' = inc_socket_ref(s)
    /\ UNCHANGED <<load, rx, firing, writer, open, in, peer, got, written, early, fault>>

tcp_read_woken ==
    /\ Running /\ reader = "event_wait" /\ s.rx_event
    /\ reader' = "lock"
    /\ UNCHANGED <<load, s, rx, firing, writer, open, in, peer, got, written, early, fault>>

\* Tell the other end that the window has opened, if it has opened enough.
Reopen(sk) ==
    IF RxSize - Len(sk.rx_buffer) >= MSS /\ Sq(sk.rx_win_high - sk.rx_win_low) < MSS
    THEN send_ack(sk) ELSE sk

\* rx_event once a read has left the buffer as it is in sk.
ReadEvent(sk) == sk.rx_event /\ ~(sk.state = "ESTABLISHED" /\ sk.rx_buffer = <<>>)

tcp_read_locked(len) ==
    /\ Running /\ reader = "lock"
    /\ LET n == Lesser(len, Len(s.rx_buffer))
           k == [s EXCEPT !.rx_buffer = SubSeq(@, n + 1, Len(@))]
       IN  /\ got' = got \o SubSeq(s.rx_buffer, 1, n)
           /\ IF n > 0
              THEN s' = dec_socket_ref(Reopen([k EXCEPT !.rx_event = ReadEvent(k)])) /\ reader' = "idle"
              ELSE IF s.state # "ESTABLISHED"
              THEN s' = dec_socket_ref(s) /\ reader' = "idle"
              ELSE s' = [s EXCEPT !.rx_event = FALSE] /\ reader' = "event_wait"
    /\ UNCHANGED <<load, rx, firing, writer, open, in, peer, written, early, fault>>

tcp_write(len) ==
    /\ Running /\ open /\ writer.pc = "idle"
    /\ written + len <= load.write
    /\ writer' = [pc |-> "event_wait", left |-> len]
    /\ s' = inc_socket_ref(s)
    /\ UNCHANGED <<load, rx, firing, reader, open, in, peer, got, written, early, fault>>

tcp_write_woken ==
    /\ Running /\ writer.pc = "event_wait" /\ s.tx_event
    /\ writer' = [writer EXCEPT !.pc = "lock"]
    /\ UNCHANGED <<load, s, rx, firing, reader, open, in, peer, got, written, early, fault>>

RECURSIVE SendPending(_)
\* The loop of tcp_write_pending_data(), one segment of at most mss at a time.
SendPending(sk) ==
    LET first == Outstanding(sk) + 1
        last == Lesser(Len(sk.tx_buffer), Outstanding(sk) + MSS)
    IN  IF first > Len(sk.tx_buffer) THEN sk
        ELSE SendPending([tcp_socket_send(sk, SubSeq(sk.tx_buffer, first, last), {"ACK"}, sk.tx_highest_seq)
                          EXCEPT !.tx_highest_seq = Sq(@ + last - first + 1)])

tcp_write_pending_data(sk) ==
    IF Outstanding(sk) < Len(sk.tx_buffer) THEN tcp_timer_set(SendPending(sk), "retransmit") ELSE sk

tcp_write_locked ==
    /\ Running /\ writer.pc = "lock"
    /\ LET to_copy == Lesser(TxSize - Len(s.tx_buffer), writer.left)
           buffer == s.tx_buffer \o [i \in 1..to_copy |-> written + i]
           k == [s EXCEPT !.tx_buffer = buffer, !.tx_event = @ /\ Len(buffer) < TxSize]
           more == writer.left - to_copy
       IN  IF s.state \notin {"ESTABLISHED", "CLOSE_WAIT"}
           THEN /\ s' = dec_socket_ref(s)
                /\ writer' = [pc |-> "idle", left |-> 0]
                /\ UNCHANGED written
           ELSE IF to_copy = 0
           THEN writer' = [writer EXCEPT !.pc = "event_wait"] /\ UNCHANGED <<s, written>>
           ELSE /\ s' = IF more = 0 THEN dec_socket_ref(tcp_write_pending_data(k))
                        ELSE tcp_write_pending_data(k)
                /\ writer' = [pc |-> IF more = 0 THEN "idle" ELSE "event_wait", left |-> more]
                /\ written' = written + to_copy
    /\ UNCHANGED <<load, rx, firing, reader, open, in, peer, got, early, fault>>

\* Our FIN, sent at the low side of the window.
CloseWithFin(sk, next) ==
    [tcp_socket_send([sk EXCEPT !.state = next], <<>>, {"ACK", "FIN"}, sk.tx_win_low)
     EXCEPT !.tx_win_low = Sq(@ + 1)]

\* The switch of tcp_close(), whose reference is taken and dropped within.
Closed(sk) ==
    CASE sk.state = "CLOSED" ->
            dec_socket_ref(tcp_timer_cancel(tcp_timer_cancel(remove_socket_from_list(sk), "ack_delay"),
                                            "retransmit"))
      [] sk.state \in {"SYN_RCVD", "ESTABLISHED"} -> CloseWithFin(sk, "FIN_WAIT_1")
      [] sk.state = "CLOSE_WAIT" -> CloseWithFin(sk, "LAST_ACK")

tcp_close ==
    /\ Running /\ open
    /\ s' = tcp_wakeup_waiters(Closed(s))
    /\ open' = FALSE
    /\ early' = (s.tx_buffer # <<>>)
    /\ UNCHANGED <<load, rx, firing, reader, writer, in, peer, got, written, fault>>

-----------------------------------------------------------------------------
(***************************************************************************)
(* The peer and the network.                                               *)
(***************************************************************************)

\* The bytes of the peer's stream.
PeerBytes == Max({0} \cup {seg[2] : seg \in load.segments})

\* What the peer acknowledges.
PeerAck(p) == Sq(TxFirst + Len(p.received) + (IF p.fin_received THEN 1 ELSE 0))

PeerSends(p, flags, first, data) == in' = Sent(in, load.from, Segment(flags, Sq(RxFirst + first), PeerAck(p), data, 0))

Elsewhere == UNCHANGED <<load, rx, firing, reader, writer, open, got, written, early, fault>>

\* The peer sends, or sends again, a segment that is within the window, with
\* its FIN if that is the last one and it has no more to say.
PeerSend(seg, fin) ==
    /\ Running /\ peer.state = "up"
    /\ seg[2] > peer.acked /\ seg[2] <= peer.window
    /\ fin => seg[2] = PeerBytes
    /\ peer' = [peer EXCEPT !.fin_sent = @ \/ fin]
    /\ PeerSends(peer, IF fin THEN {"ACK", "FIN"} ELSE {"ACK"}, seg[1] - 1,
                 [i \in 1..seg[2] - seg[1] + 1 |-> seg[1] + i - 1])
    /\ UNCHANGED s /\ Elsewhere

\* The FIN on its own.
PeerFin ==
    /\ Running /\ peer.state = "up"
    /\ peer.acked <= PeerBytes /\ PeerBytes <= peer.window
    /\ peer' = [peer EXCEPT !.fin_sent = TRUE]
    /\ PeerSends(peer, {"ACK", "FIN"}, PeerBytes, <<>>)
    /\ UNCHANGED s /\ Elsewhere

\* What the peer makes of the acknowledgement, the window, the data and the
\* FIN of a segment.
PeerTakes(p, seg) ==
    LET ahead == Signed(seg.seq - PeerAck(p))
        fresh == IF ahead <= 0 /\ ~p.fin_received THEN SubSeq(seg.data, 1 - ahead, Len(seg.data)) ELSE <<>>
        acked == p.acked + Max({0, Signed(seg.ack - Sq(RxFirst + p.acked))})
    IN  [p EXCEPT !.state = "up",
                  !.received = @ \o fresh,
                  !.fin_received = @ \/ ("FIN" \in seg.flags /\ ahead + Len(seg.data) = Len(fresh)),
                  !.acked = acked,
                  !.window = Max({@, p.acked + Signed(seg.ack - Sq(RxFirst + p.acked)) + seg.win})]

\* The peer answers whatever takes up sequence numbers, and resets a
\* connection it does not know.
PeerReceive(seg) ==
    /\ Running /\ seg \in s.out
    /\ s' \in {s, [s EXCEPT !.out = @ \ {seg}]}
    /\ IF "RST" \in seg.flags
       THEN peer' = [peer EXCEPT !.state = "gone"] /\ UNCHANGED in
       ELSE IF peer.state = "gone"
       THEN UNCHANGED peer /\ in' = Sent(in, load.from, Segment({"RST"}, seg.ack, 0, <<>>, 0))
       ELSE /\ (peer.state = "connecting" => "SYN" \in seg.flags)
            /\ peer' = PeerTakes(peer, seg)
            /\ IF seg.data = <<>> /\ seg.flags = {"ACK"} THEN UNCHANGED in
               ELSE PeerSends(peer', {"ACK"}, peer.acked, <<>>)
    /\ Elsewhere

\* The peer aborts or restarts.
PeerReset ==
    /\ Running /\ load.reset /\ peer.state # "gone"
    /\ peer' = [peer EXCEPT !.state = "gone"]
    /\ in' = Sent(in, load.from, Segment({"RST"}, RxFirst, 0, <<>>, 0))
    /\ UNCHANGED s /\ Elsewhere

Lose ==
    /\ Running
    /\ \/ \E seg \in in : in' = in \ {seg} /\ UNCHANGED s
       \/ \E seg \in s.out : s' = [s EXCEPT !.out = @ \ {seg}] /\ UNCHANGED in
    /\ UNCHANGED peer /\ Elsewhere

Timer == {"retransmit", "ack_delay", "time_wait"}

Next ==
    \/ \E seg \in in : tcp_input(seg)
    \/ tcp_input_locked
    \/ \E timer \in Timer : net_timer_expires(timer)
    \/ net_timer_callback
    \/ tcp_read \/ tcp_read_woken \/ \E len \in 1..RxSize : tcp_read_locked(len)
    \/ \E len \in 1..load.write : tcp_write(len)
    \/ tcp_write_woken \/ tcp_write_locked
    \/ tcp_close
    \/ \E seg \in load.segments, fin \in BOOLEAN : PeerSend(seg, fin)
    \/ PeerFin \/ PeerReset \/ Lose
    \/ \E seg \in s.out : PeerReceive(seg)

Spec == Init /\ [][Next]_vars

-----------------------------------------------------------------------------

Ints(n) == [i \in 1..n |-> i]

(***************************************************************************)
(* Each side reads a prefix of what the other side wrote, whatever the     *)
(* network loses, repeats and reorders: handle_data() acknowledges no byte *)
(* that cbuf_write() had no room for, tcp_retransmit() and the loop of     *)
(* tcp_write_pending_data() send the bytes that belong to their sequence   *)
(* numbers, across the wrap of those.                                      *)
(***************************************************************************)
StreamsIntact ==
    /\ IsPrefix(got \o s.rx_buffer, Ints(PeerBytes))
    /\ IsPrefix(peer.received, Ints(written))
    /\ peer.acked <= Len(got \o s.rx_buffer) + (IF peer.fin_sent THEN 1 ELSE 0)

(***************************************************************************)
(* An end of stream is the end: tcp_read() reports a close by the peer     *)
(* only after the last byte of it, and the peer sees our FIN after every   *)
(* byte written, provided that tcp_close() found them acknowledged.        *)
(***************************************************************************)
EndsAreEnds ==
    /\ s.state \in {"CLOSE_WAIT", "LAST_ACK"} => Len(got \o s.rx_buffer) = PeerBytes
    /\ peer.fin_received /\ ~early => Len(peer.received) = written

(***************************************************************************)
(* As long as the socket can retransmit, bytes that have been sent and not *)
(* acknowledged have a retransmit timer, queued or about to run, and every *)
(* byte in the transmit buffer has been sent.                              *)
(***************************************************************************)
RetransmitArmed ==
    s.state \in {"ESTABLISHED", "CLOSE_WAIT"} =>
        /\ Outstanding(s) = Len(s.tx_buffer)
        /\ s.tx_buffer # <<>> => "retransmit" \in s.timers \cup {firing}

(***************************************************************************)
(* No thread sleeps on a socket that has something for it: rx_event is     *)
(* signalled while there are bytes to read or the stream has ended,        *)
(* tx_event while there is room or the socket is closed.                   *)
(***************************************************************************)
WaitersAwake ==
    /\ s.rx_buffer # <<>> \/ s.state \notin {"SYN_RCVD", "ESTABLISHED"} => s.rx_event
    /\ Len(s.tx_buffer) < TxSize \/ s.state \notin {"ESTABLISHED", "CLOSE_WAIT"} => s.tx_event

(***************************************************************************)
(* The reference count of the socket is exact: one for the list, one for   *)
(* every timer that is queued or running and one for every call in         *)
(* progress, so that the socket is freed with the last of them.            *)
(***************************************************************************)
RefsExact ==
    s.ref = Cardinality(s.timers) + Cardinality({x \in {"listed", "rx", "firing", "reader", "writer"} :
                \/ x = "listed" /\ s.listed
                \/ x = "rx" /\ rx # NULL
                \/ x = "firing" /\ firing # NULL
                \/ x = "reader" /\ reader # "idle"
                \/ x = "writer" /\ writer.pc # "idle"})

(***************************************************************************)
(* The assertion of handle_time_wait_timeout(): the socket is in TIME_WAIT *)
(* when its timer runs.  It does not hold: tcp_remote_close() leaves that  *)
(* timer queued when a RST comes in TIME_WAIT.                             *)
(***************************************************************************)
TimeWaitAsserted == fault # "DEBUG_ASSERT(s->state == STATE_TIME_WAIT)"

(***************************************************************************)
(* The assertion of handle_data(): the first byte to copy is within the    *)
(* segment.  It does not hold for a segment that begins before the window. *)
(***************************************************************************)
OffsetAsserted == fault # "DEBUG_ASSERT(offset < len)"

(***************************************************************************)
(* The comment "check to see if we've closed" of tcp_write(): it returns   *)
(* ERR_CHANNEL_CLOSED only on a connection that has been closed.  It does  *)
(* not hold: a socket may be accepted, and written to, in SYN_RCVD.        *)
(***************************************************************************)
WriteFailsWhenClosed ==
    [][writer.pc = "lock" /\ writer'.pc = "idle" /\ written' = written => s.state # "SYN_RCVD"]_vars

-----------------------------------------------------------------------------

(***************************************************************************)
(* Connections for TLC: bytes one way with segments that the peer cuts     *)
(* always alike, bytes the other way, one byte each way, and two segments  *)
(* at once in the network.                                                 *)
(***************************************************************************)
Load(write, segments, from, to, reset) ==
    [write |-> write, segments |-> segments, from |-> from, to |-> to, reset |-> reset]

\* Each way with a reset, a full buffer, and two segments at once from the peer.
SomeLoads == {
    Load(0, {<<1, 2>>, <<3, 3>>}, 1, 1, TRUE),
    Load(1, {}, 1, 1, TRUE),
    Load(3, {}, 1, 1, FALSE),
    Load(0, {<<1, 1>>}, 2, 1, FALSE)}

\* ... both ways at once, more segments at once, and resets at every point.
AllLoads == SomeLoads \cup {
    Load(0, {<<1, 1>>, <<2, 2>>}, 2, 1, FALSE),
    Load(3, {}, 1, 1, TRUE),
    Load(1, {<<1, 1>>}, 1, 1, TRUE),
    Load(2, {}, 1, 2, FALSE)}

\* A peer that cuts its stream anew when it sends it again.
CutAnew == {Load(0, {<<1, 1>>, <<1, 2>>, <<2, 3>>}, 1, 1, TRUE)}
=============================================================================
