-------------------------------- MODULE Cbuf ---------------------------------
(***************************************************************************)
(* lib/cbuf: the circular byte buffer between interrupt handlers, threads  *)
(* and DMA.  One cbuf, with its own spinlock: every locked section is one  *)
(* step.  Calls that do not wait and take the lock once have no thread     *)
(* parameter, any thread or interrupt handler makes them; blocking reads,  *)
(* transfers in chunks and the two unlocked resets belong to a thread.     *)
(* Its event is a manual one: event_signal() wakes every waiter.           *)
(* A byte is 0, what memset() writes, or another value.                    *)
(***************************************************************************)
EXTENDS Integers, Sequences

CONSTANTS
    Thread,
    Byte,       \* contains 0
    Flags,      \* the sets of flags a cbuf is used with, of
                \*   "SW_IS_WRITER", "SW_IS_READER", "USE_MAX_CHUNK_R",
                \*   "USE_MAX_CHUNK_W" and, for its no_event field, "no_event"
    LenMax,     \* the length cbuf_initialize() is given
    Lens,       \* the lengths cbuf_adjust_size() is given
    MAX_CHUNK,  \* CBUF_READ_MAX_CHUNK and CBUF_WRITE_MAX_CHUNK
    UINT        \* 2 to the width of an unsigned int

VARIABLES
    c,          \* the cbuf: head, tail, len, buf, signaled, is_reset
    flags,      \* set once, before the cbuf is used
    pc, arg,    \* where each thread is, and in what
    io          \* history: the bytes the last transfer moved

vars == <<c, flags, pc, arg, io>>

None == [op |-> "none", bytes |-> <<>>]
KEEP == -1          \* a byte that is skipped instead of written

\* "DEBUG_ASSERT(len > 0)", "DEBUG_ASSERT(cbuf->len_max >= len)".
ASSUME LengthAssumption == LenMax \in Nat \ {0} /\ Lens \subseteq 1..LenMax
\* The lengths divide 2 to the width, as powers of two do.  cbuf_initialize()
\* takes other lengths with a complaint about performance, and computes with a
\* wrapped difference of the indexes all the same.
ASSUME WidthAssumption ==
    UINT \in Nat /\ 2 * LenMax <= UINT /\ \A len \in Lens \cup {LenMax} : UINT % len = 0
ASSUME ByteAssumption == 0 \in Byte /\ KEEP \notin Byte
ASSUME ChunkAssumption == MAX_CHUNK \in Nat \ {0}

smallest(a, b) == IF a < b THEN a ELSE b

-----------------------------------------------------------------------------

\* INC_POINTER and DEC_POINTER: with a length that is a power of two or not,
\* unsigned arithmetic and then the remainder.
INC_POINTER(b, ptr, inc) == ((ptr + inc) % UINT) % b.len
DEC_POINTER(b, ptr, inc) == ((ptr - inc) % UINT) % b.len

cbuf_space_used(b) == ((b.head - b.tail) % UINT) % b.len
cbuf_space_avail(b) == b.len - cbuf_space_used(b) - 1

\* Mutant: the special case of a tail at 0 is forgotten.
cbuf_get_contiguous_space_Full(b, n) ==
    smallest(n, IF b.head >= b.tail THEN b.len - b.head ELSE b.tail - b.head - 1)

cbuf_get_contiguous_space(b, n) ==
    smallest(n, IF b.head >= b.tail THEN b.len - b.head - (IF b.tail = 0 THEN 1 ELSE 0)
                                    ELSE b.tail - b.head - 1)

cbuf_get_contiguous_used(b, n) ==
    smallest(n, IF b.head > b.tail THEN b.head - b.tail ELSE b.len - b.tail)

\* What "data" stores at b.buf[at ...].
Stored(b, at, data) ==
    [i \in DOMAIN b.buf |->
        IF i \in at..(at + Len(data) - 1) /\ data[i - at + 1] # KEEP
        THEN data[i - at + 1] ELSE b.buf[i]]

\* One pass of the loop of cbuf_write_wo_lock(); a third pass never writes.
WritePass(s) ==
    IF s.rest = <<>> \/ cbuf_space_avail(s.b) = 0 THEN s
    ELSE LET n == cbuf_get_contiguous_space(s.b, Len(s.rest))
             data == SubSeq(s.rest, 1, n)
         IN [b |-> [s.b EXCEPT !.buf = Stored(s.b, s.b.head, data),
                               !.head = INC_POINTER(s.b, s.b.head, n)],
             rest |-> SubSeq(s.rest, n + 1, Len(s.rest))]

\* Mutant of Signaled: only once the buffer is full.
Signaled_Full(b) == b.signaled \/ cbuf_space_avail(b) = 0

\* The end of a write: event_signal() unless the buffer is empty.
Signaled(b) == b.signaled \/ ("no_event" \notin flags /\ b.head # b.tail)

cbuf_write_wo_lock(b, data) ==
    LET s == WritePass(WritePass([b |-> b, rest |-> data]))
    IN [s EXCEPT !.b.signaled = Signaled(s.b)]

\* One pass of the loop of cbuf_read_wo_lock().
ReadPass(s) ==
    IF s.want = 0 \/ s.b.tail = s.b.head THEN s
    ELSE LET n == cbuf_get_contiguous_used(s.b, s.want)
         IN [b |-> [s.b EXCEPT !.tail = INC_POINTER(s.b, s.b.tail, n)],
             want |-> s.want - n,
             out |-> s.out \o [i \in 1..n |-> s.b.buf[s.b.tail + i - 1]]]

\* Reading unsignals the event when it empties the buffer.
cbuf_read_wo_lock(b, n) ==
    LET s == ReadPass(ReadPass([b |-> b, want |-> n, out |-> <<>>]))
    IN [s EXCEPT !.b.signaled = @ /\ (s.b.tail # s.b.head \/ s.out = <<>>)]

\* The bytes in the buffer, by exact arithmetic.
Contents(b) ==
    [i \in 1..((b.head + b.len - b.tail) % b.len) |-> b.buf[(b.tail + i - 1) % b.len]]

-----------------------------------------------------------------------------

Init ==
    /\ c = [head |-> 0, tail |-> 0, len |-> LenMax, buf |-> [i \in 0..LenMax - 1 |-> 0],
            signaled |-> FALSE, is_reset |-> FALSE]
    /\ flags \in Flags
    /\ pc = [t \in Thread |-> "idle"]
    /\ arg = [t \in Thread |-> 0]
    /\ io = None

Software == {"SW_IS_WRITER", "SW_IS_READER"} \subseteq flags

\* event_signal() wakes the readers that wait.
Wake(b) ==
    [t \in Thread |-> IF pc[t] = "asleep" /\ ~c.signaled /\ b.signaled THEN "read" ELSE pc[t]]

\* Thread t goes on at "to" after the cbuf has become b.
Goto(b, t, to, a) ==
    /\ pc' = [Wake(b) EXCEPT ![t] = to]
    /\ arg' = [arg EXCEPT ![t] = a]

Goes(b) == pc' = Wake(b) /\ arg' = arg

\* What cbuf_write() stores for "data": a hardware writer has done it already.
Source(data) ==
    IF "SW_IS_WRITER" \in flags THEN data ELSE [i \in DOMAIN data |-> KEEP]

\* The bytes a transfer from b to "to" accepted, as the buffer now holds them.
Accepted(b, to) ==
    [op |-> "put", bytes |-> SubSeq(Contents(to), Len(Contents(b)) + 1, Len(Contents(to)))]

\* One locked write of "data"; s is its outcome.  Bytes that are stored are
\* recorded as the caller gave them.
Write(s, data) ==
    /\ c' = [s.b EXCEPT !.is_reset = @ /\ Len(s.rest) = Len(data)]
    /\ io' = IF "SW_IS_WRITER" \in flags
             THEN [op |-> "put", bytes |-> SubSeq(data, 1, Len(data) - Len(s.rest))]
             ELSE Accepted(c, s.b)
    /\ UNCHANGED flags

Data(m) == UNION {[1..n -> Byte] : n \in 1..m}

\* cbuf_write() of a buffer, in one piece ...
cbuf_write(data) ==
    /\ "USE_MAX_CHUNK_W" \notin flags
    /\ LET s == cbuf_write_wo_lock(c, Source(data)) IN Write(s, data) /\ Goes(s.b)

\* ... or in chunks.  arg is what is left of the data and of the loop count.
cbuf_write_chunks(t, data) ==
    /\ pc[t] = "idle"
    /\ "USE_MAX_CHUNK_W" \in flags
    /\ Goto(c, t, "write", [data |-> data, loop |-> (Len(data) + MAX_CHUNK - 1) \div MAX_CHUNK])
    /\ UNCHANGED <<c, flags, io>>

cbuf_write_chunk(t) ==
    /\ pc[t] = "write"
    /\ LET chunk == SubSeq(arg[t].data, 1, smallest(MAX_CHUNK, Len(arg[t].data)))
           s == cbuf_write_wo_lock(c, Source(chunk))
           written == Len(chunk) - Len(s.rest)
       IN /\ Write(s, chunk)
          /\ IF written = 0 \/ arg[t].loop = 1 THEN Goto(s.b, t, "idle", 0)
             ELSE Goto(s.b, t, "write",
                       [data |-> SubSeq(arg[t].data, written + 1, Len(arg[t].data)),
                        loop |-> arg[t].loop - 1])

\* What a cbuf_write() of NULL stores: nothing when the buffer holds zeros.
ZeroFill(n) ==
    [i \in 1..n |-> IF c.is_reset THEN KEEP ELSE 0]

\* cbuf_write() of NULL.
cbuf_write_null(n) ==
    /\ LET s == cbuf_write_wo_lock(c, Source(ZeroFill(n)))
       IN c' = s.b /\ io' = Accepted(c, s.b) /\ Goes(s.b)
    /\ UNCHANGED flags

\* cbuf_write_char() looks at the space only, and is_reset stays.
cbuf_write_char(ch) ==
    /\ cbuf_space_avail(c) > 0
    /\ LET b == [c EXCEPT !.buf[c.head] = ch, !.head = INC_POINTER(c, c.head, 1)]
           s == [b EXCEPT !.signaled = Signaled(b)]
       IN c' = s /\ Goes(s)
    /\ io' = [op |-> "put", bytes |-> <<ch>>]
    /\ UNCHANGED flags

-----------------------------------------------------------------------------

Read(s) ==
    /\ c' = s.b
    /\ io' = IF s.out = <<>> THEN io ELSE [op |-> "get", bytes |-> s.out]
    /\ UNCHANGED flags

\* cbuf_read() and cbuf_read_char() without blocking, in one piece.
cbuf_read(n) ==
    /\ "USE_MAX_CHUNK_R" \notin flags
    /\ LET s == cbuf_read_wo_lock(c, n) IN Read(s) /\ Goes(s.b)

\* A read that may block or goes in chunks: arg is what it has got, still
\* wants, and the chunks to go.
Loops(n) == IF "USE_MAX_CHUNK_R" \in flags THEN (n + MAX_CHUNK - 1) \div MAX_CHUNK ELSE 1

\* event_wait(), outside the lock.
Wait == IF "no_event" \in flags \/ c.signaled THEN "read" ELSE "asleep"

cbuf_read_start(t, n, block) ==
    /\ pc[t] = "idle"
    /\ block \/ "USE_MAX_CHUNK_R" \in flags
    /\ Goto(c, t, IF block THEN Wait ELSE "read",
            [ret |-> 0, rem |-> n, loop |-> Loops(n), block |-> block, buflen |-> n])
    /\ UNCHANGED <<c, flags, io>>

cbuf_read_chunk(t) ==
    /\ pc[t] = "read"
    /\ LET a == arg[t]
           s == cbuf_read_wo_lock(c, IF "USE_MAX_CHUNK_R" \in flags THEN smallest(MAX_CHUNK, a.rem) ELSE a.rem)
           n == Len(s.out)
       IN /\ Read(s)
          /\ IF n # 0 /\ a.loop > 1
             THEN Goto(s.b, t, "read", [a EXCEPT !.ret = @ + n, !.rem = @ - n, !.loop = @ - 1])
             ELSE IF a.block /\ a.ret + n = 0
             THEN Goto(s.b, t, "retry", [a EXCEPT !.rem = a.buflen, !.loop = Loops(a.buflen)])
             ELSE Goto(s.b, t, "idle", 0)

\* Found nothing: "raced with another thread and found no data, retry".
cbuf_read_retry(t) ==
    /\ pc[t] = "retry"
    /\ Goto(c, t, Wait, arg[t])
    /\ UNCHANGED <<c, flags, io>>

-----------------------------------------------------------------------------

\* cbuf_reset(), a read of everything into no buffer.
Reset(b) == cbuf_read_wo_lock(b, b.len).b

\* The buffer becomes b, and no byte is transferred.
Becomes(b) == c' = b /\ io' = None /\ UNCHANGED flags

cbuf_reset == Becomes(Reset(c)) /\ Goes(c)

cbuf_adjust_size(len) == Becomes([c EXCEPT !.head = 0, !.tail = 0, !.len = len]) /\ Goes(c)

\* The length is the caller's to get right.
cbuf_skip(is_write, n) ==
    /\ Goes(c)
    /\ \/ is_write /\ n <= cbuf_space_avail(c)
          /\ LET b == [c EXCEPT !.head = INC_POINTER(c, c.head, n)]
             IN c' = b /\ io' = Accepted(c, b) /\ UNCHANGED flags
       \/ ~is_write /\ n <= cbuf_space_used(c)
          /\ Becomes([c EXCEPT !.tail = INC_POINTER(c, c.tail, n)])

cbuf_trash(n) ==
    /\ ~Software
    /\ Becomes([c EXCEPT !.head = INC_POINTER(c, c.head, n), !.tail = INC_POINTER(c, c.tail, n)])
    /\ Goes(c)

cbuf_rewind == Becomes([c EXCEPT !.head = c.tail]) /\ Goes(c)

Rewound(n) == DEC_POINTER(c, c.head, smallest(n, cbuf_space_used(c)))

cbuf_rewind_len(n) == Becomes([c EXCEPT !.head = Rewound(n)]) /\ Goes(c)

\* cbuf_reset_indexes(): a reset, then both indexes at 0 under a second lock.
cbuf_reset_indexes(t) ==
    /\ pc[t] = "idle"
    /\ Becomes(Reset(c))
    /\ Goto(c, t, "indexes", FALSE)

cbuf_reset_indexes_locked(t) ==
    /\ pc[t] = "indexes"
    /\ Becomes([c EXCEPT !.head = 0, !.tail = 0])
    /\ IF arg[t] THEN Goto(c, t, "flag", 0) ELSE Goto(c, t, "idle", 0)

\* cbuf_reset_with_zero(): memset() without the lock, one of the two resets,
\* and is_reset, again without the lock.
cbuf_reset_with_zero(t) ==
    /\ pc[t] = "idle"
    /\ Becomes([c EXCEPT !.buf = [i \in DOMAIN c.buf |-> IF i < c.len THEN 0 ELSE c.buf[i]]])
    /\ Goto(c, t, "zeroed", 0)

cbuf_reset_with_zero_reset(t) ==
    /\ pc[t] = "zeroed"
    /\ Becomes(Reset(c))
    /\ IF Software THEN Goto(c, t, "flag", 0) ELSE Goto(c, t, "indexes", TRUE)

cbuf_reset_with_zero_flag(t) ==
    /\ pc[t] = "flag"
    /\ c' = [c EXCEPT !.is_reset = TRUE]
    /\ Goto(c, t, "idle", 0)
    /\ UNCHANGED <<flags, io>>

-----------------------------------------------------------------------------

Transfer ==
    \/ \E data \in Data(c.len - 1) : cbuf_write(data)
    \/ \E n \in 1..c.len - 1 : cbuf_write_null(n) \/ cbuf_read(n)
    \/ \E ch \in Byte : cbuf_write_char(ch)

Adjust ==
    \/ cbuf_reset
    \/ \E len \in Lens : cbuf_adjust_size(len)
    \/ \E n \in 1..c.len - 1 :
          \/ cbuf_skip(FALSE, n)
          \/ "SW_IS_WRITER" \notin flags /\ cbuf_skip(TRUE, n)
          \/ cbuf_trash(n)
          \/ cbuf_rewind_len(n)
    \/ cbuf_rewind

Run(t) ==
    \/ \E data \in Data(c.len - 1) : cbuf_write_chunks(t, data)
    \/ cbuf_write_chunk(t)
    \/ \E n \in 1..c.len - 1, block \in BOOLEAN : cbuf_read_start(t, n, block)
    \/ cbuf_read_chunk(t)
    \/ cbuf_read_retry(t)
    \/ cbuf_reset_indexes(t)
    \/ cbuf_reset_indexes_locked(t)
    \/ cbuf_reset_with_zero(t)
    \/ cbuf_reset_with_zero_reset(t)
    \/ cbuf_reset_with_zero_flag(t)

Next == Transfer \/ Adjust \/ \E t \in Thread : Run(t)

Spec == Init /\ [][Next]_vars

-----------------------------------------------------------------------------

(***************************************************************************)
(* The buffer is a queue of bytes: whatever wraps around, whichever calls  *)
(* interleave between the chunks of a transfer, a write appends the bytes  *)
(* it was given and reads deliver them in order, and the other calls only  *)
(* drop bytes at either end or wipe them.                                  *)
(***************************************************************************)
Q == INSTANCE ByteQueue WITH q <- Contents(c), Cap <- LenMax
ImplementsQueue == Q!Spec

(***************************************************************************)
(* No blocking reader sleeps while there is something to read, though it   *)
(* waits outside the lock and the resets and rewinds leave the event alone.*)
(* Where the hardware writes, cbuf_skip() adds bytes and signals nobody.   *)
(***************************************************************************)
ReadersAwake ==
    "SW_IS_WRITER" \in flags /\ c.head # c.tail => \A t \in Thread : pc[t] # "asleep"

\* cbuf_peek(): the two regions it returns, as the bytes they hold.
cbuf_peek(b) ==
    LET ret == cbuf_space_used(b)
        n == IF ret + b.tail > b.len THEN b.len - b.tail ELSE ret
    IN [i \in 1..n |-> b.buf[b.tail + i - 1]] \o [i \in 1..ret - n |-> b.buf[i - 1]]

(***************************************************************************)
(* cbuf_peek() shows exactly the bytes that the next reads will deliver.   *)
(***************************************************************************)
PeekExact == cbuf_peek(c) = Contents(c)

(***************************************************************************)
(* "If NULL, cbuf_write will skip up to the next len bytes in the cbuf,    *)
(* filling with zeros instead of supplied data" (cbuf.h).                  *)
(***************************************************************************)
NullFillsZeros ==
    [][\A n \in 1..c.len - 1 :
          cbuf_write_null(n) /\ "SW_IS_WRITER" \in flags => \A i \in DOMAIN io'.bytes : io'.bytes[i] = 0]_vars

=============================================================================
