------------------------------- MODULE Deblock -------------------------------
(***************************************************************************)
(* bio_read(), bio_write() and bio_erase() of lib/bio/bio.c on a device    *)
(* that transfers whole blocks, and on a sub-device of it as made by       *)
(* lib/bio/subdev.c.  Bytes at any offset go by way of a temporary block   *)
(* at either end and as whole blocks between.  A step is one transfer of   *)
(* the device, and any transfer may fail.  Nothing in bio.c serialises     *)
(* two calls.                                                              *)
(***************************************************************************)
EXTENDS Integers, Sequences, FiniteSets

CONSTANTS
    Thread, NULL,
    BlockSize, BlockCount,      \* block_size and block_count of the device
    SubStart, SubCount,         \* the blocks of the sub-device
    Offsets, Lens,              \* the arguments that callers use, in bytes
    MaxCalls,                   \* bound: calls in one behaviour
    SharedBlocks                \* whether two calls of which one writes may meet in a block

VARIABLES
    disk,           \* the bytes of the device
    call,           \* the locals of each thread's call, or NULL
    calls,          \* calls made so far
    expected        \* history: the bytes as the calls that have returned should leave them

vars == <<disk, call, calls, expected>>

Byte == 0..BlockSize * BlockCount - 1

ERR_IO == -20

Init ==
    /\ disk = [b \in Byte |-> <<"initial", b>>]
    /\ call = [t \in Thread |-> NULL]
    /\ calls = 0
    /\ expected = disk

\* Where each device begins, and total_size: in bytes of the larger one.
Start(dev) == IF dev = "sub" THEN SubStart * BlockSize ELSE 0
TotalSize(dev) == (IF dev = "sub" THEN SubCount ELSE BlockCount) * BlockSize

bio_trim_range(dev, offset, len) ==
    IF offset < 0 \/ offset >= TotalSize(dev) THEN 0
    ELSE IF offset + len > TotalSize(dev) THEN TotalSize(dev) - offset ELSE len

\* What a call is about: the bytes of the request that the device has; none for a negative offset.
Requested(dev, offset, len) ==
    {b \in Byte : /\ offset >= 0
                  /\ b - Start(dev) \in offset..offset + len - 1
                  /\ b - Start(dev) \in 0..TotalSize(dev) - 1}

BlocksOf(bytes) == {b \div BlockSize : b \in bytes}

\* What a write stores at byte b: a byte of the caller's buffer, or erase_byte.
Data(t, b) == IF call[t].op = "erase" THEN <<"erase_byte", 0>> ELSE <<t, b - call[t].first>>

-----------------------------------------------------------------------------

Smaller(a, b) == IF a < b THEN a ELSE b

\* bio_default_erase() hands bio_write() one block's worth at a time; the other calls go through whole.
Portion(op, len) == IF op = "erase" THEN Smaller(len, BlockSize) ELSE len

Enter(t, op, dev, offset, len, aligned) ==
    LET n == bio_trim_range(dev, offset, len)
        first == offset + Start(dev)
        trimmed == IF n = 0 THEN 0 ELSE bio_trim_range("whole", first, n)
    IN  /\ call[t] = NULL
        /\ calls < MaxCalls
        /\ \/ SharedBlocks
           \/ \A u \in Thread : call[u] # NULL /\ ~(op = "read" /\ call[u].op = "read")
                => BlocksOf(Requested(dev, offset, len)) \cap BlocksOf(call[u].range) = {}
        /\ calls' = calls + 1
        /\ call' = [call EXCEPT ![t] =
             [op |-> op, range |-> Requested(dev, offset, len), aligned |-> aligned,
              first |-> first,                      \* the byte that the call began with
              at |-> first,                         \* the next byte
              left |-> Portion(op, trimmed),        \* bytes left of the bio_default_write() or _read()
              more |-> trimmed - Portion(op, trimmed), \* bytes to erase after that
              temp |-> NULL,                        \* the temporary block, once read
              buf |-> <<>>,                         \* what has been read
              err |-> 0]]
        /\ UNCHANGED <<disk, expected>>

bio_read(t, dev, offset, len, aligned) == Enter(t, "read", dev, offset, len, aligned)
bio_write(t, dev, offset, len, aligned) == Enter(t, "write", dev, offset, len, aligned)
bio_erase(t, dev, offset, len) == Enter(t, "erase", dev, offset, len, TRUE)

InCall(t) == call[t] # NULL /\ call[t].err = 0

\* A partial first block, or a partial last one.
Partial(c) == c.left > 0 /\ (c.at % BlockSize # 0 \/ c.left < BlockSize)

\* Whole blocks: all at once, or one by one through the temporary when the buffer is not aligned.
Middle(c) == c.left >= BlockSize /\ c.at % BlockSize = 0

\* Mutant of ToCopy: what is left of the block is not compared with what is left of the request.
ToCopy_WholeRest(c) == BlockSize - (c.at % BlockSize)

\* The bytes of a partial block that belong to the request.
ToCopy(c) == Smaller(BlockSize - (c.at % BlockSize), c.left)

MiddleBytes(c) == IF c.aligned THEN (c.left \div BlockSize) * BlockSize ELSE BlockSize

Span(first, n) == first..first + n - 1

BytesAt(first, n) == [i \in 1..n |-> disk[first + i - 1]]

\* n bytes are done: on to the next part, or to the next portion to erase.
Advanced(c, n) ==
    LET at == c.at + n
        left == c.left - n
        next == IF left = 0 THEN Portion("erase", c.more) ELSE 0
    IN  [c EXCEPT !.at = at, !.left = left + next, !.more = @ - next, !.temp = NULL]

\* bio_read_block() and bio_write_block() return less than was asked for, or an error.
Failed(t) == call' = [call EXCEPT ![t].err = ERR_IO, ![t].temp = NULL]

read_transfer(t) ==
    /\ InCall(t) /\ call[t].op = "read" /\ call[t].left > 0
    /\ LET c == call[t]
           n == IF Partial(c) THEN ToCopy(c) ELSE MiddleBytes(c)
       IN  \/ call' = [call EXCEPT ![t] = [Advanced(c, n) EXCEPT !.buf = c.buf \o BytesAt(c.at, n)]]
           \/ Failed(t)
    /\ UNCHANGED <<disk, calls, expected>>

\* The block is read into the temporary.
write_partial_read(t) ==
    /\ InCall(t) /\ call[t].op # "read" /\ Partial(call[t]) /\ call[t].temp = NULL
    /\ \/ call' = [call EXCEPT ![t].temp = [b \in Span(call[t].at - (call[t].at % BlockSize), BlockSize) |-> disk[b]]]
       \/ Failed(t)
    /\ UNCHANGED <<disk, calls, expected>>

\* The temporary is written back with the caller's bytes in it.  A failed write may have written the block.
write_partial_write(t) ==
    /\ InCall(t) /\ call[t].temp # NULL
    /\ LET c == call[t]
           n == ToCopy(c)
           new == [b \in DOMAIN c.temp |-> IF b \in Span(c.at, n) THEN Data(t, b) ELSE c.temp[b]]
           written == [b \in Byte |-> IF b \in DOMAIN new THEN new[b] ELSE disk[b]]
       IN  \/ disk' = written /\ call' = [call EXCEPT ![t] = Advanced(c, n)]
           \/ disk' \in {disk, written} /\ Failed(t)
    /\ UNCHANGED <<calls, expected>>

\* Whole blocks are written.  A failed write may have written the first of them.
write_middle(t) ==
    /\ InCall(t) /\ call[t].op # "read" /\ Middle(call[t])
    /\ LET c == call[t]
           n == MiddleBytes(c)
           Written(k) == [b \in Byte |-> IF b \in Span(c.at, k * BlockSize) THEN Data(t, b) ELSE disk[b]]
       IN  \/ disk' = Written(n \div BlockSize) /\ call' = [call EXCEPT ![t] = Advanced(c, n)]
           \/ \E k \in 0..n \div BlockSize : disk' = Written(k) /\ Failed(t)
    /\ UNCHANGED <<calls, expected>>

Ended(t) == call[t] # NULL /\ (call[t].err # 0 \/ call[t].left = 0)

\* The call returns.  What a write that failed leaves in its range is not promised.
return(t) ==
    /\ Ended(t)
    /\ call' = [call EXCEPT ![t] = NULL]
    /\ expected' = [b \in Byte |->
            IF call[t].op = "read" \/ b \notin call[t].range THEN expected[b]
            ELSE IF call[t].err = 0 THEN Data(t, b) ELSE disk[b]]
    /\ UNCHANGED <<disk, calls>>

Next ==
    \E t \in Thread :
        \/ \E dev \in {"whole", "sub"}, offset \in Offsets, len \in Lens :
            \/ \E aligned \in BOOLEAN :
                bio_read(t, dev, offset, len, aligned) \/ bio_write(t, dev, offset, len, aligned)
            \/ bio_erase(t, dev, offset, len)
        \/ read_transfer(t) \/ write_partial_read(t) \/ write_partial_write(t) \/ write_middle(t)
        \/ return(t)

Spec == Init /\ [][Next]_vars

-----------------------------------------------------------------------------

Writing == {t \in Thread : call[t] # NULL /\ call[t].op # "read"}

(***************************************************************************)
(* bio_read(), bio_write() and bio_erase() transfer the bytes that were    *)
(* asked for and no others, whatever their alignment, on a sub-device as   *)
(* on the whole.  Until it returns, a write has stored a first part of its *)
(* range and left the rest as it was: also when a transfer fails.  What a  *)
(* read returns is what the device holds.                                  *)
(***************************************************************************)
TransfersExact ==
    /\ \A b \in Byte : disk[b] # expected[b] => \E t \in Writing : b \in call[t].range
    /\ \A t \in Writing :
        \E k \in 0..Cardinality(call[t].range) :
            \A b \in call[t].range :
                disk[b] = IF b < call[t].first + k THEN Data(t, b) ELSE expected[b]
    /\ \A t \in Thread : call[t] # NULL /\ call[t].op = "read" =>
        /\ \A i \in DOMAIN call[t].buf :
            call[t].first + i - 1 \in call[t].range /\ call[t].buf[i] = expected[call[t].first + i - 1]
        /\ Ended(t) /\ call[t].err = 0 => Len(call[t].buf) = Cardinality(call[t].range)
=============================================================================
