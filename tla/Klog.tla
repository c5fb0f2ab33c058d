--------------------------------- MODULE Klog ---------------------------------
(***************************************************************************)
(* lib/klog/klog.c: circular logs in memory that keeps its contents over a *)
(* reset, written a character at a time, with a checksum per log and one   *)
(* of their header, by which klog_recover() knows them again.              *)
(*                                                                         *)
(* Nothing here is locked, and there is one caller at a time.              *)
(***************************************************************************)
EXTENDS Integers, Sequences, SequencesExt, FiniteSetsExt

CONSTANTS
    NULL,
    log_count, size,
    BYTE,               \* a byte wraps at this even value
    Chars,              \* the characters that are written, as bytes
    CharIsSigned,       \* whether char is a signed type, as the platform decides
    Lens,               \* of what is written or read at once
    Others,             \* whether logs other than the current one are read
    MaxChars            \* bound: how many characters are written

VARIABLES
    kbuf,       \* the logs, the number of the current one and what header_crc32 was computed over
    klog,       \* the current log, or NULL before klog_create() or klog_recover()
    puts,       \* the locals of klog_puts_len(), or NULL
    chars,      \* how many characters were written
    unread,     \* history: what was written to each log and not read
    unchecked   \* history: a log was recovered whose checksum, still 0, is not that of its data

vars == <<kbuf, klog, puts, chars, unread, unchecked>>

Log == 0..log_count - 1
EmptyLog == [data |-> [i \in 0..size - 1 |-> 0], head |-> 0, tail |-> 0, checksum |-> 0]
Created == [log |-> [b \in Log |-> EmptyLog], current |-> 0, crc |-> 0]

Init ==
    /\ kbuf = Created
    /\ klog = 0 /\ puts = NULL /\ chars = 0
    /\ unread = [b \in Log |-> <<>>]
    /\ unchecked = FALSE

-----------------------------------------------------------------------------

NextPos(i) == IF i + 1 >= size THEN i + 1 - size ELSE i + 1

\* What is between the tail and the head: the vectors of klog_get_buffer().
klog_get_buffer(b) ==
    LET k == kbuf.log[b]
    IN  IF k.head >= k.tail THEN [i \in 1..k.head - k.tail |-> k.data[k.tail + i - 1]]
        ELSE [i \in 1..size - k.tail |-> k.data[k.tail + i - 1]] \o [i \in 1..k.head |-> k.data[i - 1]]

get_checksum_klog_data(k) == MapThenSumSet(LAMBDA i : k.data[i], 0..size - 1)

-----------------------------------------------------------------------------
(***************************************************************************)
(* klog_puts_len().  A reset can come between any two of its stores.       *)
(***************************************************************************)

klog_puts_len(s) ==
    /\ klog # NULL /\ puts = NULL
    /\ chars + Len(s) <= MaxChars
    /\ puts' = [str |-> s, deltasum |-> 0, pc |-> "data"]
    /\ chars' = chars + Len(s)
    /\ UNCHANGED <<kbuf, klog, unread, unchecked>>

Char(byte) == IF CharIsSigned /\ byte >= BYTE \div 2 THEN byte - BYTE ELSE byte

\* What a character changes in the checksum.
Delta(c, old) == Char(c) - old

klog_puts_len_data ==
    /\ puts # NULL /\ puts.pc = "data" /\ puts.str # <<>>
    /\ LET k == kbuf.log[klog]
           c == Head(puts.str)
       IN  /\ kbuf' = [kbuf EXCEPT !.log[klog].data[k.head] = c]
           /\ puts' = [puts EXCEPT !.deltasum = @ + Delta(c, k.data[k.head]), !.pc = "tail"]
    /\ UNCHANGED <<klog, chars, unread, unchecked>>

\* Bump the tail if the head collided with it.
klog_puts_len_tail ==
    /\ puts # NULL /\ puts.pc = "tail"
    /\ LET k == kbuf.log[klog]
       IN  kbuf' = [kbuf EXCEPT !.log[klog].tail = IF @ = NextPos(k.head) THEN NextPos(@) ELSE @]
    /\ puts' = [puts EXCEPT !.pc = "head"]
    /\ UNCHANGED <<klog, chars, unread, unchecked>>

klog_puts_len_head ==
    /\ puts # NULL /\ puts.pc = "head"
    /\ kbuf' = [kbuf EXCEPT !.log[klog].head = NextPos(@)]
    /\ unread' = [unread EXCEPT ![klog] = Append(@, Head(puts.str))]
    /\ puts' = [puts EXCEPT !.str = Tail(@), !.pc = "data"]
    /\ UNCHANGED <<klog, chars, unchecked>>

klog_puts_len_checksum ==
    /\ puts # NULL /\ puts.pc = "data" /\ puts.str = <<>>
    /\ kbuf' = [kbuf EXCEPT !.log[klog].checksum = @ + puts.deltasum]
    /\ puts' = NULL
    /\ UNCHANGED <<klog, chars, unread, unchecked>>

-----------------------------------------------------------------------------
(***************************************************************************)
(* Reading the log b: klog_read(), and klog_advance_tail() once the        *)
(* vectors were used.  Both move the tail of the current log.              *)
(***************************************************************************)

klog_read(b, len) ==
    LET offset == Min({len, Len(klog_get_buffer(b))})
    IN  /\ klog # NULL /\ puts = NULL
        /\ b = klog \/ Others
        /\ offset > 0
        /\ kbuf' = [kbuf EXCEPT !.log[klog].tail = IF @ + offset >= size THEN @ + offset - size ELSE @ + offset]
        /\ unread' = [unread EXCEPT ![b] = SubSeq(klog_get_buffer(b), offset + 1, Len(klog_get_buffer(b)))]
        /\ UNCHANGED <<klog, puts, chars, unchecked>>

-----------------------------------------------------------------------------

HeaderChecksum(b) == b

klog_set_current_buffer(b) ==
    /\ klog # NULL /\ puts = NULL /\ b # kbuf.current
    /\ klog' = b
    /\ kbuf' = [kbuf EXCEPT !.current = b]
    /\ puts' = [str |-> NULL, pc |-> "crc"]
    /\ UNCHANGED <<chars, unread, unchecked>>

klog_set_current_buffer_checksum ==
    /\ puts # NULL /\ puts.pc = "crc"
    /\ kbuf' = [kbuf EXCEPT !.crc = HeaderChecksum(kbuf.current)]
    /\ puts' = NULL
    /\ UNCHANGED <<klog, chars, unread, unchecked>>

\* The memory of the logs survives.
Reset ==
    /\ klog # NULL
    /\ klog' = NULL /\ puts' = NULL
    /\ UNCHANGED <<kbuf, chars, unread, unchecked>>

\* klog_recover() finds the logs valid.
Valid ==
    /\ kbuf.crc = kbuf.current
    /\ \A b \in Log : kbuf.log[b].checksum # 0 => get_checksum_klog_data(kbuf.log[b]) = kbuf.log[b].checksum

klog_recover ==
    /\ klog = NULL /\ Valid
    /\ klog' = kbuf.current
    /\ unchecked' = (unchecked \/ \E b \in Log : get_checksum_klog_data(kbuf.log[b]) # kbuf.log[b].checksum)
    /\ UNCHANGED <<kbuf, puts, chars, unread>>

\* What the caller of klog_recover() does when it finds nothing.
klog_create ==
    /\ klog = NULL /\ ~Valid
    /\ kbuf' = Created /\ klog' = 0
    /\ unread' = [b \in Log |-> <<>>]
    /\ unchecked' = FALSE
    /\ UNCHANGED <<puts, chars>>

Next ==
    \/ \E n \in Lens : \E s \in [1..n -> Chars] : klog_puts_len(s)
    \/ klog_puts_len_data \/ klog_puts_len_tail \/ klog_puts_len_head \/ klog_puts_len_checksum
    \/ \E b \in Log, n \in Lens : klog_read(b, n)
    \/ \E b \in Log : klog_set_current_buffer(b)
    \/ klog_set_current_buffer_checksum
    \/ Reset \/ klog_recover \/ klog_create

Spec == Init /\ [][Next]_vars

-----------------------------------------------------------------------------

(***************************************************************************)
(* A log holds the last characters that were written to it and not read,   *)
(* all that fit, but for the one that klog_puts_len() gives up before it   *)
(* adds another; also after a reset in the midst of it.  And a reset while *)
(* no call is being made loses nothing: klog_recover() finds the logs, if  *)
(* it did not earlier take a log whose first write had been interrupted.   *)
(***************************************************************************)
KlogKept ==
    /\ \A b \in Log : /\ IsSuffix(klog_get_buffer(b), unread[b])
                      /\ Len(klog_get_buffer(b)) >= Min({Len(unread[b]), size - 2})
    /\ klog # NULL /\ puts = NULL /\ ~unchecked => Valid

(***************************************************************************)
(* Whatever klog_recover() once took ("everything checks out") and was     *)
(* only written and read since, it will take again after another reset.    *)
(***************************************************************************)
RecoversAgain == klog # NULL /\ puts = NULL => Valid

(***************************************************************************)
(* klog.h: "Read functions actively remove data from the klog on read",    *)
(* whichever log they read.                                                *)
(***************************************************************************)
ReadRemoves == \A b \in Log : Len(klog_get_buffer(b)) <= Len(unread[b])
==============================================================================
