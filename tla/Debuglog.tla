------------------------------- MODULE Debuglog -------------------------------
(***************************************************************************)
(* lib/debuglog/debuglog.c: writers that put records into a circular       *)
(* buffer and discard the oldest ones, readers that may be overtaken by    *)
(* them, and the notifier thread between them, with an event on each side. *)
(*                                                                         *)
(* Sizes and positions count words of four bytes.  A word of a record is   *)
(* the number of the record and the place of the word in it; the header    *)
(* word also tells the size.                                               *)
(***************************************************************************)
EXTENDS Integers, Sequences, FiniteSets

CONSTANTS
    Writer, Reader, NULL,
    dlog_size,
    SIZE_T,             \* head and tail wrap at this multiple of dlog_size
    First,              \* head and tail when the model begins
    WireSizes,          \* of the records that are written
    MaxRecords          \* bound

VARIABLES
    head, tail, data,
    event,              \* log->event
    readers,            \* the list of readers
    readers_lock,       \* who holds it, or NULL
    rdr,                \* of each reader: its tail, its event and where it is
    writer,             \* where each writer is
    notifier,           \* the readers that it still has to notify; NULL while it waits
    at,                 \* history: where each record was put
    due                 \* history: the record each reader has to read next

vars == <<head, tail, data, event, readers, readers_lock, rdr, writer, notifier, at, due>>

Index(pos) == pos % dlog_size
Wrap(pos) == pos % SIZE_T

Init ==
    /\ head = First /\ tail = First
    /\ data = [i \in 0..dlog_size - 1 |-> NULL]
    /\ event = FALSE
    /\ readers = {} /\ readers_lock = NULL
    /\ rdr = [r \in Reader |-> [pc |-> "none", tail |-> 0, event |-> FALSE]]
    /\ writer = [w \in Writer |-> "idle"]
    /\ notifier = NULL
    /\ at = <<>>
    /\ due = [r \in Reader |-> 0]

NOTIFIER == "notifier"

-----------------------------------------------------------------------------
(***************************************************************************)
(* Writing: the record under log->lock, then the event.                    *)
(***************************************************************************)

SizeAt(pos) == data[Index(pos)].size

\* The tails that the loop of dlog_write() goes through.
Tails ==
    LET T[n \in 0..MaxRecords] ==
            IF n = 0 THEN tail
            ELSE IF T[n - 1] = head THEN head ELSE Wrap(T[n - 1] + SizeAt(T[n - 1]))
    IN  {T[n] : n \in 0..MaxRecords}

\* Mutant of NoRoom: as if the buffer was one word larger.
NoRoom_OffByOne(t, wiresize) == Wrap(head - t) > dlog_size + 1 - wiresize

\* There is no room for a record while the tail is t.
NoRoom(t, wiresize) == Wrap(head - t) > dlog_size - wiresize

\* The first tail that leaves room.
Discarded(wiresize) ==
    CHOOSE t \in Tails : /\ ~NoRoom(t, wiresize)
                         /\ \A u \in Tails : ~NoRoom(u, wiresize) => Wrap(head - u) <= Wrap(head - t)

dlog_write(w, wiresize) ==
    /\ writer[w] = "idle"
    /\ Len(at) < MaxRecords
    /\ tail' = Discarded(wiresize)
    /\ data' = [i \in DOMAIN data |->
            IF \E k \in 0..wiresize - 1 : i = Index(head + k)
            THEN [record |-> Len(at) + 1, word |-> Index(i - head), size |-> wiresize]
            ELSE data[i]]
    /\ head' = Wrap(head + wiresize)
    /\ at' = Append(at, [pos |-> head, size |-> wiresize])
    /\ writer' = [writer EXCEPT ![w] = "signal"]
    /\ UNCHANGED <<event, readers, readers_lock, rdr, notifier, due>>

dlog_write_signal(w) ==
    /\ writer[w] = "signal"
    /\ event' = TRUE
    /\ writer' = [writer EXCEPT ![w] = "idle"]
    /\ UNCHANGED <<head, tail, data, readers, readers_lock, rdr, notifier, at, due>>

-----------------------------------------------------------------------------
(***************************************************************************)
(* debuglog_notifier().                                                    *)
(***************************************************************************)

debuglog_notifier_wait ==
    /\ notifier = NULL /\ event
    /\ event' = FALSE
    /\ notifier' = Reader       \* until it has the lock
    /\ UNCHANGED <<head, tail, data, readers, readers_lock, rdr, writer, at, due>>

debuglog_notifier_lock ==
    /\ notifier # NULL /\ readers_lock = NULL
    /\ readers_lock' = NOTIFIER
    /\ notifier' = readers
    /\ UNCHANGED <<head, tail, data, event, readers, rdr, writer, at, due>>

debuglog_notifier_notify ==
    /\ readers_lock = NOTIFIER
    /\ IF notifier = {} THEN readers_lock' = NULL /\ notifier' = NULL /\ UNCHANGED rdr
       ELSE \E r \in notifier :
            /\ rdr' = [rdr EXCEPT ![r].event = TRUE]
            /\ notifier' = notifier \ {r}
            /\ UNCHANGED readers_lock
    /\ UNCHANGED <<head, tail, data, event, readers, writer, at, due>>

-----------------------------------------------------------------------------
(***************************************************************************)
(* Readers, as debuglog_dumper() is one.                                   *)
(***************************************************************************)

\* The oldest record in the buffer.
Oldest == CHOOSE n \in 1..Len(at) + 1 :
    /\ n > Len(at) => tail = head
    /\ n <= Len(at) => at[n].pos = tail /\ tail # head

do_notify == tail # head

dlog_reader_init(r) ==
    /\ rdr[r].pc = "none" /\ readers_lock = NULL
    /\ readers_lock' = r
    /\ readers' = readers \cup {r}
    /\ rdr' = [rdr EXCEPT ![r].pc = IF do_notify THEN "notify" ELSE "added", ![r].tail = tail]
    /\ due' = [due EXCEPT ![r] = Oldest]
    /\ UNCHANGED <<head, tail, data, event, writer, notifier, at>>

dlog_reader_init_notify(r) ==
    /\ rdr[r].pc \in {"notify", "added"}
    /\ rdr' = [rdr EXCEPT ![r].event = @ \/ rdr[r].pc = "notify", ![r].pc = "wait"]
    /\ readers_lock' = NULL
    /\ UNCHANGED <<head, tail, data, event, readers, writer, notifier, at, due>>

dlog_reader_wait(r) ==
    /\ rdr[r].pc = "wait" /\ rdr[r].event
    /\ rdr' = [rdr EXCEPT ![r].event = FALSE, ![r].pc = "flush"]
    /\ UNCHANGED <<head, tail, data, event, readers, readers_lock, writer, notifier, at, due>>

\* A reader was overtaken.
Lapped(rtail) == Wrap(head - tail) < Wrap(head - rtail)

dlog_read(r) ==
    /\ rdr[r].pc = "flush"
    /\ LET rtail == IF Lapped(rdr[r].tail) THEN tail ELSE rdr[r].tail
       IN  IF rtail = head
           THEN rdr' = [rdr EXCEPT ![r].tail = rtail, ![r].pc = "wait"] /\ UNCHANGED due
           ELSE /\ rdr' = [rdr EXCEPT ![r].tail = Wrap(rtail + SizeAt(rtail))]
                /\ due' = [due EXCEPT ![r] = data[Index(rtail)].record + 1]
    /\ UNCHANGED <<head, tail, data, event, readers, readers_lock, writer, notifier, at>>

dlog_reader_destroy(r) ==
    /\ rdr[r].pc = "wait" /\ readers_lock = NULL
    /\ readers' = readers \ {r}
    /\ rdr' = [rdr EXCEPT ![r].pc = "none"]
    /\ UNCHANGED <<head, tail, data, event, readers_lock, writer, notifier, at, due>>

Next ==
    \/ \E w \in Writer : dlog_write_signal(w) \/ \E n \in WireSizes : dlog_write(w, n)
    \/ debuglog_notifier_wait \/ debuglog_notifier_lock \/ debuglog_notifier_notify
    \/ \E r \in Reader : \/ dlog_reader_init(r) \/ dlog_reader_init_notify(r) \/ dlog_reader_wait(r)
                         \/ dlog_read(r) \/ dlog_reader_destroy(r)

Spec == Init /\ [][Next]_vars

-----------------------------------------------------------------------------

(***************************************************************************)
(* The records from the tail to the head are whole, and each reader is at  *)
(* the record that it has to read next, or finds that it was overtaken:    *)
(* dlog_read() returns every record once and in order, but for those that  *)
(* dlog_write() has discarded.                                             *)
(***************************************************************************)
RecordsWhole ==
    /\ \A n \in Oldest..Len(at), k \in 0..dlog_size - 1 :
            k < at[n].size => data[Index(at[n].pos + k)] = [record |-> n, word |-> k, size |-> at[n].size]
    /\ Wrap(head - tail) <= dlog_size
    /\ \A r \in readers :
        IF due[r] < Oldest THEN Lapped(rdr[r].tail)
        ELSE /\ ~Lapped(rdr[r].tail)
             /\ rdr[r].tail = IF due[r] > Len(at) THEN head ELSE at[due[r]].pos

(***************************************************************************)
(* No reader sleeps with a record that it has not read unless somebody is  *)
(* about to wake it: the writer that has not yet signalled log->event, the *)
(* notifier, or dlog_reader_init() itself.                                 *)
(***************************************************************************)
NoneUnread ==
    \A r \in readers :
        rdr[r].pc = "wait" /\ due[r] <= Len(at) =>
            \/ rdr[r].event
            \/ event \/ \E w \in Writer : writer[w] = "signal"
            \/ notifier # NULL /\ r \in notifier

LogDelivered == RecordsWhole /\ NoneUnread
==============================================================================
