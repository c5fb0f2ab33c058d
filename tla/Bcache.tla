------------------------------- MODULE Bcache --------------------------------
(***************************************************************************)
(* lib/bcache/bcache.c: the write-back block cache of the file systems, in *)
(* front of a block device whose reads and writes may fail.  The cache has *)
(* no lock: its calls follow one another.  The caller works on a block in  *)
(* place between bcache_get_block() and bcache_put_block(), and marks what *)
(* it has changed before it puts the block back.                           *)
(***************************************************************************)
EXTENDS Naturals, Sequences, SequencesExt, FiniteSets

CONSTANTS
    Block,      \* the blocks of the cache
    Num,        \* block numbers of the device
    Value,      \* what a block may hold; 0 is a block of zeros
    MaxRef,     \* bound on the references to one block
    NULL

VARIABLES
    free_list, lru_list,    \* sequences of blocks
    blocknum, ref_count, is_dirty, ptr,     \* the fields of every block
    disk,       \* the device
    latest,     \* history: what each block of the device was last made to hold
    unmarked,   \* history: changed in place and not yet marked
    fault       \* the first thing that went wrong

vars == <<free_list, lru_list, blocknum, ref_count, is_dirty, ptr, disk, latest, unmarked, fault>>

\* bcache_create(), on a device that holds zeros.
Init ==
    /\ free_list = SetToSeq(Block)
    /\ lru_list = <<>>
    /\ blocknum = [b \in Block |-> NULL]
    /\ ref_count = [b \in Block |-> 0]
    /\ is_dirty = [b \in Block |-> FALSE]
    /\ ptr = [b \in Block |-> 0]
    /\ disk = [n \in Num |-> 0]
    /\ latest = disk
    /\ unmarked = {}
    /\ fault = "none"

\* The block find_block() returns for n.
Cached(n) ==
    LET i == SelectInSeq(lru_list, LAMBDA b : blocknum[b] = n)
    IN IF i = 0 THEN NULL ELSE lru_list[i]

\* list_delete() and list_add_tail().
ToTail(list, b) == Append(SelectSeq(list, LAMBDA x : x # b), b)

\* Mutant of Evictable: the references are not looked at.
Evictable_Any(b) == TRUE

Evictable(b) == ref_count[b] = 0

\* The block alloc_block() takes: a free one, or the least recently used one
\* without references.
Victim ==
    IF free_list # <<>> THEN Head(free_list)
    ELSE LET i == SelectInSeq(lru_list, Evictable) IN IF i = 0 THEN NULL ELSE lru_list[i]

\* flush_block() leaves the block dirty unless bio_write() succeeded.
Flushed(ok) == ok

\* find_block() succeeds: b becomes the most recently used.
Found(n) == Cached(n) # NULL /\ lru_list' = ToTail(lru_list, Cached(n))

\* The free list without the victim.
StillFree == SelectSeq(free_list, LAMBDA b : b # Victim)

\* alloc_block() returns Victim for block n, the victim written back.
Allocates(n) ==
    /\ Cached(n) = NULL
    /\ Victim # NULL
    /\ lru_list' = ToTail(lru_list, Victim)
    /\ blocknum' = [blocknum EXCEPT ![Victim] = n]
    /\ disk' = IF is_dirty[Victim] THEN [disk EXCEPT ![blocknum[Victim]] = ptr[Victim]] ELSE disk

\* alloc_block() returns NULL: nothing to evict, or bio_write() failed.
AllocFails(n) ==
    /\ Cached(n) = NULL
    /\ Victim # NULL => is_dirty[Victim]
    /\ is_dirty' = IF Victim = NULL \/ ~Flushed(FALSE) THEN is_dirty ELSE [is_dirty EXCEPT ![Victim] = FALSE]

-----------------------------------------------------------------------------

\* find_or_fill_block() that finds n, or reads it, and then takes "refs"
\* references: bcache_read_block() and bcache_get_block().
find_or_fill_block(n, refs) ==
    \/ /\ Found(n)
       /\ ref_count[Cached(n)] + refs <= MaxRef
       /\ ref_count' = [ref_count EXCEPT ![Cached(n)] = @ + refs]
       /\ UNCHANGED <<free_list, blocknum, is_dirty, ptr, disk, latest, unmarked, fault>>
    \/ /\ Allocates(n)
       /\ free_list' = StillFree
       /\ is_dirty' = [is_dirty EXCEPT ![Victim] = FALSE]
       /\ ptr' = [ptr EXCEPT ![Victim] = disk'[n]]
       /\ ref_count' = [ref_count EXCEPT ![Victim] = refs]
       /\ UNCHANGED <<latest, unmarked, fault>>

bcache_read_block(n) == find_or_fill_block(n, 0)
bcache_get_block(n) == find_or_fill_block(n, 1)

\* bio_read() fails: the block is put on the free list and is still on the
\* other one, both of which use its one list node.
bio_read_fails(n) ==
    /\ Allocates(n)
    /\ free_list' = Append(StillFree, Victim)
    /\ is_dirty' = [is_dirty EXCEPT ![Victim] = FALSE]
    /\ fault' = "block on two lists"
    /\ UNCHANGED <<ref_count, ptr, latest, unmarked>>

\* alloc_block() fails: DEBUG_ASSERT(block).
alloc_block_fails(n) ==
    /\ AllocFails(n)
    /\ fault' = "DEBUG_ASSERT(block)"
    /\ UNCHANGED <<free_list, lru_list, blocknum, ref_count, ptr, disk, latest, unmarked>>

\* The caller changes a block it holds, and marks it.
write_block(n, v) ==
    /\ Cached(n) # NULL
    /\ ref_count[Cached(n)] > 0
    /\ ptr' = [ptr EXCEPT ![Cached(n)] = v]
    /\ latest' = [latest EXCEPT ![n] = v]
    /\ unmarked' = unmarked \cup {n}
    /\ UNCHANGED <<free_list, lru_list, blocknum, ref_count, is_dirty, disk, fault>>

bcache_mark_block_dirty(n) ==
    /\ Found(n)
    /\ is_dirty' = [is_dirty EXCEPT ![Cached(n)] = TRUE]
    /\ unmarked' = unmarked \ {n}
    /\ UNCHANGED <<free_list, blocknum, ref_count, ptr, disk, latest, fault>>

bcache_put_block(n) ==
    /\ Found(n)
    /\ ref_count[Cached(n)] > 0
    /\ n \notin unmarked
    /\ ref_count' = [ref_count EXCEPT ![Cached(n)] = @ - 1]
    /\ UNCHANGED <<free_list, blocknum, is_dirty, ptr, disk, latest, unmarked, fault>>

bcache_zero_block(n) ==
    /\ \/ /\ Found(n)
          /\ UNCHANGED <<free_list, blocknum, disk, ref_count>>
       \/ Allocates(n) /\ free_list' = StillFree /\ ref_count' = [ref_count EXCEPT ![Victim] = 0]
    /\ LET b == Last(lru_list')
       IN ptr' = [ptr EXCEPT ![b] = 0] /\ is_dirty' = [is_dirty EXCEPT ![b] = TRUE]
    /\ latest' = [latest EXCEPT ![n] = 0]
    /\ unmarked' = unmarked \ {n}
    /\ UNCHANGED fault

bcache_zero_block_fails(n) ==
    /\ AllocFails(n)
    /\ UNCHANGED <<free_list, lru_list, blocknum, ref_count, ptr, disk, latest, unmarked, fault>>

\* The first k dirty blocks of lru_list.
FirstDirty(k) == ToSet(SubSeq(SelectSeq(lru_list, LAMBDA b : is_dirty[b]), 1, k))

Dirty == {b \in Block : is_dirty[b]}

\* bcache_flush() writes in the order of the list and stops at the first
\* bio_write() that fails: k blocks are written.
bcache_flush(k) ==
    /\ k \in 0..Cardinality(Dirty)
    /\ LET done == FirstDirty(k)
       IN /\ disk' = [n \in Num |-> IF Cached(n) \in done THEN ptr[Cached(n)] ELSE disk[n]]
          /\ is_dirty' = [b \in Block |-> is_dirty[b] /\ b \notin done]
    /\ UNCHANGED <<free_list, lru_list, blocknum, ref_count, ptr, latest, unmarked, fault>>

Next ==
    /\ fault = "none"
    /\ \/ \E n \in Num :
            \/ bcache_read_block(n)
            \/ bcache_get_block(n)
            \/ bio_read_fails(n)
            \/ alloc_block_fails(n)
            \/ \E v \in Value : write_block(n, v)
            \/ bcache_mark_block_dirty(n)
            \/ bcache_put_block(n)
            \/ bcache_zero_block(n)
            \/ bcache_zero_block_fails(n)
       \/ \E k \in 1..Cardinality(Block) : bcache_flush(k)

Spec == Init /\ [][Next]_vars

-----------------------------------------------------------------------------

(***************************************************************************)
(* Through evictions, flushes that fail half way and writes that fail, the *)
(* cache never loses an update: a block that is cached holds the latest    *)
(* contents, a block that is not is up to date on the device, and so is a  *)
(* cached one that is neither dirty nor being changed.                     *)
(***************************************************************************)
NoUpdateLost ==
    fault = "none" =>
        \A n \in Num :
            LET b == Cached(n)
            IN IF b = NULL THEN disk[n] = latest[n]
               ELSE /\ ptr[b] = latest[n]
                    /\ is_dirty[b] \/ n \in unmarked \/ disk[n] = latest[n]

(***************************************************************************)
(* "free the block, return an error" (find_or_fill_block()): a block is on *)
(* one list at a time, also when it could not be filled.  It is not.       *)
(***************************************************************************)
BlockOnOneList ==
    \A b \in Block :
        Cardinality({i \in DOMAIN lru_list : lru_list[i] = b})
            + Cardinality({i \in DOMAIN free_list : free_list[i] = b}) = 1

=============================================================================
