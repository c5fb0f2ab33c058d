------------------------------- MODULE Miniheap -------------------------------
(***************************************************************************)
(* lib/heap/miniheap/miniheap.c: a list of free chunks in the order of     *)
(* their addresses, which grows by pages of the page allocator and gives   *)
(* whole pages back in miniheap_trim().  The list is searched and changed  *)
(* under theheap.lock, but the lock is released between a search that      *)
(* finds nothing, the allocation of pages and the next search.             *)
(*                                                                         *)
(* Addresses and lengths are in words, to which the source rounds up.      *)
(***************************************************************************)
EXTENDS Integers, Sequences, SequencesExt, FiniteSets, FiniteSetsExt

CONSTANTS
    Thread, NULL,
    PAGE_SIZE,
    Page,           \* pages of the page allocator; page p begins at p * PAGE_SIZE
    First,          \* what page_first_alloc() may return: pairs of a base and a length
    Sizes, Alignments,  \* the arguments that callers use
    MaxAllocs       \* bound: allocations at one time

VARIABLES
    free_list,      \* records of the base and the length of each chunk
    remaining,      \* theheap.remaining
    range,          \* theheap.base and .len
    pages,          \* who has each page: "none", "heap" or "other"
    first,          \* what page_first_alloc() returned
    allocs,         \* what has been allocated
    th              \* the locals of each thread

vars == <<free_list, remaining, range, pages, first, allocs, th>>

ALLOC_STRUCT_BEGIN == 2     \* sizeof(struct alloc_struct_begin)
FREE_HEAP_CHUNK == 3        \* sizeof(struct free_heap_chunk)

Chunk(base, len) == [base |-> base, len |-> len]

Idle == [pc |-> "idle", size |-> 0, alignment |-> 0, want |-> 0, old |-> NULL, ptr |-> NULL]

ROUNDUP(a, b) == ((a + b - 1) \div b) * b
ROUNDDOWN(a, b) == (a \div b) * b
Larger(a, b) == IF a > b THEN a ELSE b

\* miniheap_init() with what page_first_alloc() gave.
Init ==
    /\ first \in First
    /\ free_list = <<Chunk(first[1], first[2])>>
    /\ remaining = first[2]
    /\ range = Chunk(first[1], first[2])
    /\ pages = [p \in Page |-> IF p * PAGE_SIZE = first[1] THEN "heap" ELSE "none"]
    /\ allocs = {}
    /\ th = [t \in Thread |-> Idle]

-----------------------------------------------------------------------------
(***************************************************************************)
(* The free list.                                                          *)
(***************************************************************************)

Touches(a, b) == a.base + a.len = b.base

Joined(a, b) == Chunk(a.base, a.len + b.len)

\* The list with this chunk put in its place and merged with its neighbours.
heap_insert_free_chunk(list, chunk) ==
    LET before == SelectSeq(list, LAMBDA x : x.base <= chunk.base)
        after == SelectSeq(list, LAMBDA x : x.base > chunk.base)
        mergesLast == before # <<>> /\ Touches(Last(before), chunk)
        merged == IF mergesLast THEN Joined(Last(before), chunk) ELSE chunk
        mergesNext == after # <<>> /\ Touches(merged, Head(after))
    IN  (IF mergesLast THEN Front(before) ELSE before)
        \o (IF mergesNext THEN <<Joined(merged, Head(after))>> \o Tail(after) ELSE <<merged>> \o after)

\* What is left of a chunk behind an allocation of this size, if it is enough for a chunk.
Rest(chunk, size) ==
    IF chunk.len > size + FREE_HEAP_CHUNK THEN <<Chunk(chunk.base + size, chunk.len - size)>> ELSE <<>>

-----------------------------------------------------------------------------
(***************************************************************************)
(* miniheap_alloc().                                                       *)
(***************************************************************************)

\* The words to look for: the structure in front, at least a chunk, and room to align.
Needed(size, alignment) ==
    Larger(size + ALLOC_STRUCT_BEGIN, FREE_HEAP_CHUNK) + alignment

\* memalign() with any power of two; less than 16 bytes, two words, is as good as that.
Aligned(alignment) == IF alignment > 0 THEN Larger(alignment, 2) ELSE 0

Enter(t, size, alignment, old) ==
    /\ th[t].pc = "idle"
    /\ Cardinality(allocs) + Cardinality({u \in Thread : th[u].pc # "idle"}) < MaxAllocs
    /\ th' = [th EXCEPT ![t] = [Idle EXCEPT !.pc = "search", !.size = Needed(size, Aligned(alignment)),
                                            !.alignment = Aligned(alignment), !.want = size, !.old = old]]
    /\ UNCHANGED <<free_list, remaining, range, pages, first, allocs>>

miniheap_alloc(t, size, alignment) == Enter(t, size, alignment, NULL)

\* The first chunk that is large enough is taken.
miniheap_alloc_search(t) ==
    /\ th[t].pc = "search"
    /\ LET fits == {i \in DOMAIN free_list : free_list[i].len >= th[t].size}
       IN  IF fits = {}
           THEN /\ th' = [th EXCEPT ![t].pc = "grow"]
                /\ UNCHANGED <<free_list, remaining, allocs>>
           ELSE LET i == Min(fits)
                    chunk == free_list[i]
                    rest == Rest(chunk, th[t].size)
                    size == IF rest = <<>> THEN chunk.len ELSE th[t].size
                    at == chunk.base + ALLOC_STRUCT_BEGIN
                IN  /\ free_list' = SubSeq(free_list, 1, i - 1) \o rest \o SubSeq(free_list, i + 1, Len(free_list))
                    /\ remaining' = remaining - size
                    /\ allocs' = allocs \cup
                         {[base |-> chunk.base, len |-> size, want |-> th[t].want, alignment |-> th[t].alignment,
                           ptr |-> IF th[t].alignment > 0 THEN ROUNDUP(at, th[t].alignment) ELSE at]}
                    /\ th' = [th EXCEPT ![t] = IF @.old = NULL THEN Idle ELSE [@ EXCEPT !.pc = "free"]]
    /\ UNCHANGED <<range, pages, first>>

GrowPages(t) == ROUNDUP(th[t].size, PAGE_SIZE) \div PAGE_SIZE

\* heap_grow(): any run of pages that is free, or none and NULL is returned.
heap_grow(t) ==
    /\ th[t].pc = "grow"
    /\ LET runs == {p \in Page : \A q \in p..p + GrowPages(t) - 1 : q \in Page /\ pages[q] = "none"}
       IN  \/ /\ runs = {}
              /\ th' = [th EXCEPT ![t] = Idle]
              /\ UNCHANGED pages
           \/ \E p \in runs :
                /\ pages' = [q \in Page |-> IF q \in p..p + GrowPages(t) - 1 THEN "heap" ELSE pages[q]]
                /\ th' = [th EXCEPT ![t].pc = "insert", ![t].ptr = p * PAGE_SIZE]
    /\ UNCHANGED <<free_list, remaining, range, first, allocs>>

heap_grow_insert(t) ==
    /\ th[t].pc = "insert"
    /\ LET len == GrowPages(t) * PAGE_SIZE
       IN  /\ free_list' = heap_insert_free_chunk(free_list, Chunk(th[t].ptr, len))
           /\ remaining' = remaining + len
    /\ th' = [th EXCEPT ![t].pc = "range"]
    /\ UNCHANGED <<range, pages, first, allocs>>

\* The start and the end of the heap, without the lock; then the search is done again.
heap_grow_range(t) ==
    /\ th[t].pc = "range"
    /\ LET base == IF th[t].ptr < range.base THEN th[t].ptr ELSE range.base
           end == th[t].ptr + GrowPages(t) * PAGE_SIZE
       IN  range' = Chunk(base, IF end > base + range.len THEN end - base ELSE range.len)
    /\ th' = [th EXCEPT ![t].pc = "search", ![t].ptr = NULL]
    /\ UNCHANGED <<free_list, remaining, pages, first, allocs>>

-----------------------------------------------------------------------------
(***************************************************************************)
(* miniheap_free(), miniheap_realloc() and miniheap_trim().                *)
(***************************************************************************)

InUse(a) == \E t \in Thread : th[t].old = a

Freed(a) ==
    /\ free_list' = heap_insert_free_chunk(free_list, Chunk(a.base, a.len))
    /\ remaining' = remaining + a.len
    /\ allocs' = allocs \ {a}

miniheap_free(t, a) ==
    /\ th[t].pc = "idle" /\ ~InUse(a)
    /\ Freed(a)
    /\ UNCHANGED <<range, pages, first, th>>

\* Another allocation, a copy, and the old one is freed.  To no size at all it is freed.
miniheap_realloc(t, a, size) ==
    /\ ~InUse(a)
    /\ size > 0
    /\ Enter(t, size, 0, a)

miniheap_realloc_free(t) ==
    /\ th[t].pc = "free"
    /\ Freed(th[t].old)
    /\ th' = [th EXCEPT ![t] = Idle]
    /\ UNCHANGED <<range, pages, first>>

\* Mutant of StartPage: whatever is left before the page.
StartPage_AnyRest(chunk) == ROUNDUP(chunk.base, PAGE_SIZE)

\* The first page to give back: what is left before it is enough for a chunk, or nothing.
StartPage(chunk) ==
    LET start == ROUNDUP(chunk.base, PAGE_SIZE)
    IN  IF start # chunk.base /\ start - chunk.base < FREE_HEAP_CHUNK THEN start + PAGE_SIZE ELSE start

\* The end of the last page to give back, likewise.
EndPage(chunk) ==
    LET chunkEnd == chunk.base + chunk.len
        end == ROUNDDOWN(chunkEnd, PAGE_SIZE)
    IN  IF end # chunkEnd /\ chunkEnd - end < FREE_HEAP_CHUNK THEN end - PAGE_SIZE ELSE end

Trimmed(chunk) == IF EndPage(chunk) > StartPage(chunk) THEN StartPage(chunk)..EndPage(chunk) - 1 ELSE {}

\* What is left of a chunk.
Kept(chunk) ==
    LET end == chunk.base + chunk.len
    IN  IF Trimmed(chunk) = {} THEN <<chunk>>
        ELSE (IF StartPage(chunk) = chunk.base THEN <<>> ELSE <<Chunk(chunk.base, StartPage(chunk) - chunk.base)>>)
             \o (IF EndPage(chunk) = end THEN <<>> ELSE <<Chunk(EndPage(chunk), end - EndPage(chunk))>>)

miniheap_trim ==
    LET given == UNION {Trimmed(free_list[i]) : i \in DOMAIN free_list}
    IN  /\ given # {}
        /\ free_list' = FlattenSeq([i \in DOMAIN free_list |-> Kept(free_list[i])])
        /\ pages' = [p \in Page |-> IF p * PAGE_SIZE \in given THEN "none" ELSE pages[p]]
        /\ remaining' = remaining - Cardinality(given)
        /\ UNCHANGED <<range, first, allocs, th>>

\* Pages are allocated and freed by others.
PageUse(p) ==
    /\ pages[p] # "heap"
    /\ pages' = [pages EXCEPT ![p] = IF @ = "none" THEN "other" ELSE "none"]
    /\ UNCHANGED <<free_list, remaining, range, first, allocs, th>>

Next ==
    \/ \E t \in Thread :
        \/ \E size \in Sizes, alignment \in Alignments : miniheap_alloc(t, size, alignment)
        \/ miniheap_alloc_search(t) \/ heap_grow(t) \/ heap_grow_insert(t) \/ heap_grow_range(t)
        \/ \E a \in allocs : miniheap_free(t, a) \/ \E size \in Sizes : miniheap_realloc(t, a, size)
        \/ miniheap_realloc_free(t)
    \/ miniheap_trim
    \/ \E p \in Page : PageUse(p)

Spec == Init /\ [][Next]_vars

-----------------------------------------------------------------------------

Words(c) == c.base..c.base + c.len - 1

Grown == {Chunk(th[t].ptr, GrowPages(t) * PAGE_SIZE) : t \in {u \in Thread : th[u].pc = "insert"}}

\* Everything that the heap has, in chunks.
Pieces == ToSet(free_list) \cup {Chunk(a.base, a.len) : a \in allocs} \cup Grown

\* The memory the heap has: its pages, and what it began with if that is not a page.
HeapWords ==
    {p * PAGE_SIZE + i : p \in {q \in Page : pages[q] = "heap"}, i \in 0..PAGE_SIZE - 1}
    \cup (IF first[1] % PAGE_SIZE = 0 THEN {} ELSE Words(Chunk(first[1], first[2])))

(***************************************************************************)
(* The chunks that are free, allocated or about to be inserted are exactly *)
(* the memory the heap has, and do not overlap, through every split, merge,*)
(* growth and trim.  The list is in order and what touches is merged; each *)
(* chunk can hold the structure of a free one; `remaining' is what is free.*)
(* An allocation is aligned as asked, and with the structure before it     *)
(* lies within its chunk.                                                  *)
(***************************************************************************)
HeapTiled ==
    /\ MapThenSumSet(LAMBDA c : c.len, Pieces) = Cardinality(UNION {Words(c) : c \in Pieces})
    /\ UNION {Words(c) : c \in Pieces} = HeapWords
    /\ \A c \in Pieces : c.len >= FREE_HEAP_CHUNK
    /\ \A i \in 1..Len(free_list) - 1 : free_list[i].base + free_list[i].len < free_list[i + 1].base
    /\ remaining = MapThenSumSet(LAMBDA c : c.len, ToSet(free_list))
    /\ \A a \in allocs :
        /\ a.ptr - ALLOC_STRUCT_BEGIN >= a.base
        /\ a.ptr + a.want <= a.base + a.len
        /\ a.alignment > 0 => a.ptr % a.alignment = 0

(***************************************************************************)
(* heap_grow(): "change the heap start and end variables", so that they    *)
(* are where the heap starts and ends.                                     *)
(***************************************************************************)
RangeCovers ==
    (\A t \in Thread : th[t].pc # "range")
        => \A c \in Pieces \ Grown : Words(c) \subseteq Words(range)
==============================================================================
