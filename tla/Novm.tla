-------------------------------- MODULE Novm ---------------------------------
(***************************************************************************)
(* kernel/novm/novm.c: the page allocator of systems without an MMU.  Each *)
(* arena of memory has a byte map with one byte per page; every search and *)
(* update of a map is made holding the arena's mutex, and is one step.     *)
(* Addresses are numbers; PAGE_SIZE is small.  Callers free pages they     *)
(* own, and name pages inside an arena to novm_alloc_specific_pages().     *)
(***************************************************************************)
EXTENDS Integers, Sequences, FiniteSets, FiniteSetsExt

CONSTANTS
    Owner,          \* callers
    NOVM_MAX_ARENAS,
    PAGE_SIZE,
    MINIMUM_USEFUL_UNALIGNED_SIZE,
    Ranges,         \* <<arena_start, arena_size>> of memory: at least a page each
    Busy            \* those among them that allocations are explored in

VARIABLES
    arena,      \* [0..NOVM_MAX_ARENAS-1 -> the layout of an arena and its map]
    owners,     \* history: who was given each page and has not freed it
    stray       \* history: pages marked by a novm_alloc_specific_pages() that failed

vars == <<arena, owners, stray>>

ROUNDUP(a, b) == ((a + b - 1) \div b) * b
ROUNDDOWN(a, b) == (a \div b) * b

NoArena == [start |-> 0, end |-> 0, mapAt |-> -1, base |-> 0, size |-> 0, pages |-> 0,
            unaligned |-> [at |-> 0, size |-> 0], map |-> <<>>]

\* The pages at the start of an arena of n pages that its map takes, when
\* "gap" bytes precede the first page: the loop of novm_init_helper().
MapPages(gap, n) ==
    CHOOSE k \in 0..n :
        /\ gap + k * PAGE_SIZE >= n - k
        /\ \A j \in 0..k - 1 : gap + j * PAGE_SIZE < n - j

\* The area at "at" that ends at "end", if it is of any use.
Unaligned(at, end) ==
    IF end - at >= MINIMUM_USEFUL_UNALIGNED_SIZE THEN [at |-> at, size |-> end - at]
    ELSE [at |-> 0, size |-> 0]

\* The map is outside the arena, or in its first bytes.
novm_init_helper(arena_start, arena_size, default_map) ==
    LET first == ROUNDUP(arena_start, PAGE_SIZE)
        end == ROUNDDOWN(arena_start + arena_size, PAGE_SIZE)
        all == (end - first) \div PAGE_SIZE
        taken == IF default_map THEN 0 ELSE MapPages(first - arena_start, all)
        pages == all - taken
        start == first + taken * PAGE_SIZE
    IN [start |-> arena_start, end |-> arena_start + arena_size,
        mapAt |-> IF default_map THEN -1 ELSE arena_start,
        base |-> start, size |-> pages * PAGE_SIZE, pages |-> pages,
        unaligned |-> Unaligned(IF default_map THEN arena_start ELSE arena_start + ROUNDUP(pages, 4), start),
        map |-> [i \in 0..pages - 1 |-> 0]]

\* novm_init(): the main arena has a map of its own.
Init ==
    /\ \E r \in Ranges :
          arena = [i \in 0..NOVM_MAX_ARENAS - 1 |->
                      IF i = 0 THEN novm_init_helper(r[1], r[2], TRUE) ELSE NoArena]
    /\ owners = [i \in 0..NOVM_MAX_ARENAS - 1 |-> [p \in DOMAIN arena[i].map |-> {}]]
    /\ stray = {}

\* The first arena without pages; without one the system panics.
novm_add_arena(r) ==
    LET unused == {i \in DOMAIN arena : arena[i].pages = 0}
    IN /\ unused # {}
       /\ arena' = [arena EXCEPT ![Min(unused)] = novm_init_helper(r[1], r[2], FALSE)]
       /\ owners' = [owners EXCEPT ![Min(unused)] = [p \in DOMAIN arena'[Min(unused)].map |-> {}]]
       /\ UNCHANGED stray

-----------------------------------------------------------------------------

Marked(map, i, n) == {p \in i..i + n - 1 : map[p] # 0}

LastStart(a, n) == a.pages - n

\* The loop of novm_alloc_helper(): at a marked page j pages on, it goes on
\* behind that page.  -1 is NULL.
novm_alloc_helper(a, n) ==
    LET Scan[i \in 0..a.pages + 1] ==
            IF i > LastStart(a, n) THEN -1
            ELSE IF Marked(a.map, i, n) = {} THEN i
            ELSE Scan[Min(Marked(a.map, i, n)) + 1]
    IN IF n = 0 \/ n > a.pages THEN -1 ELSE Scan[0]

\* n pages of arena i from page p on become o's.
Give(i, p, n, o) ==
    /\ arena' = [arena EXCEPT ![i].map = [q \in DOMAIN @ |-> IF q \in p..p + n - 1 THEN 1 ELSE @[q]]]
    /\ owners' = [owners EXCEPT ![i] =
                    [q \in DOMAIN @ |-> IF q \in p..p + n - 1 THEN @[q] \cup {o} ELSE @[q]]]

\* The first arena of the bitmap that has the pages.
novm_alloc_pages(o, n, arena_bitmap) ==
    LET able == {i \in arena_bitmap : novm_alloc_helper(arena[i], n) # -1}
    IN /\ able # {}
       /\ Give(Min(able), novm_alloc_helper(arena[Min(able)], n), n, o)
       /\ UNCHANGED stray

\* The bytes in front of the first arena, once; then a page.
novm_alloc_unaligned(o) ==
    \/ /\ arena[0].unaligned.size > 0
       /\ arena' = [arena EXCEPT ![0].unaligned = [at |-> 0, size |-> 0]]
       /\ UNCHANGED <<owners, stray>>
    \/ /\ arena[0].unaligned.size = 0
       /\ novm_alloc_pages(o, 1, DOMAIN arena)

novm_free_pages(o, i, p, n) ==
    /\ p + n <= arena[i].pages
    /\ \A q \in p..p + n - 1 : o \in owners[i][q]
    /\ arena' = [arena EXCEPT ![i].map = [q \in DOMAIN @ |-> IF q \in p..p + n - 1 THEN 0 ELSE @[q]]]
    /\ owners' = [owners EXCEPT ![i] =
                    [q \in DOMAIN @ |-> IF q \in p..p + n - 1 THEN @[q] \ {o} ELSE @[q]]]
    /\ UNCHANGED stray

\* Pages are marked one by one up to the first that is taken: then the call
\* fails, and the pages it has marked stay so.
novm_alloc_specific_pages(o, i, p, n) ==
    /\ p + n <= arena[i].pages
    /\ LET taken == Marked(arena[i].map, p, n)
       IN \/ taken = {} /\ Give(i, p, n, o) /\ UNCHANGED stray
          \/ /\ taken # {}
             /\ LET left == p..Min(taken) - 1
                IN /\ arena' = [arena EXCEPT ![i].map =
                                   [q \in DOMAIN @ |-> IF q \in left THEN 1 ELSE @[q]]]
                   /\ stray' = stray \cup ({i} \X left)
             /\ UNCHANGED owners

\* Bound: allocations are made where every arena is a busy one.
Explored == \A i \in DOMAIN arena : arena[i] = NoArena \/ <<arena[i].start, arena[i].end - arena[i].start>> \in Busy

Pages == 1..Max({arena[i].pages : i \in DOMAIN arena})

Next ==
    \/ \E r \in Ranges : novm_add_arena(r)
    \/ Explored /\ \E o \in Owner :
        \/ novm_alloc_unaligned(o)
        \/ \E n \in Pages :
            \/ \E arena_bitmap \in SUBSET DOMAIN arena : novm_alloc_pages(o, n, arena_bitmap)
            \/ \E i \in DOMAIN arena : \E p \in DOMAIN arena[i].map :
                novm_free_pages(o, i, p, n) \/ novm_alloc_specific_pages(o, i, p, n)

Spec == Init /\ [][Next]_vars

-----------------------------------------------------------------------------

(***************************************************************************)
(* A page belongs to at most one caller, and the map marks exactly the     *)
(* pages that belong to someone or that a failed call has left marked.     *)
(***************************************************************************)
PagesOwnedOnce ==
    \A i \in DOMAIN arena : \A p \in DOMAIN arena[i].map :
        /\ Cardinality(owners[i][p]) <= 1
        /\ arena[i].map[p] = 1 <=> owners[i][p] # {} \/ <<i, p>> \in stray

(***************************************************************************)
(* novm_alloc_helper() skips ahead at a marked page and still finds the    *)
(* first run of free pages that is long enough whenever there is one.      *)
(***************************************************************************)
FirstFit ==
    \A i \in DOMAIN arena : \A n \in 1..arena[i].pages :
        LET fits == {p \in 0..arena[i].pages - n : \A q \in p..p + n - 1 : arena[i].map[q] = 0}
        IN novm_alloc_helper(arena[i], n) = IF fits = {} THEN -1 ELSE Min(fits)

(***************************************************************************)
(* novm_init_helper() cuts an arena into a map with a byte for every page, *)
(* bytes for novm_alloc_unaligned() and whole pages that do not overlap    *)
(* and stay inside the memory it was given.                                *)
(***************************************************************************)
LayoutSound ==
    \A i \in DOMAIN arena : LET a == arena[i] IN
        /\ a.base % PAGE_SIZE = 0
        /\ a.start <= a.base /\ a.base + a.size <= a.end
        /\ a.mapAt # -1 => a.mapAt + a.pages <= a.base
        /\ a.unaligned.size > 0 =>
              /\ a.unaligned.at >= a.start /\ a.unaligned.at + a.unaligned.size <= a.base
              /\ a.mapAt # -1 => a.mapAt + a.pages <= a.unaligned.at

=============================================================================
