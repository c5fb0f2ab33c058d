---------------------------------- MODULE Vm ----------------------------------
(***************************************************************************)
(* kernel/vm: the physical pages of pmm.c, and the address spaces of vmm.c *)
(* that map them.  pmm_lock and vmm_lock are never held together: threads  *)
(* meet between the step that takes pages, the step that finds a region    *)
(* for them and maps it, and the one that gives them back.                 *)
(*                                                                         *)
(* Addresses count pages.                                                  *)
(***************************************************************************)
EXTENDS Integers, Sequences, SequencesExt, FiniteSets

CONSTANTS
    Thread, NULL,
    Arenas,             \* arena_list: base, size and whether PMM_ARENA_FLAG_KMAP
    VA,                 \* vaddr_t wraps at this
    KERNEL, User,       \* the address spaces
    KernelRange, UserRange,     \* their base and size
    Sizes, Alignments,  \* that callers ask for
    Spots,              \* addresses that they ask for
    Device,             \* where the registers of a device are, that vmm_alloc_physical() maps
    MaxRegions          \* bound: the regions of an address space

VARIABLES
    free_list,          \* of each arena
    free_count,
    nonfree,            \* the pages with VM_PAGE_FLAG_NONFREE
    aspace_list,
    region_list,        \* of each address space
    mmu,                \* what arch_mmu_map() and arch_mmu_unmap() have made of each
    kpages,             \* runs of pages that callers of pmm.c hold
    call                \* the locals of a call of each thread

vars == <<free_list, free_count, nonfree, aspace_list, region_list, mmu, kpages, call>>
pmmVars == <<free_list, free_count, nonfree>>

Aspace == {KERNEL} \cup User
Arena == DOMAIN Arenas
VPage == 0..VA - 1
PagesOf(a) == Arenas[a].base..Arenas[a].base + Arenas[a].size - 1
Page == UNION {PagesOf(a) : a \in Arena}

base(as) == IF as = KERNEL THEN KernelRange[1] ELSE UserRange[1]
size(as) == IF as = KERNEL THEN KernelRange[2] ELSE UserRange[2]

Wrap(x) == x % VA
LastPage(b, n) == Wrap(b + n - 1)

RoundUp(x, n) == ((x + n - 1) \div n) * n

Idle == [pc |-> "idle", as |-> NULL, vaddr |-> NULL, size |-> 0, align |-> 1, lists |-> <<>>]

Init ==
    /\ free_list = [a \in Arena |-> [i \in 1..Arenas[a].size |-> Arenas[a].base + i - 1]]
    /\ free_count = [a \in Arena |-> Arenas[a].size]
    /\ nonfree = {}
    /\ aspace_list = {KERNEL}
    /\ region_list = [as \in Aspace |-> <<>>]
    /\ mmu = [as \in Aspace |-> [v \in VPage |-> NULL]]
    /\ kpages = {}
    /\ call = [t \in Thread |-> Idle]

-----------------------------------------------------------------------------
(***************************************************************************)
(* pmm.c.  Each operation says which pages it takes or gives.              *)
(***************************************************************************)

\* The arenas without the pages, which are now in use.
Taken(pages) ==
    /\ free_list' = [a \in Arena |-> SelectSeq(free_list[a], LAMBDA p : p \notin ToSet(pages))]
    /\ free_count' = [a \in Arena |-> free_count[a] - Cardinality(ToSet(pages) \cap PagesOf(a))]
    /\ nonfree' = nonfree \cup ToSet(pages)

\* pmm_alloc_pages() stops at the first arena that does not have enough.
pmm_alloc_pages(count) ==
    LET n == IF count < Len(free_list[1]) THEN count ELSE Len(free_list[1])
    IN  SubSeq(free_list[1], 1, n)

\* The longest run of at most count free pages from address on, over the arenas in their order.
pmm_alloc_range(address, count) ==
    LET Run(n) == address..address + n - 1
        Ordered(n) == \A p, q \in Run(n) : p < q =>
            \E a, b \in Arena : a <= b /\ p \in PagesOf(a) /\ q \in PagesOf(b)
        runs == {n \in 0..count : Run(n) \subseteq Page \ nonfree /\ Ordered(n)}
        n == CHOOSE m \in runs : \A k \in runs : k <= m
    IN  [i \in 1..n |-> address + i - 1]

\* Where pmm_alloc_contiguous() can put a run: in an arena for the kernel, aligned.
Runs(a, count, align) ==
    {p \in PagesOf(a) : /\ Arenas[a].kmap
                        /\ p % align = 0
                        /\ p..p + count - 1 \subseteq PagesOf(a) \ nonfree}

\* The lowest in the first arena that has one, or none.
pmm_alloc_contiguous(count, align) ==
    LET arenas == {a \in Arena : Runs(a, count, align) # {}}
    IN  IF arenas = {} THEN <<>>
        ELSE LET a == CHOOSE x \in arenas : \A y \in arenas : x <= y
                 p == CHOOSE x \in Runs(a, count, align) : \A y \in Runs(a, count, align) : x <= y
             IN  [i \in 1..count |-> p + i - 1]

pmm_free(pages) ==
    /\ free_list' = [a \in Arena |-> Reverse(SelectSeq(pages, LAMBDA p : p \in PagesOf(a))) \o free_list[a]]
    /\ free_count' = [a \in Arena |-> free_count[a] + Cardinality(ToSet(pages) \cap PagesOf(a))]
    /\ nonfree' = nonfree \ ToSet(pages)

\* pmm_alloc_kpages() and pmm_alloc_range(), whose callers keep the pages.
alloc_kpages(t, pages) ==
    /\ call[t].pc = "idle"
    /\ pages # <<>>
    /\ Taken(pages)
    /\ kpages' = kpages \cup {pages}
    /\ UNCHANGED <<aspace_list, region_list, mmu, call>>

pmm_free_kpages(t) ==
    /\ call[t].pc = "idle"
    /\ \E pages \in kpages : pmm_free(pages) /\ kpages' = kpages \ {pages}
    /\ UNCHANGED <<aspace_list, region_list, mmu, call>>

-----------------------------------------------------------------------------
(***************************************************************************)
(* The regions of an address space.                                        *)
(***************************************************************************)

is_inside_aspace(as, v) == base(as) <= v /\ v <= LastPage(base(as), size(as))

is_region_inside_aspace(as, v, n) ==
    /\ is_inside_aspace(as, v)
    /\ LastPage(v, n) >= v
    /\ LastPage(v, n) <= LastPage(base(as), size(as))

\* What is left of n pages at v when those beyond the address space are cut off.
trim_to_aspace(as, v, n) ==
    IF v - base(as) + n >= size(as) THEN size(as) - (v - base(as)) ELSE n

End(r) == LastPage(r.base, r.size)

\* After how many regions of the list add_region_to_aspace() can put n pages at v.
Between(list, v, n) ==
    {i \in 0..Len(list) : /\ i > 0 => v > End(list[i])
                          /\ i < Len(list) => LastPage(v, n) < list[i + 1].base}

\* The gap after i regions: its first page, and its last.
GapBegin(as, list, i) == IF i = 0 THEN base(as) ELSE Wrap(list[i].base + list[i].size)
GapEnd(as, list, i) == IF i < Len(list) THEN list[i + 1].base - 1 ELSE LastPage(base(as), size(as))

NoGap(as, list, i) ==
    GapBegin(as, list, i) = (IF i < Len(list) THEN list[i + 1].base ELSE Wrap(base(as) + size(as)))

PickSpot(as, list, i, align) == Wrap(RoundUp(GapBegin(as, list, i), align))

\* Mutant of Fits: the room is counted from the start of the gap, not from the aligned spot.
Fits_FromGap(as, list, i, n, align) ==
    /\ PickSpot(as, list, i, align) <= GapEnd(as, list, i)
    /\ GapEnd(as, list, i) - GapBegin(as, list, i) + 1 >= n

Fits(as, list, i, n, align) ==
    /\ PickSpot(as, list, i, align) <= GapEnd(as, list, i)
    /\ GapEnd(as, list, i) - PickSpot(as, list, i, align) + 1 >= n

\* check_gap() ends the search at the gap after i regions without a spot.
Ends(as, list, i, align) ==
    IF NoGap(as, list, i) THEN i = Len(list)
    ELSE PickSpot(as, list, i, align) < GapBegin(as, list, i)

\* After which region alloc_spot() finds room, or NULL.
alloc_spot(as, list, n, align) ==
    LET stops == {i \in 0..Len(list) : \/ Ends(as, list, i, align)
                                       \/ ~NoGap(as, list, i) /\ Fits(as, list, i, n, align)}
        first == CHOOSE i \in stops : \A j \in stops : i <= j
    IN  IF stops = {} \/ Ends(as, list, first, align) THEN NULL ELSE first

\* Where alloc_region() puts n pages: the index after which, and the address;
\* none where they do not fit.
Places(as, v, n, align) ==
    LET list == region_list[as]
    IN  IF v # NULL
        THEN {<<i, v>> : i \in {j \in Between(list, v, n) : is_region_inside_aspace(as, v, n)}}
        ELSE LET i == alloc_spot(as, list, n, align)
             IN  IF i = NULL THEN {} ELSE {<<i, PickSpot(as, list, i, align)>>}

\* alloc_region() has succeeded: the region has its pages, and maps what arch_mmu_map() was given.
Mapped(as, place, n, pages, maps) ==
    /\ Len(region_list[as]) < MaxRegions
    /\ region_list' = [region_list EXCEPT ![as] =
            InsertAt(@, place[1] + 1, [base |-> place[2], size |-> n, pages |-> pages, maps |-> maps])]
    /\ mmu' = [mmu EXCEPT ![as] = [v \in VPage |->
            IF v >= place[2] /\ v < place[2] + Len(maps) THEN maps[v - place[2] + 1] ELSE @[v]]]

-----------------------------------------------------------------------------
(***************************************************************************)
(* vmm.c.  A vaddr of NULL: no VMM_FLAG_VALLOC_SPECIFIC.                   *)
(***************************************************************************)

\* vmm_alloc() and vmm_alloc_contiguous() take the pages first.
vmm_alloc(t, as, n, v, align, pages) ==
    /\ call[t].pc = "idle"
    /\ Taken(pages)
    /\ call' = [call EXCEPT ![t] = [pc |-> IF Len(pages) < n THEN "free" ELSE "region",
                                    as |-> as, vaddr |-> v, size |-> n, align |-> align,
                                    lists |-> <<pages>>]]
    /\ UNCHANGED <<aspace_list, region_list, mmu, kpages>>

\* Under vmm_lock.  calloc() may fail.
vmm_alloc_region(t) ==
    LET c == call[t]
        pages == c.lists[1]
    IN  /\ c.pc = "region"
        /\ \/ \E place \in Places(c.as, c.vaddr, c.size, c.align) :
                /\ Mapped(c.as, place, c.size, pages, pages)
                /\ call' = [call EXCEPT ![t] = Idle]
           \/ call' = [call EXCEPT ![t].pc = "free"] /\ UNCHANGED <<region_list, mmu>>
        /\ UNCHANGED <<pmmVars, aspace_list, kpages>>

vmm_reserve_space(t, as, v, n) ==
    /\ call[t].pc = "idle"
    /\ is_inside_aspace(as, v)
    /\ \E place \in Places(as, v, trim_to_aspace(as, v, n), 1) :
            Mapped(as, place, trim_to_aspace(as, v, n), <<>>, <<>>)
    /\ UNCHANGED <<pmmVars, aspace_list, kpages, call>>

vmm_alloc_physical(t, as, v, n, align, paddr) ==
    /\ call[t].pc = "idle"
    /\ \E place \in Places(as, v, n, align) : Mapped(as, place, n, <<>>, [i \in 1..n |-> paddr + i - 1])
    /\ UNCHANGED <<pmmVars, aspace_list, kpages, call>>

\* The address space without its regions at the indexes is, which are unmapped.
Unmapped(as, is) ==
    LET list == region_list[as]
    IN  /\ region_list' = [region_list EXCEPT ![as] =
                [k \in 1..Len(list) - Cardinality(is) |->
                    list[CHOOSE j \in DOMAIN list \ is : Cardinality((1..j) \ is) = k]]]
        /\ mmu' = [mmu EXCEPT ![as] = [v \in VPage |->
                IF \E i \in is : v >= list[i].base /\ v <= End(list[i]) THEN NULL ELSE @[v]]]

vmm_find_region(as, v) ==
    {i \in DOMAIN region_list[as] : v >= region_list[as][i].base /\ v <= End(region_list[as][i])}

vmm_free_region(t, as, v) ==
    /\ call[t].pc = "idle"
    /\ \E i \in vmm_find_region(as, v) :
        /\ Unmapped(as, {i})
        /\ call' = [call EXCEPT ![t] = [Idle EXCEPT !.pc = "free", !.lists = <<region_list[as][i].pages>>]]
    /\ UNCHANGED <<pmmVars, aspace_list, kpages>>

\* The pages are given back with vmm_lock released, one list after another.
vmm_free_pages(t) ==
    /\ call[t].pc = "free"
    /\ IF call[t].lists = <<>>
       THEN call' = [call EXCEPT ![t] = Idle] /\ UNCHANGED pmmVars
       ELSE /\ pmm_free(Head(call[t].lists))
            /\ call' = [call EXCEPT ![t] = IF Len(@.lists) = 1 THEN Idle ELSE [@ EXCEPT !.lists = Tail(@)]]
    /\ UNCHANGED <<aspace_list, region_list, mmu, kpages>>

vmm_create_aspace(t, as) ==
    /\ call[t].pc = "idle"
    /\ as \notin aspace_list
    /\ aspace_list' = aspace_list \cup {as}
    /\ UNCHANGED <<pmmVars, region_list, mmu, kpages, call>>

\* Callers free an address space that nobody else is in the middle of using.
vmm_free_aspace(t, as) ==
    /\ call[t].pc = "idle"
    /\ as \in aspace_list \ {KERNEL}
    /\ \A u \in Thread : call[u].as # as
    /\ aspace_list' = aspace_list \ {as}
    /\ Unmapped(as, DOMAIN region_list[as])
    /\ call' = [call EXCEPT ![t] = [Idle EXCEPT !.pc = "free",
                                        !.lists = [i \in DOMAIN region_list[as] |-> region_list[as][i].pages]]]
    /\ UNCHANGED <<pmmVars, kpages>>

Next ==
    \E t \in Thread :
        \/ \E n \in Sizes, align \in Alignments : alloc_kpages(t, pmm_alloc_contiguous(n, align))
        \/ \E n \in Sizes, p \in Page : alloc_kpages(t, pmm_alloc_range(p, n))
        \/ pmm_free_kpages(t)
        \/ \E as \in aspace_list, n \in Sizes, align \in Alignments, v \in {NULL} \cup Spots :
            \/ vmm_alloc(t, as, n, v, align, pmm_alloc_pages(n))
            \/ vmm_alloc(t, as, n, v, align, pmm_alloc_contiguous(n, align))
            \/ vmm_alloc_physical(t, as, v, n, align, Device)
        \/ vmm_alloc_region(t) \/ vmm_free_pages(t)
        \/ \E as \in aspace_list, v \in VPage : vmm_free_region(t, as, v)
        \/ \E as \in aspace_list, v \in Spots, n \in Sizes : vmm_reserve_space(t, as, v, n)
        \/ \E as \in User : vmm_create_aspace(t, as) \/ vmm_free_aspace(t, as)

Spec == Init /\ [][Next]_vars

-----------------------------------------------------------------------------

(***************************************************************************)
(* Every page has one place: the free list of its arena, if it has no      *)
(* VM_PAGE_FLAG_NONFREE, or one list of a region, of a call or of a caller *)
(* of pmm.c; and free_count counts the free ones.                          *)
(***************************************************************************)
PagesOnce ==
    LET Sum(S, Op(_)) == Cardinality(UNION {{<<x, i>> : i \in 1..Op(x)} : x \in S})
        regions == {<<as, i>> \in Aspace \X (1..MaxRegions) : i \in DOMAIN region_list[as]}
        calls == {<<t, i>> \in Thread \X (1..MaxRegions) : i \in DOMAIN call[t].lists}
        InRegions == UNION {ToSet(region_list[x[1]][x[2]].pages) : x \in regions}
        InCalls == UNION {ToSet(call[x[1]].lists[x[2]]) : x \in calls}
    IN  /\ \A a \in Arena : ToSet(free_list[a]) = PagesOf(a) \ nonfree
                            /\ Len(free_list[a]) = Cardinality(PagesOf(a) \ nonfree)
                            /\ free_count[a] = Len(free_list[a])
        /\ nonfree = UNION {ToSet(k) : k \in kpages} \cup InRegions \cup InCalls
        /\ Cardinality(nonfree) = Sum(kpages, Len) + Sum(regions, LAMBDA x : Len(region_list[x[1]][x[2]].pages))
                                  + Sum(calls, LAMBDA x : Len(call[x[1]].lists[x[2]]))

(***************************************************************************)
(* The regions of an address space are in it, in order and apart, up to    *)
(* the last page before addresses wrap; and what is mapped is what its     *)
(* regions map, so that no page is mapped once vmm_free_region() or        *)
(* vmm_free_aspace() gives it back.                                        *)
(***************************************************************************)
RegionsApart ==
    \A as \in Aspace :
        LET list == region_list[as]
            Of(v) == {i \in DOMAIN list : v >= list[i].base /\ v <= End(list[i])}
        IN  /\ \A i \in DOMAIN list : /\ is_region_inside_aspace(as, list[i].base, list[i].size)
                                      /\ i < Len(list) => End(list[i]) < list[i + 1].base
            /\ \A v \in VPage : mmu[as][v] =
                    IF \E i \in Of(v) : v - list[i].base < Len(list[i].maps)
                    THEN LET r == list[CHOOSE i \in Of(v) : TRUE] IN r.maps[v - r.base + 1]
                    ELSE NULL

(***************************************************************************)
(* pmm_alloc_pages(): "walk the arenas in order, allocating as many pages  *)
(* as we can from each".                                                   *)
(***************************************************************************)
ArenasWalked ==
    \A n \in Sizes : Len(pmm_alloc_pages(n)) < n => Len(pmm_alloc_pages(n)) = Cardinality(Page \ nonfree)
==============================================================================
