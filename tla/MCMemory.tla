------------------------------- MODULE MCMemory -------------------------------
(***************************************************************************)
(* The allocators of memory: the pages and address spaces of kernel/vm,    *)
(* the page arenas of kernel/novm and the heap, one in each behaviour:     *)
(* `part' tells which.  The first have the variables of module Vm.  A      *)
(* variable a behaviour has no use for is NULL.                            *)
(***************************************************************************)
EXTENDS Vm, TLC

VARIABLES
    part,
    arena, owners, stray,                               \* of Novm
    remaining, range, pages, first, allocs, th          \* of Miniheap, with free_list

vmOnly == <<free_count, nonfree, aspace_list, region_list, mmu, kpages, call>>
novmVars == <<arena, owners, stray>>
heapOnly == <<remaining, range, pages, first, allocs, th>>
all == <<part, vars, novmVars, heapOnly>>

\* Two arenas, of which the kernel maps the first; the upper half of the address
\* space is the kernel's, and two pages of the lower half are a user's.
TwoArenas == <<[base |-> 2, size |-> 2, kmap |-> TRUE], [base |-> 4, size |-> 1, kmap |-> FALSE]>>
UpperHalf == <<4, 4>>
TwoPages == <<1, 2>>

\* Every range of up to nine pages of four bytes, one to three of which go to
\* the map.  Allocations are explored in one of them, which has four pages, and
\* in the arena of three pages that is added.
AllRanges == {r \in (0..3) \X (8..36) : ((r[1] + 3) \div 4) * 4 + 4 <= r[1] + r[2]}

N == INSTANCE Novm WITH
    Owner <- Thread, NOVM_MAX_ARENAS <- 2, PAGE_SIZE <- 4, MINIMUM_USEFUL_UNALIGNED_SIZE <- 2,
    Ranges <- AllRanges, Busy <- {<<2, 18>>}

\* Two pages of eight words.  The heap begins with half a page before them, or with the second.
H == INSTANCE Miniheap WITH
    PAGE_SIZE <- 8, Page <- {1, 2}, First <- {<<4, 4>>, <<16, 8>>},
    Sizes <- {0, 9}, Alignments <- {0, 4}, MaxAllocs <- 3

NoVm ==
    /\ free_count = NULL /\ nonfree = NULL /\ aspace_list = NULL
    /\ region_list = NULL /\ mmu = NULL /\ kpages = NULL /\ call = NULL
NoNovm == arena = NULL /\ owners = NULL /\ stray = NULL
NoHeap == remaining = NULL /\ range = NULL /\ pages = NULL /\ first = NULL /\ allocs = NULL /\ th = NULL

MemoryInit ==
    \/ part = "vm" /\ Init /\ NoNovm /\ NoHeap
    \/ part = "novm" /\ N!Init /\ NoVm /\ NoHeap /\ free_list = NULL
    \/ part = "heap" /\ H!Init /\ NoVm /\ NoNovm

\* The steps of each part, which leave the others alone.
MemoryNext ==
    \/ part = "vm" /\ Next /\ UNCHANGED <<part, novmVars, heapOnly>>
    \/ part = "novm" /\ N!Next /\ UNCHANGED <<part, vars, heapOnly>>
    \/ part = "heap" /\ H!Next /\ UNCHANGED <<part, vmOnly, novmVars>>

MemorySpec == MemoryInit /\ [][MemoryNext]_all

\* Interchangeable threads.
MemorySymmetry == Permutations(Thread)

-----------------------------------------------------------------------------

(***************************************************************************)
(* kernel/vm: a page of pmm.c is free, held by one caller or mapped by     *)
(* regions of vmm.c, which do not overlap, lie in their address space and  *)
(* are what the mmu maps, whatever threads allocate and free meanwhile.    *)
(***************************************************************************)
VmSound == part = "vm" => PagesOnce /\ RegionsApart

(***************************************************************************)
(* kernel/novm/novm.c: the map and the pages of an arena lie inside the    *)
(* memory it was given and do not overlap, wherever that starts and ends;  *)
(* a page is given to one caller at a time, and a call gets the first run  *)
(* of free pages that is long enough.  lib/heap/miniheap/miniheap.c: free  *)
(* and allocated chunks are exactly the memory of the heap, however        *)
(* threads allocate, free, grow and trim.                                  *)
(***************************************************************************)
ArenasSound ==
    /\ part = "novm" => N!LayoutSound /\ N!PagesOwnedOnce /\ N!FirstFit
    /\ part = "heap" => H!HeapTiled
==============================================================================
