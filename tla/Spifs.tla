-------------------------------- MODULE Spifs --------------------------------
(***************************************************************************)
(* lib/fs/spifs/spifs.c: files that are runs of pages of a flash device,   *)
(* and two tables of contents, at its front and at its back, of which the  *)
(* older one is written whenever the directory changes.  The power fails   *)
(* between two pages and while a page is erased and written.               *)
(*                                                                         *)
(* spifs->lock makes an operation atomic for other threads: what happens   *)
(* between its pages is what the power and the device do.  A page holds U  *)
(* units of data.  A checksum tells any two tables apart.                  *)
(***************************************************************************)
EXTENDS Integers, Sequences, SequencesExt, FiniteSets, FiniteSetsExt

CONSTANTS
    Name, NULL,
    DATA_PAGES,         \* the pages between the two tables
    toc_pages,          \* the pages of a table
    ENTRIES,            \* page_size / SPIFS_ENTRY_LENGTH
    U,                  \* the units in a page
    Lens, Offsets,      \* that callers use, in units
    Stamps,             \* what callers write
    Faults,             \* whether the device reports errors
    MaxGeneration       \* bound

VARIABLES
    toc,                \* the pages of each table on the device; NULL where it cannot be read
    data,               \* the units in the pages of files; 0 where a page was erased
    fs,                 \* spifs_t: generation, toc_position and files; NULL when not mounted
    op,                 \* the operation that is under way, or NULL
    dir,                \* a dircookie, or NULL
    want,               \* history: what callers have written to each file, or NULL
    failed              \* history: the files with an operation that failed since the mount

vars == <<toc, data, fs, op, dir, want, failed>>

FRONT_TOC == "front"
BACK_TOC == "back"

page_count == DATA_PAGES + 2 * toc_pages
DataPage == toc_pages..toc_pages + DATA_PAGES - 1
num_entries == toc_pages * ENTRIES - 2      \* without header and footer

MinOf(x, y) == IF x < y THEN x ELSE y
RoundUp(x) == ((x + U - 1) \div U) * U

-----------------------------------------------------------------------------
(***************************************************************************)
(* The tables of contents.                                                 *)
(***************************************************************************)

\* The entries in the k-th page of a table: the header is in the first.
Chunk(files, k) ==
    LET from == IF k = 1 THEN 1 ELSE (k - 1) * ENTRIES
        to == MinOf(k * ENTRIES - 1, num_entries)
    IN  [i \in from..to |-> IF i <= Len(files) THEN files[i] ELSE NULL]

\* The header is in the first page, the checksum in the last.
TocPage(generation, files, k) ==
    [generation |-> IF k = 1 THEN generation ELSE 0,
     entries |-> Chunk(files, k),
     checksum |-> IF k = toc_pages THEN <<generation, files>> ELSE <<>>]

\* What is written where.
TocWrite(pos, generation, files, k) == [pos |-> pos, page |-> k, value |-> TocPage(generation, files, k)]
DataWrite(page, units) == [pos |-> "data", page |-> page, value |-> units]

\* Mutant of target_toc: the table that was written last is written again.
target_toc_Same(f) == f.toc_position

target_toc(f) == IF f.toc_position = FRONT_TOC THEN BACK_TOC ELSE FRONT_TOC

\* The pages that spifs_commit_toc() writes.
spifs_commit_toc(f) == [k \in 1..toc_pages |-> TocWrite(target_toc(f), f.generation + 1, f.files, k)]

\* And what it leaves in memory once they are written.
Committed(f) == [f EXCEPT !.generation = @ + 1, !.toc_position = target_toc(f)]

\* The files of a table that can be read to its end; the checksum covers
\* the header and the entries.
FilesOf(pages) == pages[toc_pages].checksum[2]

Intact(pages) ==
    /\ \A k \in 1..toc_pages : pages[k] # NULL
    /\ pages[toc_pages].checksum # <<>>
    /\ pages[1].generation = pages[toc_pages].checksum[1]
    /\ \A k \in 1..toc_pages : pages[k].entries = Chunk(FilesOf(pages), k)

\* 0 is CORRUPT_TOC.
get_toc_generation(pages) == IF Intact(pages) THEN pages[1].generation ELSE 0

\* What spifs_mount() finds, or NULL where both tables are corrupt.
Mount(t) ==
    LET f == get_toc_generation(t[FRONT_TOC])
        b == get_toc_generation(t[BACK_TOC])
        pos == IF f > b THEN FRONT_TOC ELSE BACK_TOC
    IN  IF f = 0 /\ b = 0 THEN NULL
        ELSE [generation |-> IF f > b THEN f ELSE b, toc_position |-> pos, files |-> FilesOf(t[pos])]

consistency_check(files) ==
    \A i \in 1..Len(files) - 1 : files[i + 1].page_idx > files[i].page_idx + (files[i].capacity \div U) - 1

-----------------------------------------------------------------------------
(***************************************************************************)
(* Files.                                                                  *)
(***************************************************************************)

File(name, page_idx, length, capacity) ==
    [name |-> name, page_idx |-> page_idx, length |-> length, capacity |-> capacity]

FrontToc == File(FRONT_TOC, 0, toc_pages * U, toc_pages * U)
BackToc == File(BACK_TOC, page_count - toc_pages, toc_pages * U, toc_pages * U)

\* The index of a file in the list, the tables not being files; or none.
find_file(files, name) == {i \in 2..Len(files) - 1 : files[i].name = name}

End(file) == file.page_idx + file.capacity \div U

\* The first page of the first gap that has room; 0 is NO_OPEN_RUNS.
find_open_run(files, requested) ==
    LET gaps == {i \in 1..Len(files) - 1 : (files[i + 1].page_idx - End(files[i])) * U >= requested}
    IN  IF gaps = {} THEN 0 ELSE End(files[Min(gaps)])

spifs_add_ascending(files, file) ==
    LET later == {i \in DOMAIN files : files[i].page_idx > file.page_idx}
    IN  IF later = {} THEN Append(files, file) ELSE InsertAt(files, Min(later), file)

\* The unit of the device at a distance from the start of a file.
Unit(file, i) == data[file.page_idx + i \div U][i % U]

Content(file) == [i \in 0..file.length - 1 |-> Unit(file, i)]

\* The parts of pages that spifs_write() goes through: the page, the first unit, how many.
Parts(start, len) ==
    LET lead == IF start % U = 0 THEN 0 ELSE MinOf(len, RoundUp(start) - start)
        id == (start \div U) + (IF lead > 0 THEN 1 ELSE 0)
        full == (len - lead) \div U
        rest == (len - lead) % U
    IN  (IF lead > 0 THEN <<<<id - 1, start % U, lead>>>> ELSE <<>>)
        \o [i \in 1..full |-> <<id + i - 1, 0, U>>]
        \o (IF rest > 0 THEN <<<<id + full, 0, rest>>>> ELSE <<>>)

\* A page read, modified and written; a whole one is not read.
Modified(part, stamp) ==
    DataWrite(part[1], [i \in 0..U - 1 |->
        IF i >= part[2] /\ i < part[2] + part[3] THEN stamp ELSE data[part[1]][i]])

Erased == [i \in 0..U - 1 |-> 0]

-----------------------------------------------------------------------------
(***************************************************************************)
(* The operations.  Each says what it writes, what is in memory after the  *)
(* last page and after an error, and what the caller may then expect.      *)
(***************************************************************************)

\* What spifs_format() leaves, mounted.
Init ==
    LET files == <<FrontToc, BackToc>>
        Table(generation) == [k \in 1..toc_pages |-> TocPage(generation, files, k)]
    IN  /\ toc = [pos \in {FRONT_TOC, BACK_TOC} |-> Table(IF pos = FRONT_TOC THEN 3 ELSE 2)]
        /\ data = [p \in DataPage |-> Erased]
        /\ fs = [generation |-> 3, toc_position |-> FRONT_TOC, files |-> files]
        /\ op = NULL
        /\ dir = NULL
        /\ want = [n \in Name |-> NULL]
        /\ failed = {}

Begin(name, writes, done, undone, expect) ==
    /\ fs.generation < MaxGeneration
    /\ op' = [name |-> name, writes |-> writes, done |-> done, undone |-> undone, want |-> expect]
    /\ UNCHANGED <<toc, data, want, failed>>

spifs_create(name, len) ==
    LET capacity == IF len = 0 THEN U ELSE RoundUp(len)
        run == find_open_run(fs.files, capacity)
        file == File(name, run, len, capacity)
        f == [fs EXCEPT !.files = spifs_add_ascending(@, file)]
    IN  /\ find_file(fs.files, name) = {}
        /\ Len(fs.files) < num_entries
        /\ run # 0
        /\ Begin(name,
                 [i \in 1..capacity \div U |-> DataWrite(run + i - 1, Erased)] \o spifs_commit_toc(f),
                 Committed(f), fs, [i \in 0..len - 1 |-> 0])
        /\ UNCHANGED <<fs, dir>>

\* Where a dircookie is once the i-th file is gone.
next_file(i) == IF dir.next = fs.files[i].name THEN fs.files[i + 1].name ELSE dir.next

spifs_remove(name) ==
    \E i \in find_file(fs.files, name) :
        LET f == [fs EXCEPT !.files = RemoveAt(@, i)]
        IN  /\ Begin(name, spifs_commit_toc(f), Committed(f), f, NULL)
            /\ fs' = f
            /\ dir' = IF dir = NULL THEN NULL
                      ELSE [next |-> next_file(i), seen |-> dir.seen, all |-> dir.all \ {name}]

spifs_write(name, off, len, stamp) ==
    \E i \in find_file(fs.files, name) :
        LET file == fs.files[i]
            grows == off + len > file.length
            f == [fs EXCEPT !.files[i].length = IF grows THEN off + len ELSE @]
            parts == Parts(file.page_idx * U + off, len)
            pages == [k \in DOMAIN parts |-> Modified(parts[k], stamp)]
        IN  /\ off + len <= file.capacity
            /\ Begin(name, IF grows THEN pages \o spifs_commit_toc(f) ELSE pages,
                     IF grows THEN Committed(f) ELSE f, f,
                     [k \in 0..f.files[i].length - 1 |->
                        IF k >= off /\ k < off + len THEN stamp ELSE Unit(file, k)])
            /\ fs' = f
            /\ UNCHANGED dir

spifs_truncate(name, len) ==
    \E i \in find_file(fs.files, name) :
        LET f == [fs EXCEPT !.files[i].length = len]
        IN  /\ len <= fs.files[i].length
            /\ Begin(name, spifs_commit_toc(f), Committed(f), f, [k \in 0..len - 1 |-> Unit(fs.files[i], k)])
            /\ fs' = f
            /\ UNCHANGED dir

\* The device with a page written.
Wrote(w) ==
    IF w.pos = "data"
    THEN data' = [data EXCEPT ![w.page] = w.value] /\ UNCHANGED toc
    ELSE toc' = [toc EXCEPT ![w.pos][w.page] = w.value] /\ UNCHANGED data

\* The device with a page that was erased and not written.
Torn(w) == Wrote([w EXCEPT !.value = IF w.pos = "data" THEN Erased ELSE NULL])

WritePage ==
    /\ op # NULL
    /\ IF op.writes = <<>>
       THEN /\ fs' = op.done /\ op' = NULL
            /\ want' = [want EXCEPT ![op.name] = op.want]
            /\ UNCHANGED <<toc, data>>
       ELSE Wrote(Head(op.writes)) /\ op' = [op EXCEPT !.writes = Tail(@)] /\ UNCHANGED <<fs, want>>
    /\ UNCHANGED <<dir, failed>>

\* The device reports an error and has not written the page.
WriteFails ==
    /\ Faults
    /\ op # NULL /\ op.writes # <<>>
    /\ Torn(Head(op.writes))
    /\ fs' = op.undone /\ op' = NULL
    /\ want' = [want EXCEPT ![op.name] = NULL]
    /\ failed' = failed \cup {op.name}
    /\ UNCHANGED dir

\* The power fails, before a page is written or while it is.
PowerFails ==
    /\ fs # NULL
    /\ \/ UNCHANGED <<toc, data>>
       \/ op # NULL /\ op.writes # <<>> /\ Torn(Head(op.writes))
    /\ fs' = NULL /\ op' = NULL /\ dir' = NULL
    /\ want' = IF op = NULL THEN want ELSE [want EXCEPT ![op.name] = NULL]
    /\ UNCHANGED failed

spifs_mount ==
    /\ fs = NULL
    /\ Mount(toc) # NULL
    /\ consistency_check(Mount(toc).files)
    /\ fs' = Mount(toc)
    /\ want' = [n \in Name |-> IF find_file(Mount(toc).files, n) = {} THEN NULL
                               ELSE Content(Mount(toc).files[Min(find_file(Mount(toc).files, n))])]
    /\ failed' = {}
    /\ UNCHANGED <<toc, data, op, dir>>

-----------------------------------------------------------------------------
(***************************************************************************)
(* Reading the directory.                                                  *)
(***************************************************************************)

Idle == fs # NULL /\ op = NULL

Listed(files) == {files[i].name : i \in 2..Len(files) - 1}

spifs_opendir ==
    /\ Idle /\ dir = NULL
    /\ dir' = [next |-> fs.files[2].name, seen |-> {}, all |-> Listed(fs.files)]
    /\ UNCHANGED <<toc, data, fs, op, want, failed>>

spifs_readdir ==
    /\ Idle /\ dir # NULL
    /\ dir.next # BACK_TOC
    /\ \E i \in find_file(fs.files, dir.next) :
        dir' = [dir EXCEPT !.next = fs.files[i + 1].name, !.seen = @ \cup {dir.next}]
    /\ UNCHANGED <<toc, data, fs, op, want, failed>>

spifs_closedir ==
    /\ Idle /\ dir # NULL
    /\ dir' = NULL
    /\ UNCHANGED <<toc, data, fs, op, want, failed>>

Next ==
    \/ /\ Idle
       /\ \E name \in Name :
            \/ spifs_remove(name)
            \/ \E len \in Lens \cup {0} : spifs_create(name, len) \/ spifs_truncate(name, len)
            \/ \E off \in Offsets, len \in Lens, stamp \in Stamps : spifs_write(name, off, len, stamp)
    \/ WritePage \/ WriteFails \/ PowerFails \/ spifs_mount
    \/ spifs_opendir \/ spifs_readdir \/ spifs_closedir

Spec == Init /\ [][Next]_vars

-----------------------------------------------------------------------------

\* The two tables as they are, and as they would be if the power failed while the next page is written.
OnPowerFailure ==
    {toc} \cup IF op = NULL \/ op.writes = <<>> \/ Head(op.writes).pos = "data" THEN {}
               ELSE {[toc EXCEPT ![Head(op.writes).pos][Head(op.writes).page] = NULL]}

(***************************************************************************)
(* Whenever the power fails spifs_mount() finds a directory: the one there *)
(* was before the operation under way, or the one it was to make.          *)
(***************************************************************************)
DirectoryFound ==
    \A t \in OnPowerFailure :
        /\ Mount(t) # NULL
        /\ consistency_check(Mount(t).files)
        /\ fs # NULL => Mount(t).generation \in {fs.generation, fs.generation + 1}
        /\ Idle /\ failed = {} => Mount(t) = fs

\* The files have what was written to them, whichever way the power fails.
Kept(names) ==
    \A t \in OnPowerFailure :
        Mount(t) # NULL => \A i \in 2..Len(Mount(t).files) - 1 :
            LET file == Mount(t).files[i]
            IN  file.name \in names /\ want[file.name] # NULL /\ (op = NULL \/ op.name # file.name)
                    => Content(file) = want[file.name]

(***************************************************************************)
(* And every file in it has what was written to it, but for the one that   *)
(* is being written and those with an operation that failed: no page of a  *)
(* file is erased for another one while a table that may be mounted has it.*)
(***************************************************************************)
ContentsKept == Kept(Name \ failed)

(***************************************************************************)
(* spifs_write() returns the size when the data and the length are on the  *)
(* device: also if it is the second attempt, after one that failed.        *)
(***************************************************************************)
RetriesKept == Kept(Name)

(***************************************************************************)
(* spifs_readdir() returns every file that is in the directory from        *)
(* spifs_opendir() on, whatever is created and removed meanwhile.          *)
(***************************************************************************)
DirectoryRead ==
    fs # NULL /\ dir # NULL =>
        \/ dir.next = BACK_TOC /\ dir.all \subseteq dir.seen
        \/ \E i \in find_file(fs.files, dir.next) :
            dir.all \ dir.seen \subseteq {fs.files[j].name : j \in i..Len(fs.files)}
==============================================================================
