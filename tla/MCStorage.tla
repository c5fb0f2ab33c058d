------------------------------- MODULE MCStorage -------------------------------
(***************************************************************************)
(* Block devices and what lies on them: the devices and their partitions,  *)
(* the file systems mounted on them, transfers of bytes to whole blocks,   *)
(* the block cache, the paths of files and the files of spifs, one in each *)
(* behaviour: `part' tells which.  A variable a behaviour has no use for   *)
(* is NULL.                                                                *)
(***************************************************************************)
EXTENDS Integers

CONSTANTS
    Thread, Publisher, DISK, Sub, Partition,    \* of the devices
    FsMount,                                    \* of the file systems
    Block, Num,                                 \* of the cache
    NULL

VARIABLES
    part,
    list, bdev, closed, opened, todo, leaked,           \* of Bio
    mounts, mnt, mount_lock, files, raced,              \* of Fs, with those of Bio
    disk, call, calls, expected,                        \* of Deblock
    path, pos, outpos, state, done, input, rounds,      \* of Path
    free_list, lru_list, blocknum, ref_count, is_dirty,
    ptr, latest, unmarked, fault,                       \* of Bcache, with disk
    toc, data, fs, op, dir, want, failed                \* of Spifs

bioVars == <<list, bdev, closed, opened, todo, leaked>>
fsOnly == <<mounts, mnt, mount_lock, files, raced>>
diskOnly == <<disk>>
callVars == <<call, calls, expected>>
pathVars == <<path, pos, outpos, state, done, input, rounds>>
cacheOnly == <<free_list, lru_list, blocknum, ref_count, is_dirty, ptr, latest, unmarked, fault>>
spifsVars == <<toc, data, fs, op, dir, want, failed>>
all == <<part, bioVars, fsOnly, diskOnly, callVars, pathVars, cacheOnly, spifsVars>>

\* Three threads open and close devices while one of them publishes the
\* partitions and takes the disk away.
B == INSTANCE Bio WITH Client <- Thread, MaxLeaks <- 1

\* Two of them mount the partition or a file system without a device, at two paths.
Pair == Publisher \cup {CHOOSE t \in Thread : t \notin Publisher}
OneSub == {CHOOSE s \in Sub : TRUE}
Paths == {"a", "a/b"}
Prefixes == {<<"a/b", "a">>}
F == INSTANCE Fs WITH
    Thread <- Pair, Sub <- OneSub, Client <- {}, MaxLeaks <- 1, Path <- Paths, Within <- Prefixes,
    Mount <- FsMount, FsDevice <- Partition, Unmounts <- "once"

\* Four blocks of two bytes, of which the sub-device has the two in the middle.
SomeOffsets == {-1, 0, 3, 4, 7}
SomeLens == {0, 1, 5}
D == INSTANCE Deblock WITH
    Thread <- Pair, BlockSize <- 2, BlockCount <- 4, SubStart <- 1, SubCount <- 2,
    Offsets <- SomeOffsets, Lens <- SomeLens, MaxCalls <- 2, SharedBlocks <- FALSE

P == INSTANCE Path WITH Letter <- {"a"}, MaxLen <- 7

C == INSTANCE Bcache WITH Value <- {0, 1}, MaxRef <- 2

\* Three pages of two units for files, and tables of two pages that have room for four.
S == INSTANCE Spifs WITH
    Name <- {"a", "b"}, DATA_PAGES <- 3, toc_pages <- 2, ENTRIES <- 3, U <- 2,
    Lens <- {1, 3}, Offsets <- {1}, Stamps <- {1}, Faults <- FALSE, MaxGeneration <- 5

\* The same on a device that reports errors.
E == INSTANCE Spifs WITH
    Name <- {"a", "b"}, DATA_PAGES <- 3, toc_pages <- 2, ENTRIES <- 3, U <- 2,
    Lens <- {3}, Offsets <- {1}, Stamps <- {1}, Faults <- TRUE, MaxGeneration <- 5

NoBio == list = NULL /\ bdev = NULL /\ closed = NULL /\ opened = NULL /\ todo = NULL /\ leaked = NULL
NoFs == mounts = NULL /\ mnt = NULL /\ mount_lock = NULL /\ files = NULL /\ raced = NULL
NoCall == call = NULL /\ calls = NULL /\ expected = NULL
NoPath ==
    /\ path = NULL /\ pos = NULL /\ outpos = NULL /\ state = NULL
    /\ done = NULL /\ input = NULL /\ rounds = NULL
NoCache ==
    /\ free_list = NULL /\ lru_list = NULL /\ blocknum = NULL /\ ref_count = NULL /\ is_dirty = NULL
    /\ ptr = NULL /\ latest = NULL /\ unmarked = NULL /\ fault = NULL
NoSpifs ==
    /\ toc = NULL /\ data = NULL /\ fs = NULL /\ op = NULL
    /\ dir = NULL /\ want = NULL /\ failed = NULL

StorageInit ==
    \/ part = "bio" /\ B!Init /\ NoFs /\ disk = NULL /\ NoCall /\ NoPath /\ NoCache /\ NoSpifs
    \/ part = "fs" /\ F!FsInit /\ disk = NULL /\ NoCall /\ NoPath /\ NoCache /\ NoSpifs
    \/ part = "deblock" /\ D!Init /\ NoBio /\ NoFs /\ NoPath /\ NoCache /\ NoSpifs
    \/ part = "path" /\ P!Init /\ NoBio /\ NoFs /\ disk = NULL /\ NoCall /\ NoCache /\ NoSpifs
    \/ part = "cache" /\ C!Init /\ NoBio /\ NoFs /\ NoCall /\ NoPath /\ NoSpifs
    \/ part = "spifs" /\ S!Init /\ NoBio /\ NoFs /\ disk = NULL /\ NoCall /\ NoPath /\ NoCache
    \/ part = "spifs errors" /\ E!Init /\ NoBio /\ NoFs /\ disk = NULL /\ NoCall /\ NoPath /\ NoCache

\* The steps of each part, which leave the others alone.
StorageNext ==
    \/ part = "bio" /\ B!Next /\ UNCHANGED <<part, fsOnly, diskOnly, callVars, pathVars, cacheOnly, spifsVars>>
    \/ part = "fs" /\ F!FsNext /\ UNCHANGED <<part, diskOnly, callVars, pathVars, cacheOnly, spifsVars>>
    \/ part = "deblock" /\ D!Next /\ UNCHANGED <<part, bioVars, fsOnly, pathVars, cacheOnly, spifsVars>>
    \/ part = "path" /\ P!Next /\ UNCHANGED <<part, bioVars, fsOnly, diskOnly, callVars, cacheOnly, spifsVars>>
    \/ part = "cache" /\ C!Next /\ UNCHANGED <<part, bioVars, fsOnly, callVars, pathVars, spifsVars>>
    \/ /\ (part = "spifs" /\ S!Next) \/ (part = "spifs errors" /\ E!Next)
       /\ UNCHANGED <<part, bioVars, fsOnly, diskOnly, callVars, pathVars, cacheOnly>>

StorageSpec == StorageInit /\ [][StorageNext]_all

-----------------------------------------------------------------------------

(***************************************************************************)
(* lib/bio and lib/partition: the reference count of a device counts those *)
(* who use it, the mounts of lib/fs/fs.c included, so that it is closed    *)
(* once, with the last of them, and is then in no list; and so is a mount  *)
(* of lib/fs/fs.c, for the files open in it and the calls that use it.     *)
(***************************************************************************)
ReferencesCounted ==
    /\ part = "bio" => B!DevicesCounted
    /\ part = "fs" => F!MountedDevicesCounted /\ F!MountsCounted

(***************************************************************************)
(* lib/bio/bio.c and lib/bio/subdev.c: reads, writes and erasures transfer *)
(* the bytes that were asked for and no others, and of a write that fails  *)
(* a first part.                                                           *)
(***************************************************************************)
TransfersExact == part = "deblock" => D!TransfersExact

(***************************************************************************)
(* A path and a directory lead to the files that are there.                *)
(* fs_normalize_path() of lib/fs/fs.c ends, stays behind its own reading   *)
(* position and finds the fields the path leads through; spifs_readdir()   *)
(* of lib/fs/spifs/spifs.c returns every file that is in the directory     *)
(* from spifs_opendir() on, whatever is created and removed meanwhile.     *)
(***************************************************************************)
NamesFound ==
    /\ part = "path" => P!PathResolved
    /\ part = "spifs" => S!DirectoryRead
    /\ part = "spifs errors" => E!DirectoryRead

(***************************************************************************)
(* lib/bcache/bcache.c: what was put into a block and marked dirty is in   *)
(* the cache or on the device, whatever is evicted and flushed meanwhile.  *)
(***************************************************************************)
NoUpdateLost == part = "cache" => C!NoUpdateLost

(***************************************************************************)
(* lib/fs/spifs/spifs.c: whenever the power fails a mount finds the        *)
(* directory there was before the operation under way or the one it was to *)
(* make, and files have what was written to them, also after errors of the *)
(* device in operations on others.                                         *)
(***************************************************************************)
FilesKept ==
    /\ part = "spifs" => S!DirectoryFound /\ S!ContentsKept
    /\ part = "spifs errors" => E!DirectoryFound /\ E!ContentsKept
==============================================================================
