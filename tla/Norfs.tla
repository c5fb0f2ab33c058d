-------------------------------- MODULE Norfs --------------------------------
(***************************************************************************)
(* lib/norfs/norfs.c: objects in NOR flash that is written once between    *)
(* two erasures of a block.  An object is put by appending a record with a *)
(* higher version; when the last free block is taken into use, the live    *)
(* records of the next block are copied into it and that block is erased.  *)
(* Power may fail between any two writes; mounting builds the inodes anew  *)
(* from the records.                                                       *)
(*                                                                         *)
(* Addresses and sizes are in words.  A record that a power failure leaves *)
(* incomplete fails its checksum, and nothing is ever written behind it,   *)
(* so it is as if it were not there.                                       *)
(***************************************************************************)
EXTENDS Integers, Sequences, SequencesExt, FiniteSets, FiniteSetsExt

CONSTANTS
    Key, NULL,
    DELETED,        \* what a record with NORFS_DELETED_MASK holds
    Lengths,        \* the lengths in words of the objects that are put
    FLASH_PAGE_SIZE,
    NORFS_NUM_BLOCKS,
    VERSIONS,       \* versions wrap at this even value, 2^16 in the source
    MaxPuts,        \* bound: objects put and removed
    MaxRestarts     \* bound: unmounts and power failures

VARIABLES
    flash,      \* the header and the records of every block
    fs,         \* the variables of norfs.c in RAM
    call,       \* the call in progress and its locals, or NULL
    allowed,    \* history: what a read of each key may return
    status,     \* the last call that ended and what it returned
    hurt,       \* history: what this behaviour has met that norfs.c does not survive
    puts, restarts

vars == <<flash, fs, call, allowed, status, hurt, puts, restarts>>

BLOCK_HEADER_SIZE == 2
OBJ_OFFSET == 3
MIN_FREE_BLOCKS == 1

AVAILABLE_SPACE == (NORFS_NUM_BLOCKS * (FLASH_PAGE_SIZE - BLOCK_HEADER_SIZE)) \div 2
MAX_OBJ_LEN == FLASH_PAGE_SIZE \div 2 - OBJ_OFFSET

Block == 0..NORFS_NUM_BLOCKS - 1

NORFS_FLASH_SIZE(value) == OBJ_OFFSET + (IF value = DELETED THEN 0 ELSE value.len)

VERSION_GREATER_THAN(a, b) == LET d == (a - b) % VERSIONS IN d > 0 /\ d < VERSIONS \div 2

block_num(ptr) == ptr \div FLASH_PAGE_SIZE

curr_block_free_space(ptr) == (block_num(ptr) + 1) * FLASH_PAGE_SIZE - ptr

\* The blocks that find_free_block() may take, from the one after ptr.
find_free_block(ptr) ==
    LET at(j) == (block_num(ptr) + j) % NORFS_NUM_BLOCKS
        found == {j \in 1..NORFS_NUM_BLOCKS : at(j) \in fs.free}
    IN  IF found = {} THEN NULL ELSE at(Min(found))

select_garbage_block(ptr) == (block_num(ptr) + 1) % NORFS_NUM_BLOCKS

Record(loc) == flash[loc.block].records[loc.index]

NotMounted == [mounted |-> FALSE, write_pointer |-> 0, total_remaining_space |-> 0, free |-> {},
               inode |-> [k \in Key |-> NULL]]

Init ==
    /\ flash = [b \in Block |-> [header |-> "erased", records |-> <<>>]]
    /\ fs = NotMounted
    /\ call = NULL
    /\ allowed = [k \in Key |-> {DELETED}]
    /\ status = <<"mount", "NO_ERROR">>
    /\ hurt = {}
    /\ puts = 0 /\ restarts = 0

-----------------------------------------------------------------------------
(***************************************************************************)
(* Mounting: the blocks whose header is not complete are erased, and the   *)
(* inodes are built from the records of the others.                        *)
(***************************************************************************)

\* What read_block_verification() calls a bad state.
BadState(block) == block.header \notin {"TOFU", "TOFU SO UP"}

ErasedBlock == [header |-> "TOFU", records |-> <<>>]

\* Where the records are, in the order in which mounting reads them.
Locations(f) ==
    FlattenSeq([b \in 1..NORFS_NUM_BLOCKS |->
        [i \in DOMAIN f[b - 1].records |-> [block |-> b - 1, index |-> i]]])

\* One record read into the inodes and the remaining space.
mount_next_obj(acc, loc) ==
    LET r == Record(loc)
        inode == acc.inode[r.key]
        newer == VERSION_GREATER_THAN(r.version, Record(inode.location).version)
    IN  IF inode = NULL
        THEN [acc EXCEPT !.inode[r.key] = [location |-> loc, reference_count |-> 1],
                         !.total_remaining_space = @ - NORFS_FLASH_SIZE(r.value)]
        ELSE [acc EXCEPT !.inode[r.key] = [location |-> IF newer THEN loc ELSE inode.location,
                                           reference_count |-> inode.reference_count + 1],
                         !.total_remaining_space =
                            IF newer THEN @ + NORFS_FLASH_SIZE(Record(inode.location).value)
                                            - NORFS_FLASH_SIZE(r.value)
                            ELSE @]

Call(op, pc, key, value) ==
    [op |-> op, pc |-> pc, key |-> key, value |-> value, version |-> 0, initial |-> NULL,
     target |-> NULL, garbage |-> NULL, next |-> 1]

Running(pc) == call # NULL /\ call.pc = pc

\* norfs_mount_fs() of flash that holds f, up to initialize_next_block().  The
\* erasures of bad blocks are part of this step: a bad block that has been
\* erased when power fails is a free block, which mounting takes alike.
\* write_pointer is set to a random place.
Mount(f) ==
    /\ flash' = [b \in Block |-> IF BadState(f[b]) THEN ErasedBlock ELSE f[b]]
    /\ \E random \in Block :
        fs' = [FoldLeft(mount_next_obj, [NotMounted EXCEPT !.total_remaining_space = AVAILABLE_SPACE],
                        Locations(flash'))
                    EXCEPT !.write_pointer = random * FLASH_PAGE_SIZE,
                           !.free = {b \in Block : flash'[b].header = "TOFU"}]
    /\ call' = Call("mount", "initialize", NULL, NULL)

norfs_mount_fs ==
    /\ ~fs.mounted /\ call = NULL
    /\ Mount(flash)
    /\ UNCHANGED <<allowed, status, hurt, puts, restarts>>

-----------------------------------------------------------------------------
(***************************************************************************)
(* initialize_next_block(), which mounting and putting call: a free block  *)
(* is marked as started, garbage is collected into it when it was the last *)
(* one, and it is marked as finished.                                      *)
(***************************************************************************)

initialize_next_block ==
    /\ Running("initialize")
    /\ LET b == find_free_block(fs.write_pointer)
       IN  IF b = NULL
           THEN /\ status' = IF call.op = "next" THEN <<"put", "NO_ERROR">>
                             ELSE <<call.op, IF call.op = "put" THEN "ERR_IO" ELSE "ERR_NO_MEMORY">>
                /\ call' = NULL
                /\ UNCHANGED <<flash, fs>>
           ELSE /\ flash' = [flash EXCEPT ![b].header = "TOFU SO"]
                /\ fs' = [fs EXCEPT !.free = @ \ {b},
                                    !.write_pointer = b * FLASH_PAGE_SIZE + BLOCK_HEADER_SIZE]
                /\ call' = [call EXCEPT !.target = b,
                                        !.garbage = select_garbage_block(fs'.write_pointer),
                                        !.next = 1,
                                        !.pc = IF Cardinality(fs'.free) < MIN_FREE_BLOCKS
                                               THEN "collect" ELSE "finish"]
                /\ UNCHANGED status
    /\ UNCHANGED <<allowed, hurt, puts, restarts>>

\* The file system with r appended at the write pointer and found there.
Appended(f, r) ==
    [f EXCEPT !.write_pointer = @ + NORFS_FLASH_SIZE(r.value),
              !.inode[r.key].location =
                    [block |-> block_num(f.write_pointer), index |-> Len(flash[block_num(f.write_pointer)].records) + 1]]

Append_to_flash(r) == [flash EXCEPT ![block_num(fs.write_pointer)].records = Append(@, r)]

\* Mutant of Forgettable: deletions are never kept.
Forgettable_Always(r, inode) == r.value = DELETED

\* Whether the latest record of an object need not be kept.
Forgettable(r, inode) == r.value = DELETED /\ inode.reference_count = 1

\* A record that is the latest of its key is copied, unless it says that the
\* object is deleted and no other record of that key is left; any other is
\* left behind.  A record whose key has no inode ends the collection unless
\* what follows it looks deleted, as unwritten flash does.
collect_garbage_object ==
    /\ Running("collect")
    /\ call.next <= Len(flash[call.garbage].records)
    /\ LET loc == [block |-> call.garbage, index |-> call.next]
           r == Record(loc)
           inode == fs.inode[r.key]
           on == [call EXCEPT !.next = @ + 1]
           stop == [call EXCEPT !.pc = "erase"]
           copy == [r EXCEPT !.version = (@ + 1) % VERSIONS]
           mine == call.op = "put" /\ call.key = r.key
       IN  \/ /\ inode = NULL
              /\ call' = IF call.next < Len(flash[call.garbage].records)
                            /\ Record([loc EXCEPT !.index = @ + 1]).value # DELETED THEN stop ELSE on
              /\ UNCHANGED <<flash, fs, hurt>>
           \/ /\ inode # NULL /\ inode.location # loc
              /\ fs' = [fs EXCEPT !.inode[r.key].reference_count = @ - 1]
              /\ call' = on
              /\ UNCHANGED <<flash, hurt>>
           \/ /\ inode # NULL /\ inode.location = loc
              /\ Forgettable(r, inode)
              /\ fs' = [fs EXCEPT !.inode[r.key] = NULL, !.total_remaining_space = @ + OBJ_OFFSET]
              /\ call' = on
              /\ hurt' = hurt \cup (IF mine THEN {"inode freed"} ELSE {})
              /\ UNCHANGED flash
           \/ /\ inode # NULL /\ inode.location = loc
              /\ ~Forgettable(r, inode)
              /\ flash' = Append_to_flash(copy)
              /\ fs' = Appended(fs, copy)
              /\ call' = on
              /\ hurt' = hurt \cup (IF mine THEN {"version reused"} ELSE {})
    /\ UNCHANGED <<allowed, status, puts, restarts>>

\* The block has been read: it is erased and given its header.
erase_block ==
    /\ \/ Running("collect") /\ call.next > Len(flash[call.garbage].records)
       \/ Running("erase")
    /\ flash' = [flash EXCEPT ![call.garbage] = [header |-> "erased", records |-> <<>>]]
    /\ call' = [call EXCEPT !.pc = "erased"]
    /\ UNCHANGED <<fs, allowed, status, hurt, puts, restarts>>

erase_block_header ==
    /\ Running("erased")
    /\ flash' = [flash EXCEPT ![call.garbage].header = "TOFU"]
    /\ fs' = [fs EXCEPT !.free = @ \cup {call.garbage}]
    /\ call' = [call EXCEPT !.pc = "finish"]
    /\ UNCHANGED <<allowed, status, hurt, puts, restarts>>

\* What a read of the key k returns.
norfs_read_obj(f, k) == IF f.inode[k] = NULL THEN DELETED ELSE Record(f.inode[k].location).value

\* The block is marked as finished, and the caller goes on: mounting is done,
\* an object that still does not fit is tried again, unless this is the block
\* where it was tried first.
initialize_next_block_finish ==
    /\ Running("finish")
    /\ flash' = [flash EXCEPT ![call.target].header = "TOFU SO UP"]
    /\ \/ /\ call.op = "mount"
          /\ fs' = [fs EXCEPT !.mounted = TRUE]
          /\ allowed' = [k \in Key |-> IF norfs_read_obj(fs, k) \in allowed[k]
                                       THEN {norfs_read_obj(fs, k)} ELSE allowed[k]]
          /\ call' = NULL /\ status' = <<"mount", "NO_ERROR">>
       \/ /\ call.op = "next"
          /\ call' = NULL /\ status' = <<"put", "NO_ERROR">>
          /\ UNCHANGED <<fs, allowed>>
       \/ /\ call.op = "put" /\ block_num(fs.write_pointer) # call.initial
          /\ call' = [call EXCEPT !.pc = "find"]
          /\ UNCHANGED <<fs, allowed, status>>
       \/ /\ call.op = "put" /\ block_num(fs.write_pointer) = call.initial
          /\ call' = NULL /\ status' = <<"put", "ERR_IO">>
          /\ allowed' = [allowed EXCEPT ![call.key] = {norfs_read_obj(fs, call.key)}]
          /\ UNCHANGED fs
    /\ UNCHANGED <<hurt, puts, restarts>>

-----------------------------------------------------------------------------
(***************************************************************************)
(* Putting and removing objects.                                           *)
(***************************************************************************)

\* Mutant of NextVersion: the version read is used again.
NextVersion_Same(key) == IF fs.inode[key] = NULL THEN 0 ELSE Record(fs.inode[key].location).version

NextVersion(key) ==
    IF fs.inode[key] = NULL THEN 0 ELSE (Record(fs.inode[key].location).version + 1) % VERSIONS

\* norfs_put_obj_iovec() up to find_space_for_object(): the inode and the
\* next version are looked up before garbage may be collected.
norfs_put_obj_iovec(key, value) ==
    /\ fs.mounted /\ call = NULL
    /\ puts < MaxPuts
    /\ IF NORFS_FLASH_SIZE(value) > MAX_OBJ_LEN
       THEN status' = <<"put", "ERR_TOO_BIG">> /\ UNCHANGED <<call, allowed, puts>>
       ELSE IF value # DELETED /\ NORFS_FLASH_SIZE(value) > fs.total_remaining_space
       THEN status' = <<"put", "ERR_NO_MEMORY">> /\ UNCHANGED <<call, allowed, puts>>
       ELSE /\ call' = [Call("put", "find", key, value) EXCEPT
                            !.initial = block_num(fs.write_pointer),
                            !.version = NextVersion(key)]
            /\ allowed' = [allowed EXCEPT ![key] = @ \cup {value}]
            /\ puts' = puts + 1
            /\ UNCHANGED status
    /\ UNCHANGED <<flash, fs, hurt, restarts>>

\* An object is told apart from those put before it by what it holds.
norfs_put_obj(key, len) == norfs_put_obj_iovec(key, [len |-> len, id |-> puts % 3])

\* Only an object that is there is removed.
norfs_remove_obj(key) ==
    /\ norfs_read_obj(fs, key) # DELETED
    /\ norfs_put_obj_iovec(key, DELETED)

Fits == curr_block_free_space(fs.write_pointer) >= NORFS_FLASH_SIZE(call.value)

find_space_for_object ==
    /\ Running("find") /\ ~Fits
    /\ call' = [call EXCEPT !.pc = "initialize"]
    /\ UNCHANGED <<flash, fs, allowed, status, hurt, puts, restarts>>

\* A write pointer that has fallen off its block is in the header of the next.
InHeader == fs.write_pointer % FLASH_PAGE_SIZE < BLOCK_HEADER_SIZE

write_obj ==
    /\ Running("find") /\ Fits /\ ~InHeader
    /\ LET inode == fs.inode[call.key]
           r == [key |-> call.key, version |-> call.version, value |-> call.value]
           old == IF inode = NULL THEN 0 ELSE NORFS_FLASH_SIZE(Record(inode.location).value)
           counted == [fs EXCEPT
                !.total_remaining_space = @ + old - NORFS_FLASH_SIZE(r.value),
                !.inode[r.key] = [location |-> NULL,
                                  reference_count |-> IF inode = NULL THEN 1 ELSE inode.reference_count + 1]]
       IN  /\ flash' = Append_to_flash(r)
           /\ fs' = Appended(counted, r)
    /\ allowed' = [allowed EXCEPT ![call.key] = {call.value}]
    /\ IF block_num(fs'.write_pointer) # block_num(fs.write_pointer)
       THEN call' = Call("next", "initialize", NULL, NULL) /\ UNCHANGED status
       ELSE call' = NULL /\ status' = <<"put", "NO_ERROR">>
    /\ UNCHANGED <<hurt, puts, restarts>>

\* The object goes over the header of a block, and what flash holds of it is
\* neither.
write_obj_over_header ==
    /\ Running("find") /\ Fits /\ InHeader
    /\ hurt' = hurt \cup {"header overwritten"}
    /\ call' = NULL
    /\ UNCHANGED <<flash, fs, allowed, status, puts, restarts>>

-----------------------------------------------------------------------------

norfs_unmount_fs ==
    /\ fs.mounted /\ call = NULL
    /\ restarts < MaxRestarts
    /\ restarts' = restarts + 1
    /\ fs' = NotMounted
    /\ UNCHANGED <<flash, call, allowed, status, hurt, puts>>

\* Power fails during a call.
PowerFails ==
    /\ call # NULL
    /\ restarts < MaxRestarts
    /\ restarts' = restarts + 1
    /\ fs' = NotMounted
    /\ call' = NULL
    /\ hurt' = hurt \cup (IF call.pc \in {"erased", "finish"} /\ flash[call.target].records # <<>>
                          THEN {"collection not finished"} ELSE {})
    /\ UNCHANGED <<flash, allowed, status, puts>>

\* Everything is erased and mounted anew.
norfs_wipe_fs ==
    /\ call = NULL
    /\ restarts < MaxRestarts
    /\ restarts' = restarts + 1
    /\ Mount([b \in Block |-> [header |-> "erased", records |-> <<>>]])
    /\ allowed' = [k \in Key |-> {DELETED}]
    /\ UNCHANGED <<status, hurt, puts>>

\* What follows a use of freed memory or a write over a header is not defined.
Defined == hurt \cap {"inode freed", "header overwritten"} = {}

Step ==
    \/ norfs_mount_fs \/ norfs_wipe_fs
    \/ initialize_next_block \/ collect_garbage_object \/ erase_block \/ erase_block_header
    \/ initialize_next_block_finish
    \/ \E k \in Key : norfs_remove_obj(k) \/ \E len \in Lengths : norfs_put_obj(k, len)
    \/ find_space_for_object \/ write_obj \/ write_obj_over_header
    \/ norfs_unmount_fs \/ PowerFails

Next == Defined /\ Step

Spec == Init /\ [][Next]_vars

-----------------------------------------------------------------------------

Idle == fs.mounted /\ call = NULL

(***************************************************************************)
(* What norfs_put_obj() and norfs_remove_obj() have acknowledged is what   *)
(* is read, through any number of collections, after an unmount and after  *)
(* power has failed in the middle of a call; the object of the call that   *)
(* was interrupted is the old or the new one, and stays the one it is.     *)
(***************************************************************************)
Durable == Idle /\ hurt = {} => \A k \in Key : norfs_read_obj(fs, k) \in allowed[k]

AllRecords == UNION {{[block |-> b, index |-> i] : i \in DOMAIN flash[b].records} : b \in Block}

(***************************************************************************)
(* The books that norfs.c keeps in RAM agree with flash, whether mounting  *)
(* or the calls since have made them: the free blocks, of which one is     *)
(* left for the next collection, the reference count of every inode, on    *)
(* which forgetting a deletion rests, and the remaining space.             *)
(***************************************************************************)
BooksExact ==
    Idle /\ hurt = {} =>
        /\ fs.free = {b \in Block : flash[b].header = "TOFU"} /\ fs.free # {}
        /\ \A k \in Key : LET mine == {l \in AllRecords : Record(l).key = k} IN
            IF fs.inode[k] = NULL THEN mine = {}
            ELSE Cardinality(mine) = fs.inode[k].reference_count /\ fs.inode[k].location \in mine
        /\ fs.total_remaining_space = AVAILABLE_SPACE -
             MapThenSumSet(LAMBDA k : NORFS_FLASH_SIZE(Record(fs.inode[k].location).value),
                           {k \in Key : fs.inode[k] # NULL})

(***************************************************************************)
(* An object for which norfs_put_obj_iovec() finds enough remaining space  *)
(* is stored: no round of collections ends where it began with ERR_IO, and *)
(* mounting finds a free block whenever power failed.                      *)
(***************************************************************************)
SpaceIsFound == hurt = {} => status \notin {<<"put", "ERR_IO">>, <<"mount", "ERR_NO_MEMORY">>}

(***************************************************************************)
(* norfs.h: "Previous versions of the object will be overwritten", and all *)
(* data is stored when the file system is unmounted; a put that collects   *)
(* the garbage of its own object uses a version twice, and the previous    *)
(* object comes back.                                                      *)
(***************************************************************************)
PreviousOverwritten ==
    Idle /\ hurt \subseteq {"version reused"} => \A k \in Key : norfs_read_obj(fs, k) \in allowed[k]

(***************************************************************************)
(* norfs.c: the header that "indicate[s] block was not interrupted during  *)
(* garbage collection" makes an interrupted collection harmless; power     *)
(* fails between the erasure of the old block and that header.             *)
(***************************************************************************)
InterruptionHarmless ==
    Idle /\ hurt \subseteq {"collection not finished"} =>
        \A k \in Key : norfs_read_obj(fs, k) \in allowed[k]

\* No object is written over the header of a block.
HeadersKept == "header overwritten" \notin hurt

\* norfs_put_obj_iovec() finds its inode allocated when it writes it.
InodeHeld == "inode freed" \notin hurt
=============================================================================
