---------------------------------- MODULE Fs ----------------------------------
(***************************************************************************)
(* lib/fs/fs.c on the block devices of module Bio: the list of mounts,     *)
(* whose reference counts mount_lock protects.  A mount holds one          *)
(* reference to its device; the mount itself and every open file hold one  *)
(* to the mount, and the last to go unmounts.                              *)
(*                                                                         *)
(* mount() puts the new mount into the list without the lock: what another *)
(* thread does to the list between its reading and its writing the head is *)
(* undone.                                                                 *)
(***************************************************************************)
EXTENDS Bio

CONSTANTS
    Mount,          \* the structures that malloc() may return for mounts
    Path,           \* normalised paths
    Within,         \* pairs of paths of which the second is a prefix of the first
    FsDevice,       \* the names of devices that are mounted; NULL: none is needed
    Unmounts        \* "once": fs_unmount() only for one's own mounts; "any"

VARIABLES
    mounts,         \* the list of mounts
    mnt,            \* path, device, ref and owner of every mount, and whether it was freed
    mount_lock,     \* the thread that holds it from one step to the next, or NULL
    files,          \* the mount of the file each thread has open, or NULL
    raced           \* history: the list changed while mount() was changing it

fsOnly == <<mounts, mnt, mount_lock, files, raced>>
fsVars == <<bioVars, fsOnly>>

FsInit ==
    /\ Init
    /\ mounts = <<>>
    /\ mnt = [m \in Mount |-> [path |-> NULL, dev |-> NULL, ref |-> 0, owner |-> NULL, freed |-> FALSE]]
    /\ mount_lock = NULL
    /\ files = [t \in Thread |-> NULL]
    /\ raced = FALSE

\* The first mount of the list whose path is a prefix of this one.
find_mount(path) ==
    LET found == SelectSeq(mounts, LAMBDA m : mnt[m].path = path \/ <<path, mnt[m].path>> \in Within)
    IN  IF found = <<>> THEN NULL ELSE Head(found)

\* The mounts once find_mount() has returned m.
Found(m) == [mnt EXCEPT ![m].ref = @ + 1]

-----------------------------------------------------------------------------

\* Mutant of LastMountRef.
LastMountRef_OffByOne(ref) == ref <= 1

\* The test of --ref.
LastMountRef(ref) == ref = 0

\* The last reference goes: the lock is held until the device is closed.
put_mount(t) ==
    /\ Next_is(t, "put_mount") /\ mount_lock = NULL
    /\ LET m == Head(todo[t]).arg
       IN  /\ mnt' = [mnt EXCEPT ![m].ref = @ - 1]
           /\ IF LastMountRef(mnt[m].ref - 1)
              THEN /\ mounts' = SelectSeq(mounts, LAMBDA n : n # m)
                   /\ mount_lock' = t
                   /\ Instead(t, (IF mnt[m].dev = NULL THEN <<>> ELSE <<Do("dec_ref", mnt[m].dev)>>)
                                 \o <<Do("free_mount", m)>>)
              ELSE Instead(t, <<>>) /\ UNCHANGED <<mounts, mount_lock>>
    /\ UNCHANGED <<list, bdev, closed, opened, leaked, files, raced>>

put_mount_free(t) ==
    /\ Next_is(t, "free_mount")
    /\ mnt' = [mnt EXCEPT ![Head(todo[t]).arg].freed = TRUE]
    /\ mount_lock' = NULL
    /\ Instead(t, <<>>)
    /\ UNCHANGED <<list, bdev, closed, opened, leaked, mounts, files, raced>>

-----------------------------------------------------------------------------

\* mount(): something at this path already ends it.
fs_mount(t, path, device) ==
    /\ mount_lock = NULL
    /\ LET m == find_mount(path)
       IN  IF m # NULL
           THEN mnt' = Found(m) /\ Call(t, <<Do("put_mount", m)>>)
           ELSE UNCHANGED mnt /\ Call(t, <<Do("mount", <<path, device>>)>>)
    /\ UNCHANGED <<list, bdev, closed, opened, leaked, mounts, mount_lock, files, raced>>

\* mount(): the device is opened, if there is to be one, and the file system
\* takes it or not.
fs_mount_device(t) ==
    /\ Next_is(t, "mount")
    /\ LET path == Head(todo[t]).arg[1]
           device == Head(todo[t]).arg[2]
           dev == IF device = NULL THEN NULL ELSE Find(device)
           opens == IF dev = NULL THEN UNCHANGED bdev ELSE Referenced(dev, 1)
       IN  \/ /\ device # NULL /\ dev = NULL
              /\ Instead(t, <<>>) /\ UNCHANGED <<bdev, mnt>>
           \/ /\ device = NULL \/ dev # NULL
              /\ opens
              /\ Instead(t, IF dev = NULL THEN <<>> ELSE <<Do("dec_ref", dev)>>)
              /\ UNCHANGED mnt
           \/ /\ device = NULL \/ dev # NULL
              /\ opens
              /\ LET m == Fresh(Mount, LAMBDA x : mnt[x].path = NULL) IN
                    /\ m # NULL
                    /\ mnt' = [mnt EXCEPT ![m] = [path |-> path, dev |-> dev, ref |-> 1, owner |-> t, freed |-> FALSE]]
                    /\ Instead(t, <<Do("list_head", m)>>)
    /\ UNCHANGED <<list, closed, opened, leaked, mounts, mount_lock, files, raced>>

\* list_add_head(): the head is read, and later written.
fs_mount_list_read(t) ==
    /\ Next_is(t, "list_head")
    /\ Instead(t, <<Do("list_add", <<Head(todo[t]).arg, mounts>>)>>)
    /\ UNCHANGED <<list, bdev, closed, opened, leaked, fsOnly>>

fs_mount_list_add(t) ==
    /\ Next_is(t, "list_add")
    /\ LET add == Head(todo[t]).arg
       IN  /\ mounts' = <<add[1]>> \o add[2]
           /\ raced' = (raced \/ add[2] # mounts)
    /\ Instead(t, <<>>)
    /\ UNCHANGED <<list, bdev, closed, opened, leaked, mnt, mount_lock, files>>

\* The reference of find_mount() and the one of the mount go.
fs_unmount(t, path) ==
    /\ mount_lock = NULL
    /\ LET m == find_mount(path)
       IN  /\ m # NULL
           /\ Unmounts = "once" => mnt[m].owner = t
           /\ mnt' = [Found(m) EXCEPT ![m].owner = NULL]
           /\ Call(t, <<Do("put_mount", m), Do("put_mount", m)>>)
    /\ UNCHANGED <<list, bdev, closed, opened, leaked, mounts, mount_lock, files, raced>>

\* fs_open_file(), fs_create_file() and fs_open_dir(): the file system opens
\* the file or not.  fs_remove_file(), fs_make_dir() and fs_stat_fs() give
\* the mount back in any case.
fs_open_file(t, path) ==
    /\ todo[t] = <<>> /\ files[t] = NULL /\ mount_lock = NULL
    /\ LET m == find_mount(path)
       IN  /\ m # NULL
           /\ mnt' = Found(m)
           /\ \/ files' = [files EXCEPT ![t] = m] /\ UNCHANGED todo
              \/ Call(t, <<Do("put_mount", m)>>) /\ UNCHANGED files
    /\ UNCHANGED <<list, bdev, closed, opened, leaked, mounts, mount_lock, raced>>

\* fs_close_file() and fs_close_dir(), where the file system agrees.
fs_close_file(t) ==
    /\ files[t] # NULL
    /\ Call(t, <<Do("put_mount", files[t])>>)
    /\ files' = [files EXCEPT ![t] = NULL]
    /\ UNCHANGED <<list, bdev, closed, opened, leaked, mounts, mnt, mount_lock, raced>>

\* fs_format_device() does not close the device.
fs_format_device(t, device) ==
    /\ todo[t] = <<>> /\ Find(device) # NULL
    /\ Referenced(Find(device), 1)
    /\ leaked[Find(device)] < MaxLeaks
    /\ leaked' = [leaked EXCEPT ![Find(device)] = @ + 1]
    /\ UNCHANGED <<list, closed, opened, todo, fsOnly>>

\* What follows a race on the list is not defined.
FsNext ==
    /\ ~raced
    /\ \E t \in Thread :
        \/ BioStep(t) /\ UNCHANGED fsOnly
        \/ put_mount(t) \/ put_mount_free(t)
        \/ \E path \in Path, device \in FsDevice : fs_mount(t, path, device)
        \/ fs_mount_device(t) \/ fs_mount_list_read(t) \/ fs_mount_list_add(t)
        \/ \E path \in Path : fs_unmount(t, path) \/ fs_open_file(t, path)
        \/ fs_close_file(t)
        \/ \E device \in FsDevice \ {NULL} : fs_format_device(t, device)

FsSpec == FsInit /\ [][FsNext]_fsVars

-----------------------------------------------------------------------------

\* The devices with the references that mounts hold.
MountsOf(d) == {m \in Mount : mnt[m].dev = d /\ ~mnt[m].freed /\ Pending("free_mount", m) = 0}

(***************************************************************************)
(* With the mounts of lib/fs/fs.c among its users, every block device is   *)
(* counted as module Bio has it.                                           *)
(***************************************************************************)
MountedDevicesCounted ==
    \A d \in Device :
        LET closing == Pending("close", d) + Pending("free", d) IN
        /\ bdev[d].ref = Users(d) + Cardinality(MountsOf(d))
        /\ closed[d] + closing <= 1
        /\ closed[d] + closing = 1 => bdev[d].ref = 0 /\ d \notin ToSet(list)

(***************************************************************************)
(* A mount is there, and in the list, as long as a file in it is open or a *)
(* call uses it, even after fs_unmount(), and it is freed with the last of *)
(* them, if each mount is unmounted once and nothing disturbs mount() at   *)
(* the list.                                                               *)
(***************************************************************************)
MountsCounted ==
    ~raced => \A m \in Mount :
        LET linking == Pending("list_head", m) +
                       Cardinality({t \in Thread : Next_is(t, "list_add") /\ Head(todo[t]).arg[1] = m})
            users == (IF mnt[m].owner = NULL THEN 0 ELSE 1)
                     + Cardinality({t \in Thread : files[t] = m}) + Pending("put_mount", m)
        IN  /\ mnt[m].ref = users
            /\ users > 0 => ~mnt[m].freed /\ (linking = 0 => m \in ToSet(mounts))
            /\ users = 0 => m \notin ToSet(mounts)

\* mount() of lib/fs/fs.c: "see if there's already something at this path, abort if there is".
OneMountPerPath == ~raced => \A m, n \in ToSet(mounts) : mnt[m].path = mnt[n].path => m = n
=============================================================================
