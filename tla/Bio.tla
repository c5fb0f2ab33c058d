--------------------------------- MODULE Bio ---------------------------------
(***************************************************************************)
(* lib/bio/bio.c, lib/bio/subdev.c and lib/partition/partition.c: block    *)
(* devices in a list that bdevs.lock protects, with reference counts that  *)
(* are changed outside it.  The list, everyone who has opened a device and *)
(* every sub-device of it hold one reference each; the last to give up its *)
(* reference closes the device.                                            *)
(*                                                                         *)
(* A thread inside a call has in todo the steps that remain, each atomic:  *)
(* a section under the lock, an atomic_add() or what the thread does alone.*)
(***************************************************************************)
EXTENDS Integers, Sequences, SequencesExt, FiniteSets, FiniteSetsExt

CONSTANTS
    Thread, NULL,
    DISK,           \* a device with an MBR, registered by its driver
    Sub,            \* the structures that malloc() may return for sub-devices
    Partition,      \* the names of sub-devices that the MBR may describe
    Client,         \* the threads that open devices
    Publisher,      \* the threads that publish partitions and unregister the disk
    MaxLeaks        \* bound: references that are not given back

VARIABLES
    list,           \* bdevs.list
    bdev,           \* ref, name and parent of every device
    closed,         \* history: how often the name of each device was freed
    opened,         \* the device each client has opened, or NULL
    todo,
    leaked          \* history: references nobody will give back

bioVars == <<list, bdev, closed, opened, todo, leaked>>

Device == Sub \cup {DISK}

Do(what, arg) == [do |-> what, arg |-> arg]

Init ==
    /\ list = <<DISK>>
    /\ bdev = [d \in Device |-> [ref |-> IF d = DISK THEN 1 ELSE 0, name |-> IF d = DISK THEN DISK ELSE NULL,
                                 parent |-> NULL]]
    /\ closed = [d \in Device |-> 0]
    /\ opened = [t \in Thread |-> NULL]
    /\ todo = [t \in Thread |-> <<>>]
    /\ leaked = [d \in Device |-> 0]

\* The first device in the list with this name.
Find(name) ==
    LET found == SelectSeq(list, LAMBDA d : bdev[d].name = name)
    IN  IF found = <<>> THEN NULL ELSE Head(found)

Next_is(t, what) == todo[t] # <<>> /\ Head(todo[t]).do = what

\* The step at hand is replaced by these.
Instead(t, steps) == todo' = [todo EXCEPT ![t] = steps \o Tail(@)]

Call(t, steps) == todo[t] = <<>> /\ todo' = [todo EXCEPT ![t] = steps]

Referenced(d, n) == bdev' = [bdev EXCEPT ![d].ref = @ + n]

\* A structure of this pool that has not been used yet; which one is all the same.
Fresh(pool, Unused(_)) ==
    IF \E x \in pool : Unused(x) THEN CHOOSE x \in pool : Unused(x) ELSE NULL

-----------------------------------------------------------------------------
(***************************************************************************)
(* References.                                                             *)
(***************************************************************************)

bdev_inc_ref(t) ==
    /\ Next_is(t, "inc_ref")
    /\ Referenced(Head(todo[t]).arg, 1)
    /\ Instead(t, <<>>)
    /\ UNCHANGED <<list, closed, opened, leaked>>

LastRef(oldval) == oldval = 1

\* What the thread that gives up the last reference does: the close hook of a
\* sub-device closes its parent.
Removal(d) ==
    (IF bdev[d].parent = NULL THEN <<>> ELSE <<Do("dec_ref", bdev[d].parent)>>) \o <<Do("free", d)>>

bdev_dec_ref(t) ==
    /\ Next_is(t, "dec_ref")
    /\ LET d == Head(todo[t]).arg
       IN  /\ Referenced(d, -1)
           /\ Instead(t, IF LastRef(bdev[d].ref) THEN <<Do("close", d)>> ELSE <<>>)
    /\ UNCHANGED <<list, closed, opened, leaked>>

bdev_close(t) ==
    /\ Next_is(t, "close")
    /\ LET d == Head(todo[t]).arg
       IN  /\ bdev' = [bdev EXCEPT ![d].parent = NULL]
           /\ Instead(t, Removal(d))
    /\ UNCHANGED <<list, closed, opened, leaked>>

bdev_free(t) ==
    /\ Next_is(t, "free")
    /\ closed' = [closed EXCEPT ![Head(todo[t]).arg] = @ + 1]
    /\ Instead(t, <<>>)
    /\ UNCHANGED <<list, bdev, opened, leaked>>

-----------------------------------------------------------------------------
(***************************************************************************)
(* The list of devices.                                                    *)
(***************************************************************************)

bio_open(t, name) ==
    /\ t \in Client
    /\ todo[t] = <<>> /\ opened[t] = NULL
    /\ Find(name) # NULL
    /\ opened' = [opened EXCEPT ![t] = Find(name)]
    /\ Referenced(Find(name), 1)
    /\ UNCHANGED <<list, closed, todo, leaked>>

bio_close(t) ==
    /\ opened[t] # NULL
    /\ Call(t, <<Do("dec_ref", opened[t])>>)
    /\ opened' = [opened EXCEPT ![t] = NULL]
    /\ UNCHANGED <<list, bdev, closed, leaked>>

bio_register_device(d) == <<Do("inc_ref", d), Do("add", d)>>

bio_register_device_add(t) ==
    /\ Next_is(t, "add")
    /\ list' = Append(list, Head(todo[t]).arg)
    /\ Instead(t, <<>>)
    /\ UNCHANGED <<bdev, closed, opened, leaked>>

bio_unregister_device(d) == <<Do("delete", d), Do("dec_ref", d)>>

bio_unregister_device_delete(t) ==
    /\ Next_is(t, "delete")
    /\ list' = SelectSeq(list, LAMBDA d : d # Head(todo[t]).arg)
    /\ Instead(t, <<>>)
    /\ UNCHANGED <<bdev, closed, opened, leaked>>

\* A driver takes its device away.
RemoveDisk(t) ==
    /\ t \in Publisher /\ Find(DISK) # NULL
    /\ Call(t, bio_unregister_device(DISK))
    /\ UNCHANGED <<list, bdev, closed, opened, leaked>>

-----------------------------------------------------------------------------
(***************************************************************************)
(* Partitions.                                                             *)
(***************************************************************************)

\* partition_publish(): what was published before is taken back first.
partition_publish(t) ==
    /\ t \in Publisher
    /\ Call(t, SetToSeq({Do("unpublish", p) : p \in Partition}) \o <<Do("publish", NULL)>>)
    /\ UNCHANGED <<list, bdev, closed, opened, leaked>>

\* One round of the loop of partition_unpublish().
partition_unpublish(t) ==
    /\ Next_is(t, "unpublish")
    /\ LET d == Find(Head(todo[t]).arg)
       IN  IF d = NULL THEN Instead(t, <<>>) /\ UNCHANGED bdev
           ELSE /\ Referenced(d, 1)
                /\ Instead(t, bio_unregister_device(d) \o <<Do("dec_ref", d)>>)
    /\ UNCHANGED <<list, closed, opened, leaked>>

\* The disk is opened and its table read.  When that fails the disk is not
\* closed.
partition_publish_read(t) ==
    /\ Next_is(t, "publish")
    /\ \/ /\ Find(DISK) = NULL
          /\ Instead(t, <<>>) /\ UNCHANGED <<bdev, leaked>>
       \/ /\ Find(DISK) # NULL /\ Referenced(DISK, 1)
          /\ leaked[DISK] < MaxLeaks
          /\ leaked' = [leaked EXCEPT ![DISK] = @ + 1]
          /\ Instead(t, <<>>)
       \/ /\ Find(DISK) # NULL /\ Referenced(DISK, 1)
          /\ \E valid \in SUBSET Partition :
                Instead(t, SetToSeq({Do("subdevice", p) : p \in valid}) \o <<Do("dec_ref", DISK)>>)
          /\ UNCHANGED leaked
    /\ UNCHANGED <<list, closed, opened>>

\* bio_publish_subdevice(): without memory, or when the range is not one of
\* the disk, the disk is closed again.
bio_publish_subdevice(t) ==
    /\ Next_is(t, "subdevice")
    /\ \/ /\ Find(DISK) = NULL
          /\ Instead(t, <<>>) /\ UNCHANGED bdev
       \/ /\ Find(DISK) # NULL /\ Referenced(DISK, 1)
          /\ Instead(t, <<Do("dec_ref", DISK)>>)
       \/ /\ Find(DISK) # NULL
          /\ LET s == Fresh(Sub, LAMBDA x : bdev[x].name = NULL) IN
                /\ s # NULL
                /\ bdev' = [bdev EXCEPT ![DISK].ref = @ + 1,
                                        ![s] = [ref |-> 0, name |-> Head(todo[t]).arg, parent |-> DISK]]
                /\ Instead(t, bio_register_device(s))
    /\ UNCHANGED <<list, closed, opened, leaked>>

-----------------------------------------------------------------------------

BioStep(t) ==
    \/ bdev_inc_ref(t) \/ bdev_dec_ref(t) \/ bdev_close(t) \/ bdev_free(t)
    \/ \E name \in Partition \cup {DISK} : bio_open(t, name)
    \/ bio_close(t)
    \/ bio_register_device_add(t) \/ bio_unregister_device_delete(t)
    \/ RemoveDisk(t)
    \/ partition_publish(t) \/ partition_unpublish(t) \/ partition_publish_read(t)
    \/ bio_publish_subdevice(t)

Next == \E t \in Thread : BioStep(t)

Spec == Init /\ [][Next]_bioVars

-----------------------------------------------------------------------------

\* How many steps of this kind on d remain to be done.
Pending(what, d) ==
    MapThenSumSet(LAMBDA t : Len(SelectSeq(todo[t], LAMBDA s : s = Do(what, d))), Thread)

Users(d) ==
    Cardinality({i \in DOMAIN list : list[i] = d})
    + Cardinality({t \in Thread : opened[t] = d})
    + Cardinality({s \in Sub : bdev[s].parent = d})
    + Pending("dec_ref", d) - Pending("delete", d) + Pending("add", d) - Pending("inc_ref", d)
    + leaked[d]

(***************************************************************************)
(* The reference count of every device counts the list, the clients that   *)
(* have it open, its sub-devices and the calls under way, whatever is      *)
(* published and unregistered meanwhile; so no device is closed while one  *)
(* of them uses it, and each is closed once.  bdev_dec_ref() asserts that  *)
(* a device it closes is not in the list.                                  *)
(***************************************************************************)
DevicesCounted ==
    \A d \in Device :
        LET closing == Pending("close", d) + Pending("free", d) IN
        /\ bdev[d].ref = Users(d)
        /\ closed[d] + closing <= 1
        /\ closed[d] + closing = 1 => bdev[d].ref = 0 /\ d \notin ToSet(list)
=============================================================================
