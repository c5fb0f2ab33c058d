-------------------------------- MODULE Port --------------------------------
(***************************************************************************)
(* kernel/port.c: named message ports.  A write port has a buffer until it *)
(* is opened; then the buffer moves to its first read port, further read   *)
(* ports of a broadcast port have buffers of their own, and the last read  *)
(* port to close hands its buffer back.  A port group gathers read ports   *)
(* for a reader that waits for any of them.                                *)
(*                                                                         *)
(* Everything happens under thread_lock, except that port_create() drops   *)
(* the lock between looking a name up and linking the new port, and that   *)
(* port_group_add() and port_group_remove() check their arguments before   *)
(* they take it; those calls are two actions each.  A buffer is the        *)
(* sequence of its packets.  Handles are memory, used for one port only, so *)
(* that every touch of memory that has been freed shows: it is a fault.    *)
(***************************************************************************)
EXTENDS WaitQueue, SequencesExt

CONSTANTS
    WPort, RPort, Group,  \* the memory blocks malloc() gives to each type, each once
    Mode,           \* of "PORT_MODE_BROADCAST", "PORT_MODE_UNICAST"
    Timeouts,       \* the timeouts threads pass to port_read()
    Counts,         \* the numbers of packets they pass to port_write()
    PORT_BUFF_SIZE, \* packets in a buffer
    MaxPackets      \* bound on the packets written to all ports

VARIABLES
    sched,      \* the scheduler state, over the queues of read ports and groups
    write_port_list,
    wp, rp, pg, \* the memory of the three types; magic is NULL before it is
                \* allocated and 0 when it is freed
    pc, arg,    \* what a thread is doing inside a call, and with which arguments
    fault,      \* "none", or what brought the kernel down
    skipped,    \* history: threads asleep when one wake-up was spent on work for two
    wrote, got  \* history: the last packet a write port took, and the last that
                \* was read of it

vars == <<sched, write_port_list, wp, rp, pg, pc, arg, fault, skipped, wrote, got>>

Ports == RPort \cup Group
Reading == {t \in Thread : pc[t] = "read"}
FreeW == [magic |-> "0", mode |-> NULL, buf |-> NULL, rp_list |-> <<>>]
FreeR == [magic |-> "0", buf |-> NULL, wport |-> NULL, gport |-> NULL]
FreeG == [magic |-> "0", rp_list |-> <<>>]

Init ==
    /\ sched = SchedInit(Ports)
    /\ write_port_list = <<>>
    /\ wp = [w \in WPort |-> [FreeW EXCEPT !.magic = NULL]]
    /\ rp = [r \in RPort |-> [FreeR EXCEPT !.magic = NULL]]
    /\ pg = [g \in Group |-> [FreeG EXCEPT !.magic = NULL]]
    /\ pc = [t \in Thread |-> "idle"]
    /\ arg = [t \in Thread |-> <<>>]
    /\ fault = "none"
    /\ skipped = {}
    /\ wrote = [w \in WPort |-> 0]
    /\ got = [w \in WPort |-> 0]

\* The calls that neither block nor drop the lock can come from any thread,
\* also from one that is not in Thread.
Running == fault = "none"
Calls(t) == Running /\ pc[t] = "idle"

Step(t, from, to, args) ==
    /\ fault = "none" /\ pc[t] = from
    /\ pc' = [pc EXCEPT ![t] = to]
    /\ arg' = [arg EXCEPT ![t] = args]

\* The one thing a failed check, or a fault, changes.
Faults(what) ==
    /\ fault' = what
    /\ UNCHANGED <<sched, write_port_list, wp, rp, pg, skipped, wrote, got>>

-----------------------------------------------------------------------------

\* buf_write(): all of the packets or none.
Fits(buf, packets) == PORT_BUFF_SIZE - Len(buf) >= Len(packets)

\* port_create() of the one name there is, up to the first unlock: an open port
\* of that name is returned, a closed one makes the call fail.
port_create(t, mode) ==
    /\ write_port_list = <<>>
    /\ Step(t, "idle", "create", <<mode>>)
    /\ UNCHANGED <<sched, write_port_list, wp, rp, pg, fault, skipped, wrote, got>>

\* ... and from there on: the port is linked, whatever was linked meanwhile.
port_create_link(t, w) ==
    /\ Step(t, "create", "idle", <<>>)
    /\ wp[w].magic = NULL
    /\ wp' = [wp EXCEPT ![w] = [magic |-> "W", mode |-> arg[t][1], buf |-> <<>>, rp_list |-> <<>>]]
    /\ write_port_list' = Append(write_port_list, w)
    /\ UNCHANGED <<sched, rp, pg, fault, skipped, wrote, got>>

\* ... or there is no memory for it.
port_create_fails(t) ==
    /\ Step(t, "create", "idle", <<>>)
    /\ UNCHANGED <<sched, write_port_list, wp, rp, pg, fault, skipped, wrote, got>>

\* Mutant of OpenBuf.
OpenBuf_New(w) == <<>>

\* The buffer of a new reader of w: the one of w, if no reader has it yet.
OpenBuf(w) == IF wp[w].buf # NULL THEN wp[w].buf ELSE <<>>

\* port_open(), of an open or a closed port, into the memory r; a unicast port
\* has one reader at a time.
port_open(r) ==
    /\ Running
    /\ rp[r].magic = NULL
    /\ write_port_list # <<>>
    /\ LET w == Head(write_port_list) IN
       /\ wp[w].buf # NULL \/ wp[w].mode # "PORT_MODE_UNICAST"
       /\ rp' = [rp EXCEPT ![r] = [magic |-> "R", buf |-> OpenBuf(w), wport |-> w, gport |-> NULL]]
       /\ wp' = [wp EXCEPT ![w].buf = NULL, ![w].rp_list = Append(@, r)]
    /\ UNCHANGED <<sched, write_port_list, pg, pc, arg, fault, skipped, wrote, got>>

-----------------------------------------------------------------------------

\* A handle its owner may still use: neither freed nor given to port_close().
\* It is not given to port_close() while another thread is linking it.
UsedBy(h, calls) == \E t \in Thread : pc[t] \in calls /\ h \in Range(arg[t])
UsableR(r) == rp[r].magic = "R" /\ ~UsedBy(r, {"close"})
UsableG(g) == pg[g].magic = "G" /\ ~UsedBy(g, {"close"})
Closable(h) == ~UsedBy(h, {"add", "remove", "close"})

OnList(r) == \E g \in Group : r \in Range(pg[g].rp_list)

\* Read ports that port_group_remove() took off the list of a group they still
\* point to.
Stale == {r \in RPort : rp[r].gport # NULL /\ r \notin Range(pg[rp[r].gport].rp_list)}

\* port_group(), into the memory g; with a port that is grouped already, or
\* given twice, it undoes what it did and fails.
port_group(g, ports) ==
    /\ Running
    /\ pg[g].magic = NULL
    /\ \A r \in Range(ports) : UsableR(r) /\ rp[r].gport = NULL
    /\ pg' = [pg EXCEPT ![g] = [magic |-> "G", rp_list |-> ports]]
    /\ rp' = [r \in RPort |-> IF r \in Range(ports) THEN [rp[r] EXCEPT !.gport = g] ELSE rp[r]]
    /\ UNCHANGED <<sched, write_port_list, wp, pc, arg, fault, skipped, wrote, got>>

\* The checks port_group_add() and port_group_remove() make before they lock.
port_group_check(t, op, g, r, gport) ==
    /\ UsableG(g) /\ UsableR(r) /\ rp[r].gport = gport
    /\ Step(t, "idle", op, <<g, r>>)
    /\ UNCHANGED <<sched, write_port_list, wp, rp, pg, fault, skipped, wrote, got>>

\* A port that joins with packets wakes one thread that waits for the group.
WakeAdded(g, r) == IF rp[r].buf = <<>> THEN sched ELSE wait_queue_wake_one(sched, g, "NO_ERROR")

\* port_group_add() under the lock.  A port that was put on a list meanwhile is
\* on two lists then.
port_group_add(t) ==
    /\ Step(t, "add", "idle", <<>>)
    /\ LET g == arg[t][1]
           r == arg[t][2]
       IN  \/ /\ OnList(r) /\ Faults("node on two lists")
           \/ /\ ~OnList(r)
              /\ rp' = [rp EXCEPT ![r].gport = g]
              /\ pg' = [pg EXCEPT ![g].rp_list = Append(@, r)]
              /\ sched' = WakeAdded(g, r)
              /\ skipped' = skipped \cup (IF Len(rp[r].buf) > 1 THEN On(sched, g) ELSE {})
              /\ UNCHANGED <<write_port_list, wp, fault, wrote, got>>

\* port_group_remove() under the lock.  If the port is not on the list the call
\* returns without unlocking; if it is, gport is left as it was.
port_group_remove(t) ==
    /\ Step(t, "remove", "idle", <<>>)
    /\ LET g == arg[t][1]
           r == arg[t][2]
       IN  \/ /\ r \notin Range(pg[g].rp_list) /\ Faults("thread_lock held")
           \/ /\ r \in Range(pg[g].rp_list)
              /\ pg' = [pg EXCEPT ![g].rp_list = list_delete(@, r)]
              /\ UNCHANGED <<sched, write_port_list, wp, rp, fault, skipped, wrote, got>>

-----------------------------------------------------------------------------

Packets(w, n) == [i \in 1..n |-> wrote[w] + i]

\* The readers of w with room for n packets; for the others the write is partial.
Takers(w, n) == {r \in Range(wp[w].rp_list) : Fits(rp[r].buf, Packets(w, n))}

\* port_write() wakes a thread waiting for the group of r or else one waiting for r.
WakeReader(s, r) ==
    IF rp[r].gport # NULL /\ s.list[rp[r].gport] # <<>>
    THEN wait_queue_wake_one(s, rp[r].gport, "NO_ERROR")
    ELSE wait_queue_wake_one(s, r, "NO_ERROR")

\* There may be more to do than the one thread woken for r will see to: two
\* packets, or a group's thread that may prefer another port.
Skipped(r, n) ==
    LET waiting == IF rp[r].gport = NULL THEN {} ELSE On(sched, rp[r].gport)
    IN  IF n > 1 \/ (waiting # {} /\ (sched.list[r] # <<>> \/ r \in Stale))
        THEN waiting \cup On(sched, r) ELSE {}

\* port_write() of n packets.
port_write(w, n) ==
    /\ Running
    /\ wp[w].magic = "W"
    /\ FoldFunction(+, n, wrote) <= MaxPackets
    /\ \/ /\ wp[w].buf # NULL
          /\ Fits(wp[w].buf, Packets(w, n))
          /\ wp' = [wp EXCEPT ![w].buf = @ \o Packets(w, n)]
          /\ wrote' = [wrote EXCEPT ![w] = @ + n]
          /\ UNCHANGED <<sched, rp, fault, skipped>>
       \/ /\ wp[w].buf = NULL /\ Takers(w, n) # {}
          /\ \A r \in Takers(w, n) : rp[r].gport # NULL => pg[rp[r].gport].magic # "0"
          /\ rp' = [r \in RPort |-> IF r \in Takers(w, n) THEN [rp[r] EXCEPT !.buf = @ \o Packets(w, n)]
                                    ELSE rp[r]]
          /\ sched' = FoldLeft(LAMBDA s, r : IF r \in Takers(w, n) THEN WakeReader(s, r) ELSE s,
                               sched, wp[w].rp_list)
          /\ skipped' = skipped \cup UNION {Skipped(r, n) : r \in Takers(w, n)}
          /\ wrote' = [wrote EXCEPT ![w] = @ + n]
          /\ UNCHANGED <<wp, fault>>
       \/ /\ wp[w].buf = NULL
          /\ \E r \in Takers(w, n) : rp[r].gport # NULL /\ pg[rp[r].gport].magic = "0"
          /\ fault' = "freed port"
          /\ UNCHANGED <<sched, wp, rp, skipped, wrote>>
    /\ UNCHANGED <<write_port_list, pg, pc, arg, got>>

\* The ports a read of h looks at, in this order.
Sources(h) == IF h \in RPort THEN <<h>> ELSE pg[h].rp_list

\* One pass of port_read() of h by t, entered at call or after a wake-up.
TryRead(t, h, timeout, s) ==
    LET ready == SelectSeq(Sources(h), LAMBDA r : rp[r].buf # <<>>) IN
    \/ /\ ready # <<>> /\ rp[Head(ready)].buf = NULL
       /\ fault' = "NULL buffer"
       /\ UNCHANGED <<sched, rp, pc, arg, got>>
    \/ /\ ready # <<>> /\ rp[Head(ready)].buf # NULL
       /\ LET r == Head(ready) IN
          /\ rp' = [rp EXCEPT ![r].buf = Tail(@)]
          /\ got' = IF rp[r].wport = NULL \/ UsedBy(r, {"close"}) THEN got ELSE [got EXCEPT ![rp[r].wport] = Head(rp[r].buf)]
       /\ sched' = s
       /\ pc' = [pc EXCEPT ![t] = "idle"]
       /\ arg' = [arg EXCEPT ![t] = <<>>]
       /\ UNCHANGED fault
    \/ /\ ready = <<>> /\ timeout # "ZERO"
       /\ sched' = wait_queue_block(s, h, t, timeout)
       /\ pc' = [pc EXCEPT ![t] = "read"]
       /\ arg' = [arg EXCEPT ![t] = <<h, timeout>>]
       /\ UNCHANGED <<rp, fault, got>>

port_read(t, h, timeout) ==
    /\ Calls(t)
    /\ IF h \in RPort THEN UsableR(h) ELSE UsableG(h)
    /\ TryRead(t, h, timeout, sched)
    /\ UNCHANGED <<write_port_list, wp, pg, skipped, wrote>>

\* wait_queue_block() returns; nobody looks at its status again.
Returns(t) == [wait_queue_block_resume(sched, t) EXCEPT !.wait_queue_block_ret[t] = "NO_ERROR"]

\* A woken reader tries again, with its whole timeout again, or gives up.
port_read_resume(t) ==
    /\ fault = "none" /\ pc[t] = "read" /\ sched.state[t] = "READY"
    /\ \/ /\ sched.wait_queue_block_ret[t] = "NO_ERROR"
          /\ TryRead(t, arg[t][1], arg[t][2], Returns(t))
       \/ /\ sched.wait_queue_block_ret[t] # "NO_ERROR"
          /\ sched' = Returns(t)
          /\ pc' = [pc EXCEPT ![t] = "idle"]
          /\ arg' = [arg EXCEPT ![t] = <<>>]
          /\ UNCHANGED <<rp, fault, got>>
    /\ skipped' = skipped \ {t}
    /\ UNCHANGED <<write_port_list, wp, pg, wrote>>

port_read_timeout(t) ==
    /\ fault = "none" /\ t \in sched.timer
    /\ sched' = wait_queue_timeout_handler(sched, t)
    /\ UNCHANGED <<write_port_list, wp, rp, pg, pc, arg, fault, skipped, wrote, got>>

-----------------------------------------------------------------------------

\* port_destroy(): the readers are told; those that come later are not.
port_destroy(w) ==
    /\ Running
    /\ wp[w].magic = "X"
    /\ LET readers == Range(wp[w].rp_list)
           groups == {rp[r].gport : r \in readers} \ {NULL}
       IN  \/ /\ \E g \in groups : pg[g].magic = "0"
              /\ fault' = "freed port"
              /\ UNCHANGED <<sched, write_port_list, wp, rp>>
           \/ /\ \A g \in groups : pg[g].magic # "0"
              /\ sched' = FoldSet(LAMBDA q, s : wait_queue_wake_all(s, q, "ERR_CANCELLED"),
                                  sched, readers \cup groups)
              /\ rp' = [r \in RPort |-> IF r \in readers THEN [rp[r] EXCEPT !.wport = NULL] ELSE rp[r]]
              /\ write_port_list' = list_delete(write_port_list, w)
              /\ wp' = [wp EXCEPT ![w] = FreeW]
              /\ UNCHANGED fault
    /\ UNCHANGED <<pg, pc, arg, skipped, wrote, got>>

\* port_close() of a write port, which can be read, but not written, after it.
port_close_write(w) ==
    /\ Running
    /\ wp[w].magic = "W"
    /\ wp' = [wp EXCEPT ![w].magic = "X"]
    /\ UNCHANGED <<sched, write_port_list, rp, pg, pc, arg, fault, skipped, wrote, got>>

\* Threads inside port_read() of h that will go on with it: port_close() woke the
\* ones it found asleep, but not those that were awake or have gone back to sleep.
StillReading(h, s) ==
    {t \in Reading : arg[t][1] = h /\ (s.state[t] = "BLOCKED" \/ s.wait_queue_block_ret[t] = "NO_ERROR")}

\* The memory of h is freed: what its readers touch next is not theirs.
Free(h, s) == fault' = IF StillReading(h, s) = {} THEN fault ELSE "freed port"

\* wait_queue_destroy() lets the threads it wakes run first; without any it
\* returns at once.
Destroy(t, h) ==
    /\ sched' = wait_queue_destroy(sched, h)
    /\ IF sched.list[h] = <<>>
       THEN Free(h, sched) /\ UNCHANGED <<pc, arg>>
       ELSE UNCHANGED fault /\ Step(t, "idle", "close", <<h>>)

LastReader(r) == rp[r].wport # NULL /\ wp[rp[r].wport].rp_list = <<r>>

\* The last reader of a write port gives the buffer back.
HandBack(r) ==
    IF rp[r].wport = NULL THEN wp
    ELSE [wp EXCEPT ![rp[r].wport].rp_list = list_delete(@, r),
                    ![rp[r].wport].buf = IF LastReader(r) THEN rp[r].buf ELSE @]

\* port_close() of a read port, up to the reschedule if there is one.
port_close_read(t, r) ==
    /\ Calls(t) /\ UsableR(r) /\ Closable(r)
    /\ \/ /\ r \in Stale
          /\ Faults("NULL list node")
          /\ UNCHANGED <<pc, arg>>
       \/ /\ r \notin Stale
          /\ wp' = HandBack(r)
          /\ pg' = IF rp[r].gport = NULL THEN pg ELSE [pg EXCEPT ![rp[r].gport].rp_list = list_delete(@, r)]
          /\ rp' = [rp EXCEPT ![r] = IF sched.list[r] = <<>> THEN FreeR
                                     ELSE [@ EXCEPT !.buf = IF LastReader(r) THEN NULL ELSE @]]
          /\ Destroy(t, r)
          /\ UNCHANGED <<write_port_list, skipped, wrote, got>>

Ungroup(g) ==
    rp' = [r \in RPort |-> IF r \in Range(pg[g].rp_list) THEN [rp[r] EXCEPT !.gport = NULL] ELSE rp[r]]

\* port_close() of a group, up to the reschedule if there is one.
port_close_group(t, g) ==
    /\ Calls(t) /\ UsableG(g) /\ Closable(g)
    /\ Destroy(t, g)
    /\ IF sched.list[g] = <<>> THEN Ungroup(g) /\ pg' = [pg EXCEPT ![g] = FreeG] ELSE UNCHANGED <<rp, pg>>
    /\ UNCHANGED <<write_port_list, wp, skipped, wrote, got>>

\* ... and the rest of both.
port_close_resume(t) ==
    /\ Step(t, "close", "idle", <<>>)
    /\ LET h == arg[t][1] IN
       /\ Free(h, sched)
       /\ \/ h \in RPort /\ rp' = [rp EXCEPT ![h] = FreeR] /\ UNCHANGED pg
          \/ h \in Group /\ Ungroup(h) /\ pg' = [pg EXCEPT ![h] = FreeG]
    /\ UNCHANGED <<sched, write_port_list, wp, skipped, wrote, got>>

Next ==
    \/ \E w \in WPort :
        \/ \E n \in Counts : port_write(w, n)
        \/ port_close_write(w)
        \/ port_destroy(w)
    \/ \E r \in RPort : port_open(r)
    \/ \E g \in Group :
        \E ports \in {<<>>} \cup {<<r>> : r \in RPort} \cup {ports \in RPort \X RPort : IsInjective(ports)} :
            port_group(g, ports)
    \/ \E t \in Thread :
        \/ \E mode \in Mode : port_create(t, mode)
        \/ \E w \in WPort : port_create_link(t, w)
        \/ port_create_fails(t)
        \/ \E g \in Group, r \in RPort :
            \/ port_group_check(t, "add", g, r, NULL)
            \/ port_group_check(t, "remove", g, r, g)
        \/ port_group_add(t)
        \/ port_group_remove(t)
        \/ \E h \in Ports, timeout \in Timeouts : port_read(t, h, timeout)
        \/ port_read_resume(t)
        \/ port_read_timeout(t)
        \/ \E r \in RPort : port_close_read(t, r)
        \/ \E g \in Group : port_close_group(t, g)
        \/ port_close_resume(t)

Spec == Init /\ [][Next]_vars

-----------------------------------------------------------------------------

Live == {w \in WPort : wp[w].magic \in {"W", "X"}}

(***************************************************************************)
(* The links of ports agree in both directions, through every order of     *)
(* create (two ports of one name included), open, group, close and         *)
(* destroy: a write port has a buffer of its own exactly while it has no   *)
(* reader; it lists the open read ports that point to it; a group lists    *)
(* the read ports that point to it, except those port_group_remove() left  *)
(* pointing to it; and no read port is on two lists.                       *)
(***************************************************************************)
PortsLinked ==
    fault = "none" =>
    /\ Range(write_port_list) = Live
    /\ \A w \in Live :
        /\ wp[w].buf # NULL <=> wp[w].rp_list = <<>>
        /\ IsInjective(wp[w].rp_list)
        /\ \A r \in RPort : UsableR(r) => (r \in Range(wp[w].rp_list) <=> rp[r].wport = w)
        /\ \A r \in Range(wp[w].rp_list) : UsableR(r) /\ rp[r].buf # NULL
    /\ \A g \in Group, r \in RPort :
        r \in Range(pg[g].rp_list) <=> rp[r].gport = g /\ r \notin Stale /\ UsableR(r)

(***************************************************************************)
(* A packet that a unicast port has taken is read exactly once and in the  *)
(* order of the writes, by whichever reader comes: the buffer that moves   *)
(* between the write port and its successive readers holds just the        *)
(* packets between the last one read and the last one written.  The        *)
(* buffers of a broadcast port may have gaps, but keep the order.          *)
(***************************************************************************)
PacketsInOrder ==
    fault = "none" =>
    \A w \in Live :
        LET buf == IF wp[w].buf # NULL THEN wp[w].buf ELSE rp[wp[w].rp_list[1]].buf IN
        /\ wp[w].mode = "PORT_MODE_UNICAST" => buf = [i \in 1..(wrote[w] - got[w]) |-> got[w] + i]
        /\ \A r \in Range(wp[w].rp_list) : \A i \in 2..Len(rp[r].buf) : rp[r].buf[i - 1] < rp[r].buf[i]

(***************************************************************************)
(* No reader sleeps on a port with packets in it, unless another thread    *)
(* has been woken that will look there.  This is what port_write() and     *)
(* port_group_add() owe their readers; they keep it for every thread but   *)
(* those asleep when one wake-up was spent where two were needed.          *)
(***************************************************************************)
ReadersServed ==
    fault = "none" =>
    \A t \in Reading \ skipped :
        sched.state[t] = "BLOCKED" =>
        \A r \in Range(Sources(arg[t][1])) :
            rp[r].buf \in {NULL, <<>>} \/
            \E u \in Reading : /\ sched.state[u] = "READY" /\ sched.wait_queue_block_ret[u] = "NO_ERROR"
                               /\ r \in Range(Sources(arg[u][1]))

(***************************************************************************)
(* The comment in port_close(): "wake up waiters, the return code is       *)
(* ERR_OBJECT_DESTROYED".  Nobody inside port_read() of a port that has    *)
(* been freed goes on with the read.                                       *)
(***************************************************************************)
ClosedReadersReturn ==
    \A h \in Ports :
        (IF h \in RPort THEN rp[h].magic ELSE pg[h].magic) = "0" => StillReading(h, sched) = {}

=============================================================================
