------------------------------ MODULE MCNetwork ------------------------------
(***************************************************************************)
(* The network for TLC: one connection of lib/minip/tcp.c, as module Tcp   *)
(* has it, one listening socket, or the driver of the virtio network       *)
(* device, one in each behaviour: `part' tells which.  A variable a        *)
(* behaviour has no use for is NULL.                                       *)
(***************************************************************************)
EXTENDS Tcp

CONSTANTS
    Acceptor, Connection,       \* of the listening socket
    Sender, WORKER              \* the threads that use the driver

VARIABLES
    part,
    state, ref, count, accepted, pc, taken, syn, free,  \* of TcpListen
    objects, free_list, next, pending, tx_pending_count, avail, used, last_used,
    irq_status, irq, completed_rx_queue, rx_event, th, hurt     \* of VirtioNet

listenVars == <<state, ref, count, accepted, pc, taken, syn, free>>

nicVars == <<objects, free_list, next, pending, tx_pending_count, avail, used, last_used,
             irq_status, irq, completed_rx_queue, rx_event, th, hurt>>
all == <<part, vars, listenVars, nicVars>>

Listen == INSTANCE TcpListen
Nic == INSTANCE VirtioNet WITH TX_RING_SIZE <- 4, RX_RING_SIZE <- 2, PKTBUF_POOL_SIZE <- 10

NoConnection ==
    /\ load = NULL /\ s = NULL /\ rx = NULL /\ firing = NULL /\ reader = NULL /\ writer = NULL /\ open = NULL
    /\ in = NULL /\ peer = NULL /\ got = NULL /\ written = NULL /\ early = NULL /\ fault = NULL
NoListen ==
    /\ state = NULL /\ ref = NULL /\ count = NULL /\ accepted = NULL
    /\ pc = NULL /\ taken = NULL /\ syn = NULL /\ free = NULL
NoNic ==
    /\ objects = NULL /\ free_list = NULL /\ next = NULL /\ pending = NULL /\ tx_pending_count = NULL
    /\ avail = NULL /\ used = NULL /\ last_used = NULL /\ irq_status = NULL /\ irq = NULL
    /\ completed_rx_queue = NULL /\ rx_event = NULL /\ th = NULL /\ hurt = NULL

NetInit ==
    \/ part = "connection" /\ Init /\ NoListen /\ NoNic
    \/ part = "listen" /\ Listen!Init /\ NoConnection /\ NoNic
    \/ part = "nic" /\ Nic!Init /\ NoConnection /\ NoListen

\* The steps of each part, which leave the others alone.
NetNext ==
    \/ part = "connection" /\ Next /\ UNCHANGED <<part, listenVars, nicVars>>
    \/ part = "listen" /\ Listen!Next /\ UNCHANGED <<part, vars, nicVars>>
    \/ part = "nic" /\ Nic!Next /\ UNCHANGED <<part, vars, listenVars>>

NetSpec == NetInit /\ [][NetNext]_all

-----------------------------------------------------------------------------

(***************************************************************************)
(* A connection of lib/minip/tcp.c over a network that loses, repeats and  *)
(* reorders: each side is given the bytes the other has written, in order  *)
(* and once, and the end of the stream after the last of them.             *)
(***************************************************************************)
StreamIntact == part = "connection" => StreamsIntact /\ EndsAreEnds

(***************************************************************************)
(* A connection of lib/minip/tcp.c never comes to rest with work to do: as *)
(* long as bytes are not acknowledged a retransmission is due, and nobody  *)
(* sleeps in tcp_read() or tcp_write() with data, with room or with the    *)
(* connection closed.  Nor does dev/virtio/net/virtio-net.c: what the      *)
(* device has used is announced, and the worker sees what was received.    *)
(***************************************************************************)
NothingStuck ==
    /\ part = "connection" => RetransmitArmed /\ WaitersAwake
    /\ part = "nic" => Nic!NicNotStuck

(***************************************************************************)
(* The reference count of a socket of lib/minip/tcp.c is the number of     *)
(* those who hold it: the program, the list of sockets, tcp_input() and    *)
(* the timers that are queued.                                             *)
(***************************************************************************)
SocketRefsExact == part = "connection" => RefsExact

(***************************************************************************)
(* A listening socket of lib/minip/tcp.c hands each connection it takes to *)
(* one caller of tcp_accept_timeout(), and none is overwritten in the slot.*)
(***************************************************************************)
SlotHandedOver == part = "listen" => Listen!SlotHandedOver

(***************************************************************************)
(* dev/virtio/net/virtio-net.c: descriptors and packet buffers are each in *)
(* one place, in a free list, with the device or with a thread, and those  *)
(* that were sent or received come back, in whatever order the device uses *)
(* them.                                                                   *)
(***************************************************************************)
NicExact == part = "nic" => Nic!NicExact
==============================================================================
