------------------------------ MODULE TcpListen ------------------------------
(***************************************************************************)
(* lib/minip/tcp.c: a listening socket.  The network thread puts the       *)
(* socket of a new connection into the one slot `accepted' and posts       *)
(* accept_sem; threads in tcp_accept_timeout() take it from there; the     *)
(* program closes the listening socket when it likes.                      *)
(***************************************************************************)
EXTENDS Naturals, FiniteSets

CONSTANTS
    Acceptor,
    Connection,     \* the sockets that create_tcp_socket() can allocate
    NULL

VARIABLES
    state,          \* STATE_LISTEN or STATE_CLOSED
    ref,            \* the references of the listening socket
    count,          \* accept_sem
    accepted,       \* the slot
    pc,             \* where each thread in tcp_accept_timeout() is
    taken,          \* history: the connections it has been given
    syn,            \* tcp_input() has looked up the listening socket for a SYN
    free            \* the sockets not allocated yet

vars == <<state, ref, count, accepted, pc, taken, syn, free>>

\* tcp_open_listen().
Init ==
    /\ state = "LISTEN"
    /\ ref = 1
    /\ count = 0
    /\ accepted = NULL
    /\ pc = [a \in Acceptor |-> "idle"]
    /\ taken = [a \in Acceptor |-> {}]
    /\ syn = FALSE
    /\ free = Connection

\* tcp_input() of a SYN: lookup_socket() finds the socket while it listens.
tcp_input ==
    /\ ~syn /\ state = "LISTEN"
    /\ syn' = TRUE
    /\ ref' = ref + 1
    /\ UNCHANGED <<state, count, accepted, pc, taken, free>>

\* Mutant of SlotFree: a connection that nobody has taken yet is overwritten.
SlotFree_Always == TRUE

SlotFree == accepted = NULL

\* The socket is closed by now, its slot is taken, or nothing can be allocated.
tcp_input_refused ==
    /\ syn
    /\ state = "CLOSED" \/ ~SlotFree \/ free = {}
    /\ syn' = FALSE
    /\ ref' = ref - 1
    /\ UNCHANGED <<state, count, accepted, pc, taken, free>>

tcp_input_accepted(c) ==
    /\ syn /\ state = "LISTEN" /\ SlotFree
    /\ c \in free
    /\ free' = free \ {c}
    /\ accepted' = c
    /\ count' = count + 1
    /\ syn' = FALSE
    /\ ref' = ref - 1
    /\ UNCHANGED <<state, pc, taken>>

\* The program calls with a handle it has not closed.
tcp_accept_timeout(a) ==
    /\ pc[a] = "idle" /\ state = "LISTEN"
    /\ pc' = [pc EXCEPT ![a] = "sem_timedwait"]
    /\ ref' = ref + 1
    /\ UNCHANGED <<state, count, accepted, taken, syn, free>>

tcp_accept_woken(a) ==
    /\ pc[a] = "sem_timedwait" /\ count > 0
    /\ pc' = [pc EXCEPT ![a] = "lock"]
    /\ count' = count - 1
    /\ UNCHANGED <<state, ref, accepted, taken, syn, free>>

tcp_accept_timed_out(a) ==
    /\ pc[a] = "sem_timedwait" /\ count = 0
    /\ pc' = [pc EXCEPT ![a] = "idle"]
    /\ ref' = ref - 1
    /\ UNCHANGED <<state, count, accepted, taken, syn, free>>

tcp_accept_locked(a) ==
    /\ pc[a] = "lock"
    /\ pc' = [pc EXCEPT ![a] = "idle"]
    /\ taken' = [taken EXCEPT ![a] = @ \cup {accepted}]
    /\ accepted' = NULL
    /\ ref' = ref - 1
    /\ UNCHANGED <<state, count, syn, free>>

\* tcp_wakeup_waiters() signals rx_event and tx_event, which nobody waits for here.
tcp_close ==
    /\ state = "LISTEN"
    /\ state' = "CLOSED"
    /\ ref' = ref - 1
    /\ UNCHANGED <<count, accepted, pc, taken, syn, free>>

Next ==
    \/ tcp_input \/ tcp_input_refused \/ tcp_close
    \/ \E c \in Connection : tcp_input_accepted(c)
    \/ \E a \in Acceptor :
        tcp_accept_timeout(a) \/ tcp_accept_woken(a) \/ tcp_accept_timed_out(a) \/ tcp_accept_locked(a)

Spec == Init /\ [][Next]_vars

(***************************************************************************)
(* No connection is lost in the slot between tcp_input() and               *)
(* tcp_accept_timeout(): a connection is in the slot exactly while one     *)
(* acceptor has been, or can be, let through accept_sem to take it (the    *)
(* assertion of tcp_accept_timeout() on `accepted'), and no two acceptors  *)
(* are given the same one.                                                 *)
(***************************************************************************)
SlotHandedOver ==
    /\ count + Cardinality({a \in Acceptor : pc[a] = "lock"}) = (IF accepted = NULL THEN 0 ELSE 1)
    /\ \A a, b \in Acceptor : a # b => taken[a] \cap taken[b] = {}
    /\ Connection \ free = ({accepted} \ {NULL}) \cup UNION {taken[a] : a \in Acceptor}

(***************************************************************************)
(* The comment of tcp_close(), "make sure anyone blocked on this wakes     *)
(* up": nobody waits in tcp_accept() on a closed socket, where no          *)
(* connection will come any more.  It does not hold.                       *)
(***************************************************************************)
AcceptorsWoken == state = "CLOSED" => \A a \in Acceptor : pc[a] = "sem_timedwait" => count > 0
=============================================================================
