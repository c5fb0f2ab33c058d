------------------------------ MODULE ByteQueue ------------------------------
(***************************************************************************)
(* What a circular buffer promises: a bounded queue of bytes.  "io" shows  *)
(* what the last transfer moved, so that an implementation has to take and *)
(* deliver the very bytes the queue does.                                  *)
(***************************************************************************)
EXTENDS Naturals, Sequences

CONSTANTS
    Byte,       \* 0 among them
    Cap         \* more than the queue ever holds

VARIABLES q, io
vars == <<q, io>>

None == [op |-> "none", bytes |-> <<>>]
Init == q = <<>> /\ io = None

\* Up to the free space is accepted.
Put ==
    \E n \in 0..Cap : \E s \in [1..n -> Byte] :
        /\ Len(q) + n < Cap
        /\ q' = q \o s
        /\ io' = [op |-> "put", bytes |-> s]

\* The oldest bytes are delivered.
Get ==
    \E n \in 1..Len(q) :
        /\ q' = SubSeq(q, n + 1, Len(q))
        /\ io' = [op |-> "get", bytes |-> SubSeq(q, 1, n)]

\* The oldest or the newest bytes are dropped.
Cut ==
    \E n \in 0..Len(q) :
        /\ q' \in {SubSeq(q, n + 1, Len(q)), SubSeq(q, 1, n)}
        /\ io' = None

\* Every byte is overwritten in place.
Wipe ==
    /\ Len(q') = Len(q)
    /\ q' \in [DOMAIN q -> Byte]
    /\ io' = None

Next == Put \/ Get \/ Cut \/ Wipe
Spec == Init /\ [][Next]_vars

=============================================================================
