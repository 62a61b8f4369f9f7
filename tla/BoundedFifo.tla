---------------------------- MODULE BoundedFifo -----------------------------
(***************************************************************************)
(* What c89atomic_ring_buffer promises its two callers: a queue of at most *)
(* capacity elements, to which the producer commits runs of elements and   *)
(* from which the consumer releases runs of elements, in the same order.   *)
(***************************************************************************)
EXTENDS Integers, Sequences

CONSTANTS
    Capacities,     \* the capacities a ring buffer may be initialized with
    Tags            \* elements are told apart by their serial number % Tags

VARIABLES
    capacity,
    queue,          \* the committed elements that are not yet released
    committed       \* the serial number of the next element

vars == <<capacity, queue, committed>>

Init ==
    /\ capacity \in Capacities
    /\ queue = << >>
    /\ committed = 0

\* The producer commits its next n elements, all at once.
Commit(n) ==
    /\ Len(queue) + n <= capacity
    /\ queue' = queue \o [i \in 1..n |-> (committed + i - 1) % Tags]
    /\ committed' = (committed + n) % Tags
    /\ UNCHANGED capacity

\* The consumer gives the n oldest elements back.
Release(n) ==
    /\ n <= Len(queue)
    /\ queue' = SubSeq(queue, n + 1, Len(queue))
    /\ UNCHANGED <<capacity, committed>>

Next == \E n \in 0 .. capacity : Commit(n) \/ Release(n)

Spec == Init /\ [][Next]_vars
=============================================================================
