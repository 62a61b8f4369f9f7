------------------------------ MODULE SlotPool ------------------------------
(***************************************************************************)
(* What c89atomic_bitmap_allocator promises: a pool of slots, of which one *)
(* that is in use is given to nobody else before it has been freed, and    *)
(* freeing one slot frees no other.                                        *)
(***************************************************************************)
CONSTANTS Thread, Slot, NoSlot

VARIABLES
    used,       \* the slots in use
    given       \* the slot that the last call of each thread has given it

vars == <<used, given>>

Init ==
    /\ used = {}
    /\ given = [t \in Thread |-> NoSlot]

Allocate(t, s) ==
    /\ s \in Slot \ used
    /\ used' = used \union {s}
    /\ given' = [given EXCEPT ![t] = s]

\* t is in another call, and has nothing to show for it yet.
Call(t) ==
    /\ given' = [given EXCEPT ![t] = NoSlot]
    /\ UNCHANGED used

Free(s) ==
    /\ s \in used
    /\ used' = used \ {s}
    /\ UNCHANGED given

Next ==
    \/ \E t \in Thread : Call(t) \/ \E s \in Slot : Allocate(t, s)
    \/ \E s \in Slot : Free(s)

Spec == Init /\ [][Next]_vars
=============================================================================
