----------------------------- MODULE WorkDeque ------------------------------
(***************************************************************************)
(* What c89atomic_deque promises: a double-ended queue of at most Capacity *)
(* elements whose owner pushes and takes at the tail while any other       *)
(* thread takes the oldest element at the head. Every element is taken     *)
(* once, and the owner is told that there is none only when there is none. *)
(***************************************************************************)
EXTENDS Integers, Sequences

CONSTANTS Owner, Thief, Capacity, Item, NoItem

VARIABLES
    queue,
    taken,      \* the last thing each thread was given
    answers     \* how often the owner was given something or told that there is nothing

vars == <<queue, taken, answers>>

Init ==
    /\ queue = << >>
    /\ taken = [t \in Thief \union {Owner} |-> NoItem]
    /\ answers = 0

PushTail(x) ==
    /\ Len(queue) < Capacity
    /\ queue' = Append(queue, x)
    /\ UNCHANGED <<taken, answers>>

TakeTail ==
    /\ queue # << >>
    /\ queue' = SubSeq(queue, 1, Len(queue) - 1)
    /\ taken' = [taken EXCEPT ![Owner] = queue[Len(queue)]]
    /\ answers' = answers + 1

TakeTailEmpty ==
    /\ queue = << >>
    /\ taken' = [taken EXCEPT ![Owner] = NoItem]
    /\ answers' = answers + 1
    /\ UNCHANGED queue

TakeHead(t) ==
    /\ queue # << >>
    /\ queue' = Tail(queue)
    /\ taken' = [taken EXCEPT ![t] = Head(queue)]
    /\ UNCHANGED answers

Next ==
    \/ \E x \in Item : PushTail(x)
    \/ TakeTail
    \/ TakeTailEmpty
    \/ \E t \in Thief : TakeHead(t)

Spec == Init /\ [][Next]_vars
=============================================================================
