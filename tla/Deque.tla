------------------------------- MODULE Deque --------------------------------
(***************************************************************************)
(* extras/c89atomic_deque.c: the work-stealing deque of Le et al. One      *)
(* thread, the owner, pushes and takes at the tail; thieves take at the    *)
(* head. Head and tail count up for ever in W bits and are compared as     *)
(* signed words. Every access to shared memory is a step of its own, on    *)
(* the memory of C11Memory, with the orders and fences of the code.        *)
(***************************************************************************)
EXTENDS Integers, Sequences

CONSTANTS
    Owner, Thief,
    W,              \* bits of head and tail: 32 in the code
    Capacity,       \* C89ATOMIC_DEQUE_CAP, a power of two
    Start,          \* head and tail of the empty deque it all begins with
    MaxPushes,      \* how often the owner pushes
    MaxTakes,       \* how often it takes
    MaxSteals       \* how often each thief does

VARIABLES
    history, current, acquired, released, order,    \* see C11Memory
    pc,
    head, tail, x,  \* the locals of each thread's call
    pushed,         \* the last item pushed: the owner pushes 1, 2, ...
    calls,          \* how often each thread has called a take
    taken           \* what its last successful take stored to *pValue

Thread == Thief \union {Owner}

Slot == 0 .. Capacity - 1

HEAD == <<"head", 0>>

TAIL == <<"tail", 0>>

\* What the items stand for: the owner writes it before it pushes an item, so
\* that version n + 1 is what item n stands for.
DATA == <<"data", 0>>

Location == ({"slot"} \X Slot) \union {HEAD, TAIL, DATA}

Memory == INSTANCE C11Memory

Item == 1 .. MaxPushes

NoItem == 0

locals == <<pc, head, tail, x>>

vars == <<Memory!memory, locals, pushed, calls, taken>>

-----------------------------------------------------------------------------
Modulus == 2^W

Index == 0 .. Modulus - 1

\* The code's capacity is a power of two, at most the counters' range. (That makes
\* 2^W even and a multiple of it, which is stated for the proofs.)
ASSUME DequeAssumption ==
    /\ Owner \notin Thief
    /\ Modulus \in Nat \ {0} /\ Modulus = 2 * (Modulus \div 2)
    /\ Capacity \in Nat \ {0} /\ Modulus % Capacity = 0
    /\ Start \in Index
    /\ MaxPushes \in Nat /\ MaxTakes \in Nat /\ MaxSteals \in Nat

Signed(i) == IF i >= Modulus \div 2 THEN i - Modulus ELSE i

Plus(i, n) == (i + n) % Modulus

SlotOf(i) == <<"slot", i % Capacity>>

Goto(t, l) == pc' = [pc EXCEPT ![t] = l]

Set(f, t, v) == [f EXCEPT ![t] = v]

\* A thread that stores to a location alone finds its own last value there.
OwnTail == Memory!Latest(TAIL)

\* A call that keeps nothing returns.
Done(t) ==
    /\ Goto(t, "idle")
    /\ head' = Set(head, t, 0)
    /\ tail' = Set(tail, t, 0)
    /\ x' = Set(x, t, NoItem)

Init ==
    /\ Memory!MemoryInit([l \in Location |->
            IF l \in {HEAD, TAIL} THEN Start ELSE NoItem])
    /\ pc = [t \in Thread |-> "idle"]
    /\ head = [t \in Thread |-> 0]
    /\ tail = [t \in Thread |-> 0]
    /\ x = [t \in Thread |-> NoItem]
    /\ pushed = 0
    /\ calls = [t \in Thread |-> 0]
    /\ taken = [t \in Thread |-> NoItem]

-----------------------------------------------------------------------------
(* push_tail(value)                                                        *)

\* Loads head and tail. A full deque is left as it is: OUT_OF_MEMORY.
PushLoadHead ==
    \E i \in Memory!Readable(Owner, HEAD) :
        /\ pc[Owner] = "idle"
        /\ pushed < MaxPushes
        /\ Memory!LoadAcquire(Owner, HEAD, i)
        /\ (OwnTail - Memory!Value(HEAD, i)) % Modulus < Capacity
        /\ pushed' = pushed + 1
        /\ x' = Set(x, Owner, pushed + 1)
        /\ tail' = Set(tail, Owner, OwnTail)
        /\ Goto(Owner, "push_data")
        /\ UNCHANGED <<head, calls, taken>>

PushFull ==
    \E i \in Memory!Readable(Owner, HEAD) :
        /\ pc[Owner] = "idle"
        /\ Memory!LoadAcquire(Owner, HEAD, i)
        /\ (OwnTail - Memory!Value(HEAD, i)) % Modulus >= Capacity
        /\ UNCHANGED <<locals, pushed, calls, taken>>

\* (Before the call, really, but only what follows can make it known.)
WriteData ==
    /\ pc[Owner] = "push_data"
    /\ Memory!Access(Owner, DATA, x[Owner])
    /\ Goto(Owner, "push_item")
    /\ UNCHANGED <<head, tail, x, pushed, calls, taken>>

PushStoreItem ==
    /\ pc[Owner] = "push_item"
    /\ Memory!StoreRelaxed(Owner, SlotOf(tail[Owner]), x[Owner])
    /\ Goto(Owner, "push_tail")
    /\ UNCHANGED <<head, tail, x, pushed, calls, taken>>

\* thread_fence(release) and the store of the tail.
PushStoreTail ==
    /\ pc[Owner] = "push_tail"
    /\ Memory!FenceReleaseStore(Owner, TAIL, Plus(tail[Owner], 1))
    /\ Done(Owner)
    /\ UNCHANGED <<pushed, calls, taken>>

-----------------------------------------------------------------------------
(* take_tail()                                                             *)

\* Mutant of TakeStoreTail: the tail does not wrap.
TakeStoreTailBelowZero ==
    /\ pc[Owner] = "idle"
    /\ calls[Owner] < MaxTakes
    /\ calls' = [calls EXCEPT ![Owner] = @ + 1]
    /\ tail' = Set(tail, Owner, OwnTail - 1)
    /\ Memory!StoreRelaxed(Owner, TAIL, OwnTail - 1)
    /\ Goto(Owner, "take_fence")
    /\ UNCHANGED <<head, x, pushed, taken>>

TakeStoreTail ==
    /\ pc[Owner] = "idle"
    /\ calls[Owner] < MaxTakes
    /\ calls' = [calls EXCEPT ![Owner] = @ + 1]
    /\ tail' = Set(tail, Owner, Plus(OwnTail, -1))
    /\ Memory!StoreRelaxed(Owner, TAIL, Plus(OwnTail, -1))
    /\ Goto(Owner, "take_fence")
    /\ UNCHANGED <<head, x, pushed, taken>>

\* Mutant of TakeFence: no fence.
TakeFenceMissing ==
    /\ pc[Owner] = "take_fence"
    /\ Goto(Owner, "take_head")
    /\ UNCHANGED <<history, current, acquired, released, order>>
    /\ UNCHANGED <<head, tail, x, pushed, calls, taken>>

TakeFence ==
    /\ pc[Owner] = "take_fence"
    /\ Memory!FenceSeqCst(Owner)
    /\ Goto(Owner, "take_head")
    /\ UNCHANGED <<head, tail, x, pushed, calls, taken>>

TakeLoadHead ==
    \E i \in Memory!Readable(Owner, HEAD) :
        LET h == Memory!Value(HEAD, i) IN
        /\ pc[Owner] = "take_head"
        /\ Memory!LoadRelaxed(Owner, HEAD, i)
        /\ head' = Set(head, Owner, h)
        /\ \/ /\ Signed(h) <= Signed(tail[Owner])
              /\ Goto(Owner, "take_item")
              /\ UNCHANGED taken
           \/ /\ Signed(h) > Signed(tail[Owner])
              /\ Goto(Owner, "restore")
              /\ taken' = Set(taken, Owner, NoItem)
        /\ UNCHANGED <<tail, x, pushed, calls>>

\* The element, which is the owner's unless it is the last one.
TakeLoadItem ==
    LET l == SlotOf(tail[Owner]) IN
    \E i \in Memory!Readable(Owner, l) :
        /\ pc[Owner] = "take_item"
        /\ Memory!LoadRelaxed(Owner, l, i)
        /\ \/ /\ head[Owner] = tail[Owner]
              /\ x' = Set(x, Owner, Memory!Value(l, i))
              /\ Goto(Owner, "take_race")
              /\ UNCHANGED <<head, tail, taken>>
           \/ /\ head[Owner] # tail[Owner]
              /\ taken' = Set(taken, Owner, Memory!Value(l, i))
              /\ Done(Owner)
        /\ UNCHANGED <<pushed, calls>>

\* The race against the thieves for the last element.
TakeRace ==
    /\ pc[Owner] = "take_race"
    /\ \/ /\ Memory!SwapSucceeds(Owner, HEAD, head[Owner], Plus(head[Owner], 1))
          /\ taken' = Set(taken, Owner, x[Owner])
       \/ /\ Memory!SwapFails(Owner, HEAD, head[Owner])
          /\ taken' = Set(taken, Owner, NoItem)
    /\ Goto(Owner, "restore")
    /\ UNCHANGED <<head, tail, x, pushed, calls>>

\* Won, lost, or empty: the tail goes back to where it was.
RestoreTail ==
    /\ pc[Owner] = "restore"
    /\ Memory!StoreRelaxed(Owner, TAIL, Plus(tail[Owner], 1))
    /\ Done(Owner)
    /\ UNCHANGED <<pushed, calls, taken>>

-----------------------------------------------------------------------------
(* take_head()                                                             *)

StealLoadHead(t) ==
    \E i \in Memory!Readable(t, HEAD) :
        /\ pc[t] = "idle"
        /\ calls[t] < MaxSteals
        /\ calls' = [calls EXCEPT ![t] = @ + 1]
        /\ Memory!LoadAcquire(t, HEAD, i)
        /\ head' = Set(head, t, Memory!Value(HEAD, i))
        /\ Goto(t, "steal_fence")
        /\ UNCHANGED <<tail, x, pushed, taken>>

StealFence(t) ==
    /\ pc[t] = "steal_fence"
    /\ Memory!FenceSeqCst(t)
    /\ Goto(t, "steal_tail")
    /\ UNCHANGED <<head, tail, x, pushed, calls, taken>>

\* Mutant of StealLoadTail: the tail is loaded relaxed, as the owner does.
StealLoadTailRelaxed(t) ==
    \E i \in Memory!Readable(t, TAIL) :
        /\ pc[t] = "steal_tail"
        /\ Memory!LoadRelaxed(t, TAIL, i)
        /\ IF Signed(head[t]) < Signed(Memory!Value(TAIL, i))
           THEN Goto(t, "steal_item") /\ UNCHANGED <<head, tail, x>>
           ELSE Done(t)
        /\ UNCHANGED <<pushed, calls, taken>>

\* NO_DATA_AVAILABLE, or on to the element.
StealLoadTail(t) ==
    \E i \in Memory!Readable(t, TAIL) :
        /\ pc[t] = "steal_tail"
        /\ Memory!LoadAcquire(t, TAIL, i)
        /\ IF Signed(head[t]) < Signed(Memory!Value(TAIL, i))
           THEN Goto(t, "steal_item") /\ UNCHANGED <<head, tail, x>>
           ELSE Done(t)
        /\ UNCHANGED <<pushed, calls, taken>>

StealLoadItem(t) ==
    LET l == SlotOf(head[t]) IN
    \E i \in Memory!Readable(t, l) :
        /\ pc[t] = "steal_item"
        /\ Memory!LoadRelaxed(t, l, i)
        /\ x' = Set(x, t, Memory!Value(l, i))
        /\ Goto(t, "steal_race")
        /\ UNCHANGED <<head, tail, pushed, calls, taken>>

\* SUCCESS or CANCELLED.
StealRace(t) ==
    /\ pc[t] = "steal_race"
    /\ \/ /\ Memory!SwapSucceeds(t, HEAD, head[t], Plus(head[t], 1))
          /\ taken' = Set(taken, t, x[t])
       \/ /\ Memory!SwapFails(t, HEAD, head[t])
          /\ UNCHANGED taken
    /\ Done(t)
    /\ UNCHANGED <<pushed, calls>>

-----------------------------------------------------------------------------
Push == PushLoadHead \/ PushFull \/ WriteData \/ PushStoreItem \/ PushStoreTail

Take ==
    \/ TakeStoreTail \/ TakeFence \/ TakeLoadHead
    \/ TakeLoadItem \/ TakeRace \/ RestoreTail

Steal(t) ==
    \/ StealLoadHead(t) \/ StealFence(t) \/ StealLoadTail(t)
    \/ StealLoadItem(t) \/ StealRace(t)

Next == Push \/ Take \/ \E t \in Thief : Steal(t)

Spec == Init /\ [][Next]_vars

-----------------------------------------------------------------------------
\* The tail, with what the owner has only reserved so far.
Reach ==
    IF pc[Owner] \in {"take_fence", "take_head", "take_item", "take_race", "restore"}
    THEN Plus(tail[Owner], 1) ELSE OwnTail

Queue ==
    LET first == Memory!Latest(HEAD) IN
    [k \in 1 .. (Reach - first) % Modulus |->
        Memory!Latest(SlotOf(Plus(first, k - 1)))]

\* The calls of take_tail that are past the step that decides what they return.
Undecided == {"take_fence", "take_head", "take_item", "take_race"}

Answers == IF pc[Owner] \in Undecided THEN calls[Owner] - 1 ELSE calls[Owner]

Abstract == INSTANCE WorkDeque WITH queue <- Queue, answers <- Answers

TypeOK ==
    /\ Memory!MemoryTypeOK
    /\ pc \in [Thread -> {"idle", "push_data", "push_item", "push_tail", "take_fence", "take_head",
                          "take_item", "take_race", "restore", "steal_fence",
                          "steal_tail", "steal_item", "steal_race"}]
    /\ {head, tail} \subseteq [Thread -> Index]
    /\ {x, taken} \subseteq [Thread -> Item \union {NoItem}]
    /\ pushed \in 0 .. MaxPushes
    /\ calls \in [Thread -> 0 .. MaxTakes + MaxSteals]

\* Who has taken an item is ordered after what its owner did before pushing it,
\* and may read what the item stands for: the tail that shows a thief an item
\* is never one of an earlier item in the same place.
PayloadVisible ==
    \A t \in Thread : taken[t] # NoItem => current[t][DATA] > taken[t]

\* The deque is a deque, on weak memory and with any number of thieves: every
\* element is taken once, the owner takes the newest and a thief the oldest,
\* nothing is overwritten, and an owner that finds nothing is right.
ImplementsDeque == Abstract!Spec
=============================================================================
