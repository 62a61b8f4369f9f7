----------------------------- MODULE RingBuffer -----------------------------
(***************************************************************************)
(* extras/c89atomic_ring_buffer.c: a single producer and a single consumer *)
(* share a buffer of 2 * capacity elements through two cursors of W bits,  *)
(* the most significant one being a loop flag. The producer is the only    *)
(* writer of the head, the consumer of the tail.                           *)
(*                                                                         *)
(* Memory is the C11 model of what the code asks for: a load of the other  *)
(* side's cursor returns any value it had since the one last loaded, and   *)
(* only an acquire load of a release store orders the accesses to the      *)
(* elements before the store against those after the load. Two accesses to *)
(* one element that nothing orders, one of them a write, are a data race.  *)
(***************************************************************************)
EXTENDS Integers, Sequences

CONSTANTS
    W,              \* bits of a cursor: 32 in the code
    Capacities,     \* as in BoundedFifo: 0 stands for a refused init
    Tags,
    StaleBound      \* commits and releases of nothing that go unnoticed

VARIABLES
    capacity, mirrored,     \* set by init
    element,    \* the buffer; in the second half when it is not mirrored
    cursor,     \* head and tail, as their owners see them
    log,        \* the stores to them since the one the other side acquired
    recent,     \* the accesses to elements since the last store
    raced,      \* whether there was a data race
    pc,         \* where each side is in its protocol
    count,      \* the elements it has mapped, or is about to unmap
    committed   \* the serial number of the first the producer will commit

vars == <<capacity, mirrored, element, cursor, log, recent, raced, pc, count,
          committed>>

Side == {"producer", "consumer"}

Other(s) == IF s = "producer" THEN "consumer" ELSE "producer"

-----------------------------------------------------------------------------
(* Cursors.                                                                *)

LoopFlag == 2^(W - 1)

Cursor == 0 .. 2 * LoopFlag - 1

\* init refuses a capacity that reaches the loop flag. (2^(W - 1) > 0 is stated
\* for the proofs.)
ASSUME RingBufferAssumption ==
    /\ LoopFlag \in Nat \ {0}
    /\ Capacities \subseteq 0 .. LoopFlag - 1
    /\ Tags \in Nat \ {0}

Index(c) == c % LoopFlag

Loop(c) == c \div LoopFlag

\* Mutant of Length: the loop flags are masked off and forgotten.
LengthUnflagged(head, tail, cap) == (Index(head) - Index(tail)) % (2 * LoopFlag)

\* calculate_length and calculate_remaining, in unsigned arithmetic.
Length(head, tail, cap) ==
    (Index(head) + (IF Loop(head) # Loop(tail) THEN cap ELSE 0) - Index(tail))
        % (2 * LoopFlag)

Remaining(head, tail, cap) == (cap - Length(head, tail, cap)) % (2 * LoopFlag)

Smaller(m, n) == IF m < n THEN m ELSE n

\* length(), on the head and the tail it loads.
ReportedLength(head, tail) == Smaller(Length(head, tail, capacity), capacity)

\* Mutant of Advanced: the cursor may rest on the end of the buffer.
AdvancedLate(c, n, cap) ==
    LET next == (c + n) % (2 * LoopFlag) IN
    IF Index(next) > cap THEN (next - cap + LoopFlag) % (2 * LoopFlag) ELSE next

\* head += count; if ((head & mask) >= capacity) {head -= capacity; flip;}
Advanced(c, n, cap) ==
    LET next == (c + n) % (2 * LoopFlag) IN
    IF Index(next) >= cap THEN (next - cap + LoopFlag) % (2 * LoopFlag) ELSE next

\* The place in memory of slot i, 0 <= i < 2 * capacity.
Place(i) == IF mirrored THEN i % capacity ELSE i

Places(from, n) == {Place(i) : i \in from .. from + n - 1}

\* By how much n elements from the cursor c on exceed the buffer.
Excess(c, n) ==
    IF ~mirrored /\ Index(c) + n > capacity THEN Index(c) + n - capacity ELSE 0

-----------------------------------------------------------------------------
(* Memory.                                                                 *)

NoAccess == [reads |-> {}, writes |-> {}]

\* Accesses of s that the other side is not ordered after.
Unordered(s, kind) ==
    recent[s][kind] \union UNION {log[s][i].accesses[kind] : i \in 2 .. Len(log[s])}

Access(s, reads, writes) ==
    LET o == Other(s) IN
    /\ recent' = [recent EXCEPT ![s] = [reads  |-> @.reads \union reads,
                                        writes |-> @.writes \union writes]]
    /\ raced' = (raced \/ writes \intersect Unordered(o, "reads") # {}
                       \/ (reads \union writes) \intersect Unordered(o, "writes") # {})

\* The stores of the other side that a load of its cursor may find.
Loadable(s) == 1 .. Len(log[Other(s)])

\* Mutant of Acquire: a relaxed load.
AcquireRelaxed(s, i) == UNCHANGED log

\* An acquire load of the i-th of them: what precedes that store is ordered.
Acquire(s, i) ==
    LET left == [log[Other(s)] EXCEPT ![i].accesses = NoAccess]
    IN  log' = [log EXCEPT ![Other(s)] = SubSeq(left, i, Len(left))]

Loaded(s, i) == log[Other(s)][i].cursor

\* Mutant of Release: a relaxed store.
ReleaseRelaxed(s) ==
    LET c == Advanced(cursor[s], count[s], capacity) IN
    /\ cursor' = [cursor EXCEPT ![s] = c]
    /\ log' = [log EXCEPT ![s] = Append(@, [cursor |-> c, accesses |-> NoAccess])]
    /\ UNCHANGED recent

\* Side s moves its own cursor, past the count elements it unmaps.
Release(s) ==
    LET c == Advanced(cursor[s], count[s], capacity) IN
    /\ cursor' = [cursor EXCEPT ![s] = c]
    /\ log' = [log EXCEPT ![s] = Append(@, [cursor |-> c, accesses |-> recent[s]])]
    /\ recent' = [recent EXCEPT ![s] = NoAccess]

-----------------------------------------------------------------------------
Init ==
    /\ capacity \in Capacities
    /\ mirrored \in BOOLEAN
    /\ element = [i \in 0 .. 2 * capacity - 1 |-> Tags]
    /\ cursor = [s \in Side |-> 0]
    /\ log = [s \in Side |-> <<[cursor |-> 0, accesses |-> NoAccess]>>]
    /\ recent = [s \in Side |-> NoAccess]
    /\ raced = FALSE
    /\ pc = [s \in Side |-> "idle"]
    /\ count = [s \in Side |-> 0]
    /\ committed = 0

Goto(s, l) == pc' = [pc EXCEPT ![s] = l]

\* Mutant of MapProduce: the count is clamped to the capacity.
MapProduceUnclamped(request, i) ==
    /\ pc["producer"] \in {"idle", "mapped", "filled"}
    /\ Acquire("producer", i)
    /\ count' = [count EXCEPT !["producer"] = Smaller(request, capacity)]
    /\ Goto("producer", "mapped")
    /\ UNCHANGED <<capacity, mirrored, element, cursor, recent, raced, committed>>

\* A mapping is only a pointer: the caller may map again without unmapping.
MapProduce(request, i) ==
    /\ pc["producer"] \in {"idle", "mapped", "filled"}
    /\ Acquire("producer", i)
    /\ count' = [count EXCEPT !["producer"] =
            Smaller(request, Remaining(cursor["producer"], Loaded("producer", i), capacity))]
    /\ Goto("producer", "mapped")
    /\ UNCHANGED <<capacity, mirrored, element, cursor, recent, raced, committed>>

\* The caller writes what it has mapped.
Fill ==
    LET from == Index(cursor["producer"])
        window == Places(from, count["producer"])
        serial(p) == committed + (CHOOSE k \in 0 .. count["producer"] - 1 : Place(from + k) = p)
    IN
    /\ pc["producer"] = "mapped"
    /\ element' = [p \in DOMAIN element |->
            IF p \in window THEN serial(p) % Tags ELSE element[p]]
    /\ Access("producer", {}, window)
    /\ Goto("producer", "filled")
    /\ UNCHANGED <<capacity, mirrored, cursor, log, count, committed>>

\* Mutant of UnmapProduce: what is behind the end of the buffer stays there.
UnmapProduceUncopied(n) ==
    /\ pc["producer"] = "filled"
    /\ n <= count["producer"]
    /\ n = 0 => Len(log["producer"]) < StaleBound
    /\ count' = [count EXCEPT !["producer"] = n]
    /\ Goto("producer", "unmapping")
    /\ UNCHANGED <<capacity, mirrored, element, cursor, log, recent, raced, committed>>

\* unmap_produce(n), up to the copy of what is behind the end of the buffer.
UnmapProduce(n) ==
    LET k == Excess(cursor["producer"], n) IN
    /\ pc["producer"] = "filled"
    /\ n <= count["producer"]
    /\ n = 0 => Len(log["producer"]) < StaleBound
    /\ element' = [p \in DOMAIN element |->
            IF p < k THEN element[capacity + p] ELSE element[p]]
    /\ Access("producer", capacity .. capacity + k - 1, 0 .. k - 1)
    /\ count' = [count EXCEPT !["producer"] = n]
    /\ Goto("producer", "unmapping")
    /\ UNCHANGED <<capacity, mirrored, cursor, log, committed>>

\* The store of the head that ends unmap_produce.
StoreHead ==
    /\ pc["producer"] = "unmapping"
    /\ Release("producer")
    /\ committed' = (committed + count["producer"]) % Tags
    /\ count' = [count EXCEPT !["producer"] = 0]
    /\ Goto("producer", "idle")
    /\ UNCHANGED <<capacity, mirrored, element, raced>>

\* map_consume, up to the copy.
MapConsume(request, i) ==
    /\ pc["consumer"] \in {"idle", "mapped"}
    /\ Acquire("consumer", i)
    /\ count' = [count EXCEPT !["consumer"] =
            Smaller(request, Length(Loaded("consumer", i), cursor["consumer"], capacity))]
    /\ Goto("consumer", "mapping")
    /\ UNCHANGED <<capacity, mirrored, element, cursor, recent, raced, committed>>

\* Mutant of CopyOverflow: one element short.
CopyOverflowShort ==
    LET from == Index(cursor["consumer"])
        k == Excess(cursor["consumer"], count["consumer"]) - 1
    IN
    /\ pc["consumer"] = "mapping"
    /\ element' = [p \in DOMAIN element |->
            IF p \in capacity .. capacity + k - 1 THEN element[p - capacity] ELSE element[p]]
    /\ Access("consumer", Places(from, count["consumer"]) \union 0 .. k - 1,
                          capacity .. capacity + k - 1)
    /\ Goto("consumer", "mapped")
    /\ UNCHANGED <<capacity, mirrored, cursor, log, count, committed>>

\* The copy of the start of the buffer behind its end, before map_consume
\* returns. The caller will read all that it has mapped.
CopyOverflow ==
    LET from == Index(cursor["consumer"])
        k == Excess(cursor["consumer"], count["consumer"])
    IN
    /\ pc["consumer"] = "mapping"
    /\ element' = [p \in DOMAIN element |->
            IF p \in capacity .. capacity + k - 1 THEN element[p - capacity] ELSE element[p]]
    /\ Access("consumer", Places(from, count["consumer"]) \union 0 .. k - 1,
                          capacity .. capacity + k - 1)
    /\ Goto("consumer", "mapped")
    /\ UNCHANGED <<capacity, mirrored, cursor, log, count, committed>>

\* unmap_consume(n), up to the store.
UnmapConsume(n) ==
    /\ pc["consumer"] = "mapped"
    /\ n <= count["consumer"]
    /\ n = 0 => Len(log["consumer"]) < StaleBound
    /\ count' = [count EXCEPT !["consumer"] = n]
    /\ Goto("consumer", "unmapping")
    /\ UNCHANGED <<capacity, mirrored, element, cursor, log, recent, raced, committed>>

\* The store of the tail that ends unmap_consume.
StoreTail ==
    /\ pc["consumer"] = "unmapping"
    /\ Release("consumer")
    /\ count' = [count EXCEPT !["consumer"] = 0]
    /\ Goto("consumer", "idle")
    /\ UNCHANGED <<capacity, mirrored, element, raced, committed>>

Request == 0 .. capacity + 1

Produce ==
    \/ \E n \in Request, i \in Loadable("producer") : MapProduce(n, i)
    \/ Fill
    \/ \E n \in Request : UnmapProduce(n)
    \/ StoreHead

Consume ==
    \/ \E n \in Request, i \in Loadable("consumer") : MapConsume(n, i)
    \/ CopyOverflow
    \/ \E n \in Request : UnmapConsume(n)
    \/ StoreTail

Next == Produce \/ Consume

Spec == Init /\ [][Next]_vars

-----------------------------------------------------------------------------
\* The elements between the tail and the head.
Queue ==
    [k \in 1 .. Length(cursor["producer"], cursor["consumer"], capacity) |->
        element[(Index(cursor["consumer"]) + k - 1) % capacity]]

Fifo == INSTANCE BoundedFifo WITH queue <- Queue

Accesses == [reads  : SUBSET (0 .. 2 * capacity - 1),
             writes : SUBSET (0 .. 2 * capacity - 1)]

TypeOK ==
    /\ capacity \in Capacities
    /\ mirrored \in BOOLEAN
    /\ element \in [0 .. 2 * capacity - 1 -> 0 .. Tags]
    /\ cursor \in [Side -> Cursor]
    /\ \A s \in Side : capacity > 0 => Index(cursor[s]) < capacity
    /\ log \in [Side -> Seq([cursor : Cursor, accesses : Accesses])]
    /\ recent \in [Side -> Accesses]
    /\ raced \in BOOLEAN
    /\ pc \in [Side -> {"idle", "mapping", "mapped", "filled", "unmapping"}]
    /\ count \in [Side -> 0 .. capacity]
    /\ committed \in 0 .. Tags - 1

\* The acquire loads and release stores of map and unmap order every two
\* conflicting accesses to an element, those of the copies at the looping
\* point included, although the other loads are relaxed.
NoDataRace == ~raced

\* While the consumer has elements mapped, contiguous memory shows it the
\* oldest committed elements, wherever the loop point falls and whatever the
\* producer is doing in the meantime.
WindowIsFront ==
    pc["consumer"] = "mapped" =>
        /\ count["consumer"] <= Len(Queue)
        /\ \A k \in 1 .. count["consumer"] :
            element[Place(Index(cursor["consumer"]) + k - 1)] = Queue[k]

\* The asserts of unmap_produce and unmap_consume hold of any number of
\* elements the caller may unmap, however stale the relaxed load they rely on.
AssertsHold ==
    /\ pc["producer"] = "filled" => \A i \in Loadable("producer") :
        count["producer"] <= Remaining(cursor["producer"], Loaded("producer", i), capacity)
    /\ pc["consumer"] = "mapped" => \A i \in Loadable("consumer") :
        count["consumer"] <= Length(Loaded("consumer", i), cursor["consumer"], capacity)

\* length(): called from either side, it tells the producer of no fewer
\* elements than there are and the consumer of no more, and the clamp to the
\* capacity never has anything to do.
LengthIsSafe ==
    LET Unclamped(head, tail) ==
            ReportedLength(head, tail) = Length(head, tail, capacity)
    IN
    /\ \A i \in Loadable("producer") :
        /\ Unclamped(cursor["producer"], Loaded("producer", i))
        /\ ReportedLength(cursor["producer"], Loaded("producer", i)) >= Len(Queue)
    /\ \A i \in Loadable("consumer") :
        /\ Unclamped(Loaded("consumer", i), cursor["consumer"])
        /\ ReportedLength(Loaded("consumer", i), cursor["consumer"]) <= Len(Queue)

\* The ring buffer is a bounded queue: an unmap_produce commits its elements
\* at once and in order, an unmap_consume releases the oldest, and nothing
\* else changes what is queued.
ImplementsFifo == Fifo!Spec
=============================================================================
