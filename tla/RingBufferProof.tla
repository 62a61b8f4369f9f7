-------------------------- MODULE RingBufferProof ---------------------------
(***************************************************************************)
(* For cursors of any width, any capacity they can count twice, any number *)
(* of elements and any staleness: the ring buffer is a race-free queue.    *)
(***************************************************************************)
EXTENDS RingBuffer, SequenceTheorems, TLAPS

\* A cursor and a window of a whole buffer must not run into the loop flag.
\* init accepts twice as much: a run with a capacity of LoopFlag - 1 shows
\* what comes of it.
CapacityFits == \A c \in Capacities : 2 * c <= LoopFlag

-----------------------------------------------------------------------------
(* The inductive invariant. Positions are measured from the tail that the  *)
(* producer has acquired: nobody is behind it, or a lap ahead of it.       *)

\* By how much cursor c is ahead of cursor b.
Gap(c, b, cap) ==
    Index(c) - Index(b) + (IF Loop(c) # Loop(b) THEN cap ELSE 0)

\* By how much the element in place p is ahead of cursor b. (The places behind
\* the end of the buffer stand for those at its start.)
Offset(p, b, cap) ==
    LET q == IF p < cap THEN p ELSE p - cap IN
    IF Index(b) <= q THEN q - Index(b) ELSE q + cap - Index(b)

Sits(c, cap) == c \in Cursor /\ (Index(c) < cap \/ (cap = 0 /\ Index(c) = 0))

\* A log q that ends with the cursor c its owner sees, in order, and not a lap
\* ahead of b.
LogOrdered(q, c, b, cap) ==
    /\ Len(q) >= 1 /\ q[Len(q)].cursor = c
    /\ \A i \in 1 .. Len(q) :
        /\ Sits(q[i].cursor, cap)
        /\ Gap(q[i].cursor, b, cap) \in 0 .. cap
        /\ \A j \in i .. Len(q) : Gap(q[i].cursor, b, cap) <= Gap(q[j].cursor, b, cap)

Touched(a) == a.reads \union a.writes

\* An access is no older than the cursor stored before it,
AccessesAfter(q, c, rec, b, cap) ==
    /\ \A j \in 2 .. Len(q) : \A p \in Touched(q[j].accesses) :
        Gap(q[j - 1].cursor, b, cap) <= Offset(p, b, cap)
    /\ \A p \in Touched(rec) : Gap(c, b, cap) <= Offset(p, b, cap)

\* and those of the consumer stay behind a limit.
AccessesBefore(q, rec, b, limit, cap) ==
    /\ \A j \in 2 .. Len(q) : \A p \in Touched(q[j].accesses) : Offset(p, b, cap) < limit
    /\ \A p \in Touched(rec) : Offset(p, b, cap) < limit

Base == log["consumer"][1].cursor

\* The limit is the head that the consumer has acquired.
Limit == Gap(log["producer"][1].cursor, Base, capacity)

LogsOrdered == \A s \in Side : LogOrdered(log[s], cursor[s], Base, capacity)

\* Neither side maps more than the other has left it.
WindowsApart ==
    /\ Gap(cursor["consumer"], Base, capacity) + count["consumer"] <= Limit
    /\ Gap(cursor["producer"], Base, capacity) + count["producer"] <= capacity

AccessesApart ==
    /\ \A s \in Side : AccessesAfter(log[s], cursor[s], recent[s], Base, capacity)
    /\ AccessesBefore(log["consumer"], recent["consumer"], Base, Limit, capacity)

\* What the producer has filled, and what it is about to commit.
FilledInOrder ==
    LET from == Index(cursor["producer"])
        Tag(k) == (committed + k) % Tags
    IN
    /\ pc["producer"] = "filled" =>
        \A k \in 0 .. count["producer"] - 1 : element[Place(from + k)] = Tag(k)
    /\ pc["producer"] = "unmapping" =>
        \A k \in 0 .. count["producer"] - 1 :
            element[(from + k) % capacity] = Tag(k)

\* Wherever the copy behind the end is used, it is a copy.
FrontCopied ==
    pc["consumer"] = "mapped" =>
        \A k \in 0 .. count["consumer"] - 1 :
            LET i == Index(cursor["consumer"]) + k IN
            element[Place(i)] = element[i % capacity]

SidesTyped ==
    /\ pc["producer"] \in {"idle", "mapped", "filled", "unmapping"}
    /\ pc["consumer"] \in {"idle", "mapping", "mapped", "unmapping"}

IInv ==
    /\ TypeOK /\ SidesTyped
    /\ LogsOrdered /\ WindowsApart
    /\ AccessesApart /\ NoDataRace
    /\ FilledInOrder /\ FrontCopied

-----------------------------------------------------------------------------
(* Arithmetic of cursors.                                                  *)

\* Division, as far as the code goes: of less than twice the divisor.
LEMMA DivMod ==
    ASSUME NEW m \in Nat \ {0}, NEW x \in Nat, x < 2 * m
    PROVE  /\ x % m = IF x < m THEN x ELSE x - m
           /\ x \div m = IF x < m THEN 0 ELSE 1
<1>1. CASE x < m
    BY <1>1
<1>2. CASE m <= x
    BY <1>2
<1>3. QED
    BY <1>1, <1>2

\* A remainder is less than the divisor.
LEMMA ModRange ==
    ASSUME NEW x \in Int, NEW m \in Nat \ {0}
    PROVE  x % m \in 0 .. m - 1
    OBVIOUS

\* A cursor is an index and a loop flag,
LEMMA CursorParts ==
    ASSUME NEW c \in Cursor
    PROVE  /\ Index(c) \in 0 .. LoopFlag - 1 /\ Loop(c) \in {0, 1}
           /\ c = Index(c) + (IF Loop(c) = 1 THEN LoopFlag ELSE 0)
<1>1. LoopFlag \in Nat \ {0} /\ c \in Nat /\ c < 2 * LoopFlag
    BY RingBufferAssumption DEF Cursor
<1>2. Index(c) = c % LoopFlag /\ Loop(c) = c \div LoopFlag
    BY DEF Index, Loop
<1>3. /\ Index(c) = IF c < LoopFlag THEN c ELSE c - LoopFlag
      /\ Loop(c) = IF c < LoopFlag THEN 0 ELSE 1
    BY <1>1, <1>2, DivMod
<1>4. QED
    BY <1>1, <1>3

\* and any two of these make one.
LEMMA MakeCursor ==
    ASSUME NEW x \in 0 .. LoopFlag - 1, NEW l \in {0, 1},
           NEW c, c = x + (IF l = 1 THEN LoopFlag ELSE 0)
    PROVE  c \in Cursor /\ Index(c) = x /\ Loop(c) = l
<1>1. LoopFlag \in Nat \ {0} /\ c \in Nat /\ c < 2 * LoopFlag /\ c \in Cursor
    BY RingBufferAssumption DEF Cursor
<1>2. Index(c) = c % LoopFlag /\ Loop(c) = c \div LoopFlag
    BY DEF Index, Loop
<1>3. /\ Index(c) = IF c < LoopFlag THEN c ELSE c - LoopFlag
      /\ Loop(c) = IF c < LoopFlag THEN 0 ELSE 1
    BY <1>1, <1>2, DivMod
<1>4. QED
    BY <1>1, <1>3

\* Advancing a cursor moves its index around the buffer, and flips its loop
\* flag when that passes the end.
LEMMA AdvancedParts ==
    ASSUME NEW cap \in Nat, 2 * cap <= LoopFlag,
           NEW c, Sits(c, cap), NEW n \in 0 .. cap
    PROVE  LET d == Advanced(c, n, cap)
               x == Index(c) + n
           IN  /\ Sits(d, cap)
               /\ Index(d) = (IF x >= cap THEN x - cap ELSE x)
               /\ Loop(d) = (IF x >= cap THEN 1 - Loop(c) ELSE Loop(c))
<1> DEFINE d == Advanced(c, n, cap)
           x == Index(c) + n
           f == IF Loop(c) = 1 THEN LoopFlag ELSE 0
           next == (c + n) % (2 * LoopFlag)
           M == 2 * LoopFlag
<1>1. /\ LoopFlag \in Nat \ {0} /\ M \in Nat \ {0} /\ c \in Cursor
      /\ Index(c) \in 0 .. LoopFlag - 1 /\ Loop(c) \in {0, 1} /\ c = Index(c) + f
      /\ x \in Nat /\ (cap > 0 => x < 2 * cap) /\ (cap = 0 => x = 0)
    BY CursorParts, RingBufferAssumption DEF Sits
<1>2. x \in 0 .. LoopFlag - 1 /\ f \in {0, LoopFlag}
    BY <1>1
<1>3. next = x + f
    <2>1. c + n = x + f /\ x + f \in Nat /\ x + f < M
        BY <1>1, <1>2
    <2>2. (x + f) % M = x + f
        <3> HIDE DEF x, f, M
        <3>1. QED
            BY <1>1, <2>1, DivMod
    <2>3. QED
        BY <2>1, <2>2
<1>4. d = IF Index(next) >= cap THEN (next - cap + LoopFlag) % M ELSE next
    BY DEF Advanced
<1> HIDE DEF x, next, M, d
<1>5. next \in Cursor /\ Index(next) = x /\ Loop(next) = Loop(c)
    BY <1>1, <1>2, <1>3, MakeCursor
<1>6. CASE x < cap
    BY <1>1, <1>4, <1>5, <1>6 DEF Sits, d, x
<1>7. CASE x >= cap
    <2>1. d = (x + f - cap + LoopFlag) % M
        BY <1>1, <1>3, <1>4, <1>5, <1>7
    <2>2. x - cap \in 0 .. LoopFlag - 1 /\ (x - cap < cap \/ (cap = 0 /\ x - cap = 0))
        BY <1>1, <1>2, <1>7
    <2>3. d = x - cap + (IF 1 - Loop(c) = 1 THEN LoopFlag ELSE 0)
        <3>1. CASE Loop(c) = 0
            <4>1. /\ x + f - cap + LoopFlag = x - cap + LoopFlag
                  /\ x - cap + LoopFlag \in Nat /\ x - cap + LoopFlag < M
                BY <1>1, <2>2, <3>1 DEF M
            <4>2. PICK y : y = x - cap + LoopFlag /\ y \in Nat /\ y < M /\ y < 2 * M
                BY <1>1, <4>1
            <4>3. y % M = y
                BY <1>1, <4>2, DivMod
            <4>4. QED
                BY <2>1, <3>1, <4>1, <4>2, <4>3
        <3>2. CASE Loop(c) = 1
            <4>1. /\ x + f - cap + LoopFlag = x - cap + M
                  /\ x - cap + M \in Nat /\ x - cap + M < 2 * M /\ M <= x - cap + M
                BY <1>1, <2>2, <3>2 DEF M
            <4>2. PICK y : y = x - cap + M /\ y \in Nat /\ ~(y < M) /\ y < 2 * M
                BY <1>1, <4>1
            <4>3. y % M = y - M
                BY <1>1, <4>2, DivMod
            <4>4. QED
                BY <1>1, <2>1, <2>2, <3>2, <4>1, <4>2, <4>3
        <3>3. QED
            BY <1>1, <3>1, <3>2
    <2>4. 1 - Loop(c) \in {0, 1}
        BY <1>1
    <2>5. d \in Cursor /\ Index(d) = x - cap /\ Loop(d) = 1 - Loop(c)
        BY <2>2, <2>3, <2>4, MakeCursor
    <2>6. QED
        BY <2>2, <2>5, <1>7 DEF Sits, d, x
<1>8. QED
    BY <1>1, <1>6, <1>7

\* calculate_length and calculate_remaining tell the distance of two cursors
\* of which the tail is behind the head, and not by more than the capacity.
LEMMA LengthIsGap ==
    ASSUME NEW cap \in Nat, 2 * cap <= LoopFlag, NEW h \in Cursor, NEW t \in Cursor,
           Gap(h, t, cap) \in 0 .. cap
    PROVE  Length(h, t, cap) = Gap(h, t, cap) /\ Remaining(h, t, cap) = cap - Gap(h, t, cap)
<1> DEFINE g == Gap(h, t, cap)
           M == 2 * LoopFlag
<1>1. /\ M \in Nat \ {0} /\ g \in Nat /\ g < M /\ cap - g \in Nat /\ cap - g < M
      /\ g < 2 * M /\ cap - g < 2 * M
    BY RingBufferAssumption
<1>2. Index(h) \in Int /\ Index(t) \in Int
    BY CursorParts
<1>3. g = Index(h) + (IF Loop(h) # Loop(t) THEN cap ELSE 0) - Index(t)
    BY <1>2 DEF Gap
<1>4. Length(h, t, cap) = g % M
    BY <1>3 DEF Length
<1> HIDE DEF g, M
<1>5. Length(h, t, cap) = g
    BY <1>1, <1>4, DivMod
<1>6. Remaining(h, t, cap) = (cap - g) % M
    BY <1>5 DEF Remaining, M
<1>7. Remaining(h, t, cap) = cap - g
    BY <1>1, <1>6, DivMod
<1>8. QED
    BY <1>5, <1>7 DEF g

-----------------------------------------------------------------------------
(* Distances.                                                              *)

\* A cursor is not ahead of itself, nor in a buffer of no elements of another.
LEMMA GapType ==
    ASSUME NEW cap \in Nat, NEW c, Sits(c, cap), NEW b, Sits(b, cap)
    PROVE  /\ Gap(c, b, cap) \in Int /\ Gap(c, c, cap) = 0
           /\ cap = 0 => Gap(c, b, cap) = 0
    BY CursorParts DEF Gap, Sits

\* What is ahead of a and of b is that much less ahead of b as b is of a.
LEMMA GapShift ==
    ASSUME NEW cap \in Nat, NEW a, Sits(a, cap), NEW b, Sits(b, cap), NEW c, Sits(c, cap),
           Gap(b, a, cap) >= 0, Gap(b, a, cap) <= Gap(c, a, cap), Gap(c, a, cap) <= cap
    PROVE  Gap(c, b, cap) = Gap(c, a, cap) - Gap(b, a, cap)
    BY CursorParts DEF Gap, Sits

\* A cursor that is advanced by n is n further ahead.
LEMMA GapAdvance ==
    ASSUME NEW cap \in Nat, 2 * cap <= LoopFlag, NEW b, Sits(b, cap), NEW c, Sits(c, cap),
           NEW n \in Nat, Gap(c, b, cap) >= 0, Gap(c, b, cap) + n <= cap
    PROVE  /\ Sits(Advanced(c, n, cap), cap)
           /\ Gap(Advanced(c, n, cap), b, cap) = Gap(c, b, cap) + n
<1>1. /\ Index(c) \in Nat /\ Index(b) \in Nat /\ Loop(c) \in {0, 1} /\ Loop(b) \in {0, 1}
      /\ Index(c) < cap \/ (cap = 0 /\ Index(c) = 0)
      /\ Index(b) < cap \/ (cap = 0 /\ Index(b) = 0)
      /\ Gap(c, b, cap) \in Int /\ n \in 0 .. cap
    BY CursorParts, GapType DEF Sits
<1>2. LET d == Advanced(c, n, cap)
          x == Index(c) + n
      IN  /\ Sits(d, cap)
          /\ Index(d) = (IF x >= cap THEN x - cap ELSE x)
          /\ Loop(d) = (IF x >= cap THEN 1 - Loop(c) ELSE Loop(c))
    BY <1>1, AdvancedParts
<1>3. QED
    BY <1>1, <1>2 DEF Gap

\* No element is a lap ahead.
LEMMA OffsetType ==
    ASSUME NEW cap \in Nat, NEW b, Sits(b, cap), NEW p \in 0 .. 2 * cap - 1
    PROVE  Offset(p, b, cap) \in 0 .. cap - 1
    BY CursorParts DEF Offset, Sits

\* As GapShift, for elements.
LEMMA OffsetShift ==
    ASSUME NEW cap \in Nat, NEW a, Sits(a, cap), NEW b, Sits(b, cap),
           NEW p \in 0 .. 2 * cap - 1,
           Gap(b, a, cap) >= 0, Gap(b, a, cap) <= Offset(p, a, cap)
    PROVE  Offset(p, b, cap) = Offset(p, a, cap) - Gap(b, a, cap)
    BY CursorParts DEF Offset, Gap, Sits

\* The element k after cursor c, in its place at or behind the end of the
\* buffer or at its start.
LEMMA OffsetOfElement ==
    ASSUME NEW cap \in Nat, NEW b, Sits(b, cap), NEW c, Sits(c, cap),
           NEW k \in Nat, Gap(c, b, cap) >= 0, Gap(c, b, cap) + k < cap
    PROVE  LET x == Index(c) + k IN
           /\ x \in 0 .. 2 * cap - 1 /\ x % cap = (IF x < cap THEN x ELSE x - cap)
           /\ x % cap \in 0 .. cap - 1
           /\ Offset(x, b, cap) = Gap(c, b, cap) + k
           /\ Offset(x % cap, b, cap) = Gap(c, b, cap) + k
<1> DEFINE x == Index(c) + k
<1>1. /\ Index(c) \in Nat /\ Index(b) \in Nat /\ Loop(c) \in {0, 1} /\ Loop(b) \in {0, 1}
      /\ Gap(c, b, cap) \in Int /\ cap \in Nat \ {0} /\ k < cap
      /\ Index(c) < cap /\ Index(b) < cap
    BY CursorParts, GapType DEF Sits
<1>2. x \in Nat /\ x < 2 * cap
    BY <1>1
<1>3. x % cap = IF x < cap THEN x ELSE x - cap
    <2> HIDE DEF x
    <2>1. QED
        BY <1>1, <1>2, DivMod
<1>4. Offset(x, b, cap) = Gap(c, b, cap) + k
    BY <1>1, <1>2 DEF Offset, Gap
<1>5. Offset(x % cap, b, cap) = Offset(x, b, cap)
    BY <1>1, <1>2, <1>3 DEF Offset
<1>6. QED
    BY <1>1, <1>2, <1>3, <1>4, <1>5

-----------------------------------------------------------------------------
(* Logs, positions and accesses.                                           *)

AccessesOf(cap) == [reads : SUBSET (0 .. 2 * cap - 1), writes : SUBSET (0 .. 2 * cap - 1)]

Entries(cap) == [cursor : Cursor, accesses : AccessesOf(cap)]

\* What an acquire load of the i-th store leaves of log q.
IsSuffix(r, q, i, cap) ==
    /\ i \in 1 .. Len(q) /\ q \in Seq(Entries(cap)) /\ r \in Seq(Entries(cap))
    /\ Len(r) = Len(q) - i + 1
    /\ \A j \in 1 .. Len(r) : r[j].cursor = q[i + j - 1].cursor
    /\ \A j \in 2 .. Len(r) : r[j].accesses = q[i + j - 1].accesses

\* The model's Acquire leaves a suffix, rid of its first accesses.
LEMMA AcquiredLog ==
    ASSUME NEW cap \in Nat, NEW q \in Seq(Entries(cap)), NEW i \in 1 .. Len(q),
           NEW left, left = [q EXCEPT ![i].accesses = NoAccess],
           NEW r, r = SubSeq(left, i, Len(left))
    PROVE  IsSuffix(r, q, i, cap)
<1>1. NoAccess \in AccessesOf(cap)
    BY DEF NoAccess, AccessesOf
<1>2. q[i] \in Entries(cap)
    BY ElementOfSeq
<1>3. [q[i] EXCEPT !.accesses = NoAccess] \in Entries(cap)
    BY <1>1, <1>2 DEF Entries
<1>4. left \in Seq(Entries(cap)) /\ Len(left) = Len(q)
    <2>1. left = [q EXCEPT ![i] = [q[i] EXCEPT !.accesses = NoAccess]]
        OBVIOUS
    <2>2. QED
        BY <1>3, <2>1, ExceptSeq
<1>5. \A j \in 1 .. Len(q) : /\ left[j].cursor = q[j].cursor
                             /\ j # i => left[j].accesses = q[j].accesses
    <2>1. \A j \in 1 .. Len(q) : q[j] \in Entries(cap)
        BY ElementOfSeq
    <2>2. DOMAIN q = 1 .. Len(q)
        BY LenProperties
    <2>3. QED
        BY <2>1, <2>2 DEF Entries
<1>6. /\ r \in Seq(Entries(cap)) /\ Len(r) = Len(q) - i + 1
      /\ \A j \in 1 .. Len(r) : r[j] = left[i + j - 1]
    <2>1. Len(left) \in Nat
        BY <1>4, LenProperties
    <2>2. QED
        BY <1>4, <2>1, SubSeqProperties
<1>7. Len(q) \in Nat
    BY LenProperties
<1>8. \A j \in 1 .. Len(r) : i + j - 1 \in 1 .. Len(q) /\ (j \in 2 .. Len(r) => i + j - 1 # i)
    <2>1. PICK m, n : m = Len(r) /\ n = Len(q) /\ m = n - i + 1 /\ n \in Nat /\ i \in 1 .. n
        BY <1>6, <1>7
    <2>2. \A j \in 1 .. m : i + j - 1 \in 1 .. n /\ (j \in 2 .. m => i + j - 1 # i)
        BY <2>1
    <2>3. QED
        BY <2>1, <2>2
<1>9. ASSUME NEW j \in 1 .. Len(r) PROVE r[j].cursor = q[i + j - 1].cursor
    <2>1. PICK k : k = i + j - 1 /\ k \in 1 .. Len(q) /\ r[j] = left[k]
        BY <1>6, <1>8
    <2>2. left[k].cursor = q[k].cursor
        BY <1>5, <2>1
    <2>3. QED
        BY <2>1, <2>2
<1>10. ASSUME NEW j \in 2 .. Len(r) PROVE r[j].accesses = q[i + j - 1].accesses
    <2>1. PICK n : n = Len(r) /\ n \in Int
        BY <1>6, <1>7
    <2>2. j \in 1 .. n
        BY <2>1
    <2>3. r[j] = left[i + j - 1] /\ i + j - 1 \in 1 .. Len(q) /\ i + j - 1 # i
        BY <1>6, <1>8, <2>1, <2>2
    <2>4. QED
        BY <1>5, <2>3
<1>11. QED
    BY <1>6, <1>9, <1>10 DEF IsSuffix

\* The accesses of an entry are within the buffer.
LEMMA EntryType ==
    ASSUME NEW cap \in Nat, NEW q \in Seq(Entries(cap))
    PROVE  /\ Len(q) \in Nat
           /\ \A j \in 1 .. Len(q) :
                /\ q[j].cursor \in Cursor /\ q[j].accesses \in AccessesOf(cap)
                /\ \A p \in Touched(q[j].accesses) : p \in 0 .. 2 * cap - 1
<1>1. Len(q) \in Nat /\ \A j \in 1 .. Len(q) : q[j] \in Entries(cap)
    BY LenProperties, ElementOfSeq
<1>2. QED
    BY <1>1 DEF Entries, AccessesOf, Touched

\* A suffix of an ordered log is ordered, and has the accesses of the log.
LEMMA Shortened ==
    ASSUME NEW cap \in Nat, NEW q, NEW r, NEW i, IsSuffix(r, q, i, cap),
           NEW c, NEW b, LogOrdered(q, c, b, cap)
    PROVE  /\ LogOrdered(r, c, b, cap)
           /\ r[1].cursor = q[i].cursor
           /\ Gap(q[i].cursor, b, cap) \in 0 .. cap
           /\ Gap(q[1].cursor, b, cap) <= Gap(q[i].cursor, b, cap)
           /\ \A rec : AccessesAfter(q, c, rec, b, cap) => AccessesAfter(r, c, rec, b, cap)
           /\ \A rec, limit :
                AccessesBefore(q, rec, b, limit, cap) => AccessesBefore(r, rec, b, limit, cap)
<1> USE DEF IsSuffix
<1>1. /\ Len(q) \in Nat /\ Len(r) \in Nat /\ Len(r) >= 1
      /\ i + Len(r) - 1 = Len(q)
    BY EntryType
<1>2. \A j \in 1 .. Len(r) : i + j - 1 \in 1 .. Len(q)
    BY <1>1
<1>3. LogOrdered(r, c, b, cap)
    <2>1. r[Len(r)].cursor = c
        <3>1. r[Len(r)].cursor = q[i + Len(r) - 1].cursor
            BY <1>1
        <3>2. q[Len(q)].cursor = c
            BY DEF LogOrdered
        <3>3. QED
            BY <1>1, <3>1, <3>2
    <2>2. ASSUME NEW j \in 1 .. Len(r)
          PROVE  /\ Sits(r[j].cursor, cap)
                 /\ Gap(r[j].cursor, b, cap) \in 0 .. cap
        BY <1>2 DEF LogOrdered
    <2>3. ASSUME NEW j \in 1 .. Len(r), NEW k \in j .. Len(r)
          PROVE  Gap(r[j].cursor, b, cap) <= Gap(r[k].cursor, b, cap)
        <3>1. i + j - 1 \in 1 .. Len(q) /\ i + k - 1 \in i + j - 1 .. Len(q)
            <4>1. PICK m, n : /\ m = Len(r) /\ n = Len(q) /\ m \in Nat /\ n \in Nat
                              /\ i + m - 1 = n /\ i \in 1 .. n /\ j \in 1 .. m /\ k \in j .. m
                BY <1>1
            <4>2. i + j - 1 \in 1 .. n /\ i + k - 1 \in i + j - 1 .. n
                BY <4>1
            <4>3. QED
                BY <4>1, <4>2
        <3>2. r[j].cursor = q[i + j - 1].cursor /\ r[k].cursor = q[i + k - 1].cursor
            BY <1>1
        <3>3. QED
            BY <3>1, <3>2 DEF LogOrdered
    <2>4. QED
        BY <1>1, <2>1, <2>2, <2>3 DEF LogOrdered
<1>4. ASSUME NEW j \in 2 .. Len(r)
      PROVE  /\ i + j - 1 \in 2 .. Len(q) /\ r[j].accesses = q[i + j - 1].accesses
             /\ r[j - 1].cursor = q[(i + j - 1) - 1].cursor
    <2>1. j - 1 \in 1 .. Len(r) /\ i + (j - 1) - 1 = (i + j - 1) - 1
        BY <1>1
    <2>2. r[j - 1].cursor = q[i + (j - 1) - 1].cursor
        BY <2>1
    <2>3. i + j - 1 \in 2 .. Len(q)
        BY <1>1
    <2>4. QED
        BY <2>1, <2>2, <2>3
<1>5. ASSUME NEW rec, AccessesAfter(q, c, rec, b, cap)
      PROVE  AccessesAfter(r, c, rec, b, cap)
    BY <1>4, <1>5 DEF AccessesAfter
<1>6. ASSUME NEW rec, NEW limit, AccessesBefore(q, rec, b, limit, cap)
      PROVE  AccessesBefore(r, rec, b, limit, cap)
    BY <1>4, <1>6 DEF AccessesBefore
<1>7. /\ r[1].cursor = q[i].cursor /\ Gap(q[i].cursor, b, cap) \in 0 .. cap
      /\ Gap(q[1].cursor, b, cap) <= Gap(q[i].cursor, b, cap)
    <2>1. r[1].cursor = q[i + 1 - 1].cursor /\ i + 1 - 1 = i /\ 1 \in 1 .. Len(q)
          /\ i \in 1 .. Len(q)
        BY <1>1
    <2>2. QED
        BY <2>1 DEF LogOrdered
<1>8. QED
    BY <1>3, <1>5, <1>6, <1>7

\* A log seen from b, when it is all ahead of b, instead of from a.
IsAhead(q, c, a, b, cap) ==
    /\ q \in Seq(Entries(cap)) /\ LogOrdered(q, c, a, cap)
    /\ Sits(a, cap) /\ Sits(b, cap)
    /\ 0 <= Gap(b, a, cap) /\ Gap(b, a, cap) <= Gap(q[1].cursor, a, cap)

\* An ordered log is ordered as seen from further on, and so are its accesses.
LEMMA Rebased ==
    ASSUME NEW cap \in Nat, NEW q, NEW c, NEW a, NEW b, IsAhead(q, c, a, b, cap)
    PROVE  /\ Gap(c, b, cap) = Gap(c, a, cap) - Gap(b, a, cap)
           /\ Gap(q[1].cursor, b, cap) = Gap(q[1].cursor, a, cap) - Gap(b, a, cap)
           /\ LogOrdered(q, c, b, cap)
           /\ \A rec \in AccessesOf(cap) :
                /\ AccessesAfter(q, c, rec, a, cap) => AccessesAfter(q, c, rec, b, cap)
                /\ \A limit \in Int :
                    AccessesAfter(q, c, rec, a, cap) /\ AccessesBefore(q, rec, a, limit, cap)
                        => AccessesBefore(q, rec, b, limit - Gap(b, a, cap), cap)
<1> USE DEF IsAhead
<1>1. PICK g : g = Gap(b, a, cap)
    OBVIOUS
<1>2. g \in Nat
    BY <1>1, GapType
<1>3. Len(q) \in Nat /\ Len(q) >= 1
    BY EntryType DEF LogOrdered
<1>4. ASSUME NEW j \in 1 .. Len(q)
      PROVE  /\ Gap(q[j].cursor, a, cap) \in 0 .. cap
             /\ g <= Gap(q[j].cursor, a, cap)
             /\ Gap(q[j].cursor, b, cap) = Gap(q[j].cursor, a, cap) - g
    <2>1. /\ Sits(q[j].cursor, cap) /\ Gap(q[j].cursor, a, cap) \in 0 .. cap
          /\ Gap(q[1].cursor, a, cap) \in 0 .. cap
          /\ Gap(q[1].cursor, a, cap) <= Gap(q[j].cursor, a, cap)
        BY <1>3 DEF LogOrdered
    <2>2. g <= Gap(q[j].cursor, a, cap)
        BY <1>1, <1>2, <2>1
    <2>3. QED
        BY <1>1, <2>1, <2>2, GapShift
<1>5. ASSUME NEW p \in 0 .. 2 * cap - 1, g <= Offset(p, a, cap)
      PROVE  Offset(p, b, cap) = Offset(p, a, cap) - g
    BY <1>1, <1>5, OffsetShift
<1>6. LogOrdered(q, c, b, cap)
    <2>1. ASSUME NEW j \in 1 .. Len(q)
          PROVE  Sits(q[j].cursor, cap) /\ Gap(q[j].cursor, b, cap) \in 0 .. cap
        BY <1>2, <1>4 DEF LogOrdered
    <2>2. ASSUME NEW j \in 1 .. Len(q), NEW k \in j .. Len(q)
          PROVE  Gap(q[j].cursor, b, cap) <= Gap(q[k].cursor, b, cap)
        <3>1. k \in 1 .. Len(q)
            BY <1>3
        <3>2. Gap(q[j].cursor, a, cap) <= Gap(q[k].cursor, a, cap)
            BY DEF LogOrdered
        <3>3. QED
            BY <1>2, <1>4, <3>1, <3>2
    <2>3. QED
        BY <2>1, <2>2 DEF LogOrdered
<1>7. /\ c = q[Len(q)].cursor /\ Gap(c, a, cap) \in 0 .. cap /\ g <= Gap(c, a, cap)
      /\ Gap(c, b, cap) = Gap(c, a, cap) - g
    BY <1>3, <1>4 DEF LogOrdered
<1>8. \A rec \in AccessesOf(cap) : \A p \in Touched(rec) : p \in 0 .. 2 * cap - 1
    BY DEF AccessesOf, Touched
<1>9. ASSUME NEW rec \in AccessesOf(cap), AccessesAfter(q, c, rec, a, cap)
      PROVE  /\ \A j \in 2 .. Len(q) : \A p \in Touched(q[j].accesses) :
                    /\ Offset(p, b, cap) = Offset(p, a, cap) - g
                    /\ Offset(p, a, cap) \in Int
                    /\ Gap(q[j - 1].cursor, b, cap) <= Offset(p, b, cap)
             /\ \A p \in Touched(rec) :
                    /\ Offset(p, b, cap) = Offset(p, a, cap) - g
                    /\ Offset(p, a, cap) \in Int
                    /\ Gap(c, b, cap) <= Offset(p, b, cap)
    <2>1. ASSUME NEW j \in 2 .. Len(q), NEW p \in Touched(q[j].accesses)
          PROVE  /\ Offset(p, b, cap) = Offset(p, a, cap) - g
                 /\ Offset(p, a, cap) \in Int
                 /\ Gap(q[j - 1].cursor, b, cap) <= Offset(p, b, cap)
        <3>1. j - 1 \in 1 .. Len(q) /\ j \in 1 .. Len(q)
            BY <1>3
        <3>2. p \in 0 .. 2 * cap - 1
            BY <3>1, EntryType
        <3>3. Offset(p, a, cap) \in Int
            BY <3>2, OffsetType
        <3>4. Gap(q[j - 1].cursor, a, cap) <= Offset(p, a, cap)
            BY <1>9 DEF AccessesAfter
        <3>5. /\ Gap(q[j - 1].cursor, a, cap) \in 0 .. cap
              /\ g <= Gap(q[j - 1].cursor, a, cap)
              /\ Gap(q[j - 1].cursor, b, cap) = Gap(q[j - 1].cursor, a, cap) - g
            BY <1>4, <3>1
        <3>6. QED
            BY <1>2, <1>5, <3>2, <3>3, <3>4, <3>5
    <2>2. ASSUME NEW p \in Touched(rec)
          PROVE  /\ Offset(p, b, cap) = Offset(p, a, cap) - g
                 /\ Offset(p, a, cap) \in Int
                 /\ Gap(c, b, cap) <= Offset(p, b, cap)
        <3>1. p \in 0 .. 2 * cap - 1
            BY <1>8
        <3>2. Offset(p, a, cap) \in Int
            BY <3>1, OffsetType
        <3>3. Gap(c, a, cap) <= Offset(p, a, cap)
            BY <1>9 DEF AccessesAfter
        <3>4. QED
            BY <1>2, <1>5, <1>7, <3>1, <3>2, <3>3
    <2>3. QED
        BY <2>1, <2>2
<1>10. ASSUME NEW rec \in AccessesOf(cap), AccessesAfter(q, c, rec, a, cap)
       PROVE  AccessesAfter(q, c, rec, b, cap)
    BY <1>9, <1>10 DEF AccessesAfter
<1>11. ASSUME NEW rec \in AccessesOf(cap), NEW limit \in Int,
              AccessesAfter(q, c, rec, a, cap), AccessesBefore(q, rec, a, limit, cap)
       PROVE  AccessesBefore(q, rec, b, limit - g, cap)
    <2>1. ASSUME NEW p, Offset(p, b, cap) = Offset(p, a, cap) - g, Offset(p, a, cap) \in Int,
                 Offset(p, a, cap) < limit
          PROVE  Offset(p, b, cap) < limit - g
        BY <1>2, <2>1
    <2>2. QED
        BY <1>9, <1>11, <2>1 DEF AccessesBefore
<1>12. QED
    BY <1>1, <1>3, <1>4, <1>6, <1>7, <1>10, <1>11

\* A store to a cursor that moves by n and hands on the recent accesses.
IsExtension(r, d, q, c, n, rec, b, cap) ==
    /\ q \in Seq(Entries(cap)) /\ rec \in AccessesOf(cap) /\ n \in Nat
    /\ Sits(b, cap) /\ LogOrdered(q, c, b, cap) /\ Gap(c, b, cap) + n <= cap
    /\ d = Advanced(c, n, cap)
    /\ r = Append(q, [cursor |-> d, accesses |-> rec])

\* An ordered log stays ordered when it is extended, and so do its accesses.
LEMMA Extended ==
    ASSUME NEW cap \in Nat, 2 * cap <= LoopFlag,
           NEW r, NEW d, NEW q, NEW c, NEW n, NEW rec, NEW b,
           IsExtension(r, d, q, c, n, rec, b, cap)
    PROVE  /\ r \in Seq(Entries(cap)) /\ r[1] = q[1]
           /\ Gap(d, b, cap) = Gap(c, b, cap) + n
           /\ LogOrdered(r, d, b, cap)
           /\ AccessesAfter(q, c, rec, b, cap) => AccessesAfter(r, d, NoAccess, b, cap)
           /\ \A limit : AccessesBefore(q, rec, b, limit, cap)
                            => AccessesBefore(r, NoAccess, b, limit, cap)
<1> USE DEF IsExtension
<1> DEFINE e == [cursor |-> d, accesses |-> rec]
<1>1. Len(q) \in Nat /\ Len(q) >= 1 /\ c = q[Len(q)].cursor
    BY EntryType DEF LogOrdered
<1>2. Sits(c, cap) /\ Gap(c, b, cap) \in 0 .. cap
    BY <1>1 DEF LogOrdered
<1>3. Sits(d, cap) /\ Gap(d, b, cap) = Gap(c, b, cap) + n
    BY <1>2, GapAdvance
<1>4. e \in Entries(cap)
    BY <1>3 DEF Entries, Sits
<1>5. /\ r \in Seq(Entries(cap)) /\ Len(r) = Len(q) + 1
      /\ \A j \in 1 .. Len(q) : r[j] = q[j]
      /\ r[Len(q) + 1].cursor = d /\ r[Len(q) + 1].accesses = rec
    BY <1>4, AppendProperties
<1>6. ASSUME NEW j \in 1 .. Len(q)
      PROVE  /\ r[j].cursor = q[j].cursor
             /\ Sits(q[j].cursor, cap) /\ Gap(q[j].cursor, b, cap) \in 0 .. cap
             /\ Gap(q[j].cursor, b, cap) <= Gap(c, b, cap)
             /\ \A k \in j .. Len(q) : Gap(q[j].cursor, b, cap) <= Gap(q[k].cursor, b, cap)
    <2>1. Len(q) \in j .. Len(q)
        BY <1>1
    <2>2. QED
        BY <1>1, <1>5, <2>1 DEF LogOrdered
<1>7. Gap(d, b, cap) \in 0 .. cap /\ Gap(c, b, cap) <= Gap(d, b, cap)
    BY <1>2, <1>3
<1>8. LogOrdered(r, d, b, cap)
    <2>1. ASSUME NEW j \in 1 .. Len(r)
          PROVE  /\ Sits(r[j].cursor, cap) /\ Gap(r[j].cursor, b, cap) \in 0 .. cap
                 /\ \A k \in j .. Len(r) : Gap(r[j].cursor, b, cap) <= Gap(r[k].cursor, b, cap)
        <3>1. CASE j = Len(q) + 1
            <4>1. r[j].cursor = d /\ \A k \in j .. Len(r) : k = j
                BY <1>1, <1>5, <3>1
            <4>2. QED
                BY <1>3, <1>7, <4>1
        <3>2. CASE j # Len(q) + 1
            <4>1. j \in 1 .. Len(q)
                BY <1>1, <1>5, <3>2
            <4>2. ASSUME NEW k \in j .. Len(r)
                  PROVE  Gap(r[j].cursor, b, cap) <= Gap(r[k].cursor, b, cap)
                <5>1. CASE k = Len(q) + 1
                    BY <1>2, <1>5, <1>6, <1>7, <4>1, <5>1
                <5>2. CASE k # Len(q) + 1
                    <6>1. k \in j .. Len(q) /\ k \in 1 .. Len(q)
                        BY <1>1, <1>5, <4>1, <5>2
                    <6>2. QED
                        BY <1>6, <4>1, <6>1
                <5>3. QED
                    BY <5>1, <5>2
            <4>3. QED
                BY <1>6, <4>1, <4>2
        <3>3. QED
            BY <3>1, <3>2
    <2>2. QED
        BY <1>1, <1>5, <2>1 DEF LogOrdered
<1>9. ASSUME NEW j \in 2 .. Len(r)
      PROVE  \/ /\ j \in 2 .. Len(q) /\ r[j].accesses = q[j].accesses
                /\ r[j - 1].cursor = q[j - 1].cursor
             \/ r[j].accesses = rec /\ r[j - 1].cursor = c
    <2>1. CASE j = Len(q) + 1
        BY <1>1, <1>5, <2>1
    <2>2. CASE j # Len(q) + 1
        <3>1. j \in 2 .. Len(q) /\ j \in 1 .. Len(q) /\ j - 1 \in 1 .. Len(q)
            BY <1>1, <1>5, <2>2
        <3>2. QED
            BY <1>5, <3>1
    <2>3. QED
        BY <2>1, <2>2
<1>10. Touched(NoAccess) = {}
    BY DEF Touched, NoAccess
<1>11. ASSUME AccessesAfter(q, c, rec, b, cap) PROVE AccessesAfter(r, d, NoAccess, b, cap)
    BY <1>9, <1>10, <1>11 DEF AccessesAfter
<1>12. ASSUME NEW limit, AccessesBefore(q, rec, b, limit, cap)
       PROVE  AccessesBefore(r, NoAccess, b, limit, cap)
    BY <1>9, <1>10, <1>12 DEF AccessesBefore
<1>13. r[1] = q[1]
    BY <1>1, <1>5
<1>14. QED
    BY <1>3, <1>5, <1>8, <1>11, <1>12, <1>13

-----------------------------------------------------------------------------
(* What loads, stores and accesses do to the invariant.                    *)

\* There are two sides.
LEMMA Sides == /\ "producer" \in Side /\ "consumer" \in Side
               /\ \A s \in Side : s = "producer" \/ s = "consumer"
               /\ Other("producer") = "consumer" /\ Other("consumer") = "producer"
    BY DEF Side, Other

\* What the invariant says of every cursor that is in use, in one place.
LEMMA StateFacts ==
    ASSUME CapacityFits, TypeOK, LogsOrdered, WindowsApart
    PROVE  /\ capacity \in Nat /\ 2 * capacity <= LoopFlag
           /\ log \in [Side -> Seq(Entries(capacity))]
           /\ recent \in [Side -> AccessesOf(capacity)]
           /\ Sits(Base, capacity) /\ Gap(Base, Base, capacity) = 0
           /\ \A s \in Side :
                /\ Len(log[s]) \in Nat \ {0}
                /\ cursor[s] \in Cursor /\ Sits(cursor[s], capacity)
                /\ cursor[s] = log[s][Len(log[s])].cursor
                /\ Gap(cursor[s], Base, capacity) \in 0 .. capacity
                /\ count[s] \in 0 .. capacity
                /\ Sits(log[s][1].cursor, capacity)
                /\ \A i \in 1 .. Len(log[s]) :
                    /\ Sits(log[s][i].cursor, capacity)
                    /\ Gap(log[s][i].cursor, Base, capacity) \in 0 .. capacity
                    /\ Gap(log[s][1].cursor, Base, capacity)
                        <= Gap(log[s][i].cursor, Base, capacity)
                    /\ Gap(log[s][i].cursor, Base, capacity)
                        <= Gap(cursor[s], Base, capacity)
           /\ Limit \in 0 .. capacity
           /\ Gap(cursor["consumer"], Base, capacity) <= Limit
           /\ Limit <= Gap(cursor["producer"], Base, capacity)
<1>1. capacity \in Nat /\ 2 * capacity <= LoopFlag
    BY RingBufferAssumption DEF TypeOK, CapacityFits
<1>2. log \in [Side -> Seq(Entries(capacity))] /\ recent \in [Side -> AccessesOf(capacity)]
    BY DEF TypeOK, Entries, Accesses, AccessesOf
<1>3. \A s \in Side : /\ Len(log[s]) \in Nat \ {0}
                      /\ count[s] \in 0 .. capacity
                      /\ log[s] \in Seq(Entries(capacity))
    BY <1>2, EntryType DEF LogsOrdered, LogOrdered, TypeOK
<1>4. ASSUME NEW s \in Side, NEW i \in 1 .. Len(log[s])
      PROVE  /\ Sits(log[s][i].cursor, capacity)
             /\ Gap(log[s][i].cursor, Base, capacity) \in 0 .. capacity
             /\ Gap(log[s][1].cursor, Base, capacity) <= Gap(log[s][i].cursor, Base, capacity)
             /\ Gap(log[s][i].cursor, Base, capacity) <= Gap(cursor[s], Base, capacity)
    <2>1. LogOrdered(log[s], cursor[s], Base, capacity) /\ Len(log[s]) \in Nat \ {0}
        BY <1>3 DEF LogsOrdered
    <2>2. i \in 1 .. Len(log[s]) /\ Len(log[s]) \in i .. Len(log[s]) /\ 1 \in 1 .. Len(log[s])
        BY <2>1
    <2>3. QED
        BY <2>1, <2>2 DEF LogOrdered
<1>5. ASSUME NEW s \in Side
      PROVE  /\ cursor[s] = log[s][Len(log[s])].cursor
             /\ Sits(cursor[s], capacity) /\ cursor[s] \in Cursor
             /\ Sits(log[s][1].cursor, capacity)
             /\ Gap(cursor[s], Base, capacity) \in 0 .. capacity
    <2>1. 1 \in 1 .. Len(log[s]) /\ Len(log[s]) \in 1 .. Len(log[s])
        BY <1>3
    <2>2. cursor[s] = log[s][Len(log[s])].cursor
        BY DEF LogsOrdered, LogOrdered
    <2>3. QED
        BY <1>4, <2>1, <2>2 DEF Sits
<1>6. Sits(Base, capacity) /\ Gap(Base, Base, capacity) = 0
    BY <1>1, <1>5, Sides, GapType DEF Base
<1>7. Limit \in 0 .. capacity /\ Limit <= Gap(cursor["producer"], Base, capacity)
    <2>1. 1 \in 1 .. Len(log["producer"])
        BY <1>3, Sides
    <2>2. QED
        BY <1>4, <2>1, Sides DEF Limit
<1>8. Gap(cursor["consumer"], Base, capacity) <= Limit
    <2>1. count["consumer"] \in Nat /\ Gap(cursor["consumer"], Base, capacity) \in Nat
        BY <1>3, <1>5, Sides
    <2>2. QED
        BY <1>7, <2>1 DEF WindowsApart
<1>9. QED
    BY <1>1, <1>2, <1>3, <1>4, <1>5, <1>6, <1>7, <1>8

\* A load replaces the log of the other side by a suffix, and keeps one's own.
LEMMA AcquireLog ==
    ASSUME CapacityFits, TypeOK, LogsOrdered, WindowsApart,
           NEW s \in Side, NEW i \in Loadable(s), Acquire(s, i)
    PROVE  /\ IsSuffix(log'[Other(s)], log[Other(s)], i, capacity)
           /\ log' \in [Side -> Seq(Entries(capacity))] /\ log'[s] = log[s]
           /\ Loaded(s, i) = log[Other(s)][i].cursor
<1> PICK o, q, left, r : /\ o = Other(s) /\ q = log[o]
                         /\ left = [q EXCEPT ![i].accesses = NoAccess]
                         /\ r = SubSeq(left, i, Len(left))
    OBVIOUS
<1>1. capacity \in Nat /\ log \in [Side -> Seq(Entries(capacity))]
    BY StateFacts
<1>2. o \in Side /\ o # s
    BY Sides DEF Other
<1>3. q \in Seq(Entries(capacity)) /\ i \in 1 .. Len(q)
    BY <1>1, <1>2 DEF Loadable
<1>4. log' = [log EXCEPT ![o] = r]
    BY DEF Acquire
<1>5. IsSuffix(r, q, i, capacity)
    BY <1>1, <1>3, AcquiredLog
<1>6. r \in Seq(Entries(capacity))
    BY <1>5 DEF IsSuffix
<1>7. log' \in [Side -> Seq(Entries(capacity))] /\ log'[s] = log[s] /\ log'[o] = r
    BY <1>1, <1>2, <1>4, <1>6
<1>8. QED
    BY <1>5, <1>7 DEF Loaded

\* The producer learns of a later tail: everybody is that much less ahead.
LEMMA ProducerAcquires ==
    ASSUME CapacityFits, TypeOK, LogsOrdered, WindowsApart, AccessesApart,
           NEW i \in Loadable("producer"), Acquire("producer", i),
           capacity' = capacity, cursor' = cursor, recent' = recent
    PROVE  /\ log' \in [Side -> Seq(Entries(capacity))]
           /\ Base' = Loaded("producer", i)
           /\ LogsOrdered' /\ AccessesApart'
           /\ Gap(cursor["consumer"], Base', capacity) + count["consumer"] <= Limit'
<1> PICK q, r, qp, a, b, g, cap, lim, tail, head, recc, recp :
        /\ q = log["consumer"] /\ r = log'["consumer"] /\ qp = log["producer"]
        /\ a = Base /\ b = Loaded("producer", i) /\ cap = capacity
        /\ g = Gap(b, a, cap) /\ lim = Limit
        /\ tail = cursor["consumer"] /\ head = cursor["producer"]
        /\ recc = recent["consumer"] /\ recp = recent["producer"]
    OBVIOUS
<1>1. /\ IsSuffix(r, q, i, cap) /\ b = q[i].cursor
      /\ log' \in [Side -> Seq(Entries(cap))] /\ log'["producer"] = qp
    BY AcquireLog, Sides
<1>2. /\ cap \in Nat /\ q \in Seq(Entries(cap)) /\ qp \in Seq(Entries(cap))
      /\ recp \in AccessesOf(cap) /\ recc \in AccessesOf(cap)
      /\ lim \in Int /\ Sits(a, cap)
      /\ count["consumer"] \in Nat
      /\ Gap(tail, a, cap) \in 0 .. cap /\ Gap(tail, a, cap) <= lim
    BY StateFacts, Sides
<1>3. /\ LogOrdered(q, tail, a, cap) /\ LogOrdered(qp, head, a, cap)
      /\ AccessesAfter(q, tail, recc, a, cap)
      /\ AccessesAfter(qp, head, recp, a, cap)
      /\ AccessesBefore(q, recc, a, lim, cap)
      /\ lim = Gap(qp[1].cursor, a, cap)
    BY Sides DEF LogsOrdered, AccessesApart, Limit
<1>4. /\ LogOrdered(r, tail, a, cap)
      /\ AccessesAfter(r, tail, recc, a, cap)
      /\ AccessesBefore(r, recc, a, lim, cap)
      /\ r[1].cursor = b /\ g \in 0 .. cap
    BY <1>1, <1>2, <1>3, Shortened
<1>5. Sits(b, cap) /\ g <= Gap(tail, a, cap)
    <2>1. i \in 1 .. Len(q)
        BY <1>1 DEF IsSuffix
    <2>2. Len(q) \in i .. Len(q)
        BY <2>1, <1>2, EntryType
    <2>3. QED
        BY <1>1, <1>3, <2>1, <2>2 DEF LogOrdered
<1>6. IsAhead(r, tail, a, b, cap) /\ IsAhead(qp, head, a, b, cap)
    <2>1. r \in Seq(Entries(cap))
        BY <1>1 DEF IsSuffix
    <2>2. g <= lim
        BY <1>2, <1>4, <1>5
    <2>3. QED
        BY <1>2, <1>3, <1>4, <1>5, <2>1, <2>2 DEF IsAhead
<1>7. /\ LogOrdered(r, tail, b, cap)
      /\ AccessesAfter(r, tail, recc, b, cap)
      /\ AccessesBefore(r, recc, b, lim - g, cap)
      /\ Gap(tail, b, cap) = Gap(tail, a, cap) - g
    BY <1>2, <1>4, <1>6, Rebased
<1>8. /\ LogOrdered(qp, head, b, cap)
      /\ AccessesAfter(qp, head, recp, b, cap)
      /\ Gap(qp[1].cursor, b, cap) = lim - g
    BY <1>2, <1>3, <1>6, Rebased
<1>9. Base' = b /\ Limit' = lim - g
    BY <1>1, <1>4, <1>8 DEF Base, Limit
<1>10. LogsOrdered'
    BY <1>1, <1>7, <1>8, <1>9, Sides DEF LogsOrdered
<1>11. AccessesApart'
    BY <1>1, <1>7, <1>8, <1>9, Sides DEF AccessesApart
<1>12. Gap(tail, b, cap) + count["consumer"] <= Limit'
    <2>1. Gap(tail, a, cap) + count["consumer"] <= lim
        BY DEF WindowsApart
    <2>2. QED
        BY <1>2, <1>4, <1>7, <1>9, <2>1
<1>13. QED
    BY <1>1, <1>9, <1>10, <1>11, <1>12

\* The consumer learns of a later head: the limit moves on.
LEMMA ConsumerAcquires ==
    ASSUME CapacityFits, TypeOK, LogsOrdered, WindowsApart, AccessesApart,
           NEW i \in Loadable("consumer"), Acquire("consumer", i),
           capacity' = capacity, cursor' = cursor, recent' = recent
    PROVE  /\ log' \in [Side -> Seq(Entries(capacity))]
           /\ Base' = Base /\ Limit' = Gap(Loaded("consumer", i), Base, capacity)
           /\ Limit <= Limit' /\ Limit' \in 0 .. capacity
           /\ LogsOrdered' /\ AccessesApart'
<1> PICK q, r, qc, a, b, cap, lim, lim2, tail, head, recc, recp :
        /\ q = log["producer"] /\ r = log'["producer"] /\ qc = log["consumer"]
        /\ a = Base /\ cap = capacity /\ b = Loaded("consumer", i)
        /\ lim = Limit /\ lim2 = Gap(b, a, cap)
        /\ tail = cursor["consumer"] /\ head = cursor["producer"]
        /\ recc = recent["consumer"] /\ recp = recent["producer"]
    OBVIOUS
<1>1. /\ IsSuffix(r, q, i, cap) /\ b = q[i].cursor
      /\ log' \in [Side -> Seq(Entries(cap))] /\ log'["consumer"] = qc
    BY AcquireLog, Sides
<1>2. /\ cap \in Nat /\ qc \in Seq(Entries(cap)) /\ recc \in AccessesOf(cap)
      /\ lim \in Int /\ Sits(a, cap)
    BY StateFacts, Sides
<1>3. /\ LogOrdered(qc, tail, a, cap) /\ LogOrdered(q, head, a, cap)
      /\ AccessesAfter(qc, tail, recc, a, cap)
      /\ AccessesAfter(q, head, recp, a, cap)
      /\ AccessesBefore(qc, recc, a, lim, cap)
      /\ lim = Gap(q[1].cursor, a, cap)
    BY Sides DEF LogsOrdered, AccessesApart, Limit
<1>4. /\ LogOrdered(r, head, a, cap)
      /\ AccessesAfter(r, head, recp, a, cap)
      /\ r[1].cursor = b /\ lim2 \in 0 .. cap /\ lim <= lim2
    BY <1>1, <1>2, <1>3, Shortened
<1>5. Base' = a /\ Limit' = lim2
    BY <1>1, <1>4 DEF Base, Limit
<1>6. AccessesBefore(qc, recc, a, lim2, cap)
    <2>1. ASSUME NEW j \in 2 .. Len(qc), NEW p \in Touched(qc[j].accesses)
          PROVE  Offset(p, a, cap) \in Int
        <3>1. j \in 1 .. Len(qc)
            BY <1>2, EntryType
        <3>2. p \in 0 .. 2 * cap - 1
            BY <1>2, <3>1, EntryType
        <3>3. QED
            BY <1>2, <3>2, OffsetType
    <2>2. ASSUME NEW p \in Touched(recc) PROVE Offset(p, a, cap) \in Int
        <3>1. p \in 0 .. 2 * cap - 1
            BY <1>2 DEF AccessesOf, Touched
        <3>2. QED
            BY <1>2, <3>1, OffsetType
    <2>3. \A x \in Int : x < lim => x < lim2
        BY <1>2, <1>4
    <2>4. QED
        BY <1>3, <2>1, <2>2, <2>3 DEF AccessesBefore
<1>7. LogsOrdered'
    BY <1>1, <1>3, <1>4, <1>5, Sides DEF LogsOrdered
<1>8. AccessesApart'
    BY <1>1, <1>3, <1>4, <1>5, <1>6, Sides DEF AccessesApart
<1>9. QED
    BY <1>1, <1>4, <1>5, <1>7, <1>8

\* A side stores its cursor, past what it had mapped.
LEMMA ReleaseInv ==
    ASSUME CapacityFits, TypeOK, LogsOrdered, WindowsApart, AccessesApart,
           NEW s \in Side, Release(s), capacity' = capacity,
           count' = [count EXCEPT ![s] = 0]
    PROVE  /\ log' \in [Side -> Seq(Entries(capacity))]
           /\ recent' \in [Side -> AccessesOf(capacity)]
           /\ cursor' \in [Side -> Cursor] /\ count' \in [Side -> 0 .. capacity]
           /\ Base' = Base /\ cursor'[Other(s)] = cursor[Other(s)]
           /\ cursor'[s] = Advanced(cursor[s], count[s], capacity)
           /\ Gap(cursor'[s], Base, capacity) = Gap(cursor[s], Base, capacity) + count[s]
           /\ LogsOrdered' /\ WindowsApart' /\ AccessesApart'
<1>1. PICK o, q, r, a, c, d, n, cap, rec :
        /\ o = Other(s) /\ q = log[s] /\ a = Base /\ c = cursor[s] /\ n = count[s]
        /\ cap = capacity /\ rec = recent[s] /\ d = Advanced(c, n, cap)
        /\ r = Append(q, [cursor |-> d, accesses |-> rec])
    OBVIOUS
<1>2. /\ cap \in Nat /\ 2 * cap <= LoopFlag /\ q \in Seq(Entries(cap)) /\ Sits(a, cap)
      /\ log \in [Side -> Seq(Entries(cap))] /\ recent \in [Side -> AccessesOf(cap)]
      /\ rec \in AccessesOf(cap) /\ n \in Nat /\ Gap(c, a, cap) \in 0 .. cap
      /\ Limit \in 0 .. cap
    BY <1>1, StateFacts
<1>3. o \in Side /\ o # s /\ \A u \in Side : u = s \/ u = o
    BY <1>1, Sides DEF Other
<1>4. LogOrdered(q, c, a, cap)
    BY <1>1 DEF LogsOrdered
<1>5. Gap(c, a, cap) + n <= cap /\ (s = "consumer" => Gap(c, a, cap) + n <= Limit)
    <2>1. CASE s = "producer"
        BY <1>1, <2>1 DEF WindowsApart
    <2>2. CASE s = "consumer"
        BY <1>1, <1>2, <2>2 DEF WindowsApart
    <2>3. QED
        BY <1>1, <2>1, <2>2, Sides
<1>6. /\ r \in Seq(Entries(cap)) /\ r[1] = q[1]
      /\ Gap(d, a, cap) = Gap(c, a, cap) + n
      /\ LogOrdered(r, d, a, cap)
      /\ AccessesAfter(q, c, rec, a, cap) => AccessesAfter(r, d, NoAccess, a, cap)
      /\ \A limit : AccessesBefore(q, rec, a, limit, cap)
                        => AccessesBefore(r, NoAccess, a, limit, cap)
    <2>1. IsExtension(r, d, q, c, n, rec, a, cap)
        BY <1>1, <1>2, <1>4, <1>5 DEF IsExtension
    <2>2. QED
        BY <1>2, <2>1, Extended
<1>7. AccessesAfter(r, d, NoAccess, a, cap)
    BY <1>1, <1>6 DEF AccessesApart
<1>8. /\ log' = [log EXCEPT ![s] = r] /\ cursor' = [cursor EXCEPT ![s] = d]
      /\ recent' = [recent EXCEPT ![s] = NoAccess]
    BY <1>1 DEF Release
<1>9. /\ log' \in [Side -> Seq(Entries(cap))] /\ log'[s] = r /\ log'[o] = log[o]
      /\ cursor'[s] = d /\ cursor'[o] = cursor[o]
      /\ recent'[s] = NoAccess /\ recent'[o] = recent[o]
      /\ count'[s] = 0 /\ count'[o] = count[o]
    BY <1>1, <1>2, <1>3, <1>6, <1>8 DEF TypeOK
<1>10. Base' = a /\ Limit' = Limit
    <2>1. log'["consumer"][1] = log["consumer"][1] /\ log'["producer"][1] = log["producer"][1]
        BY <1>1, <1>3, <1>6, <1>9, Sides
    <2>2. QED
        BY <1>1, <2>1 DEF Base, Limit
<1>11. LogsOrdered'
    BY <1>1, <1>3, <1>6, <1>9, <1>10 DEF LogsOrdered
<1>12. WindowsApart'
    <2>1. CASE s = "producer"
        BY <1>1, <1>2, <1>3, <1>5, <1>6, <1>9, <1>10, <2>1, Sides DEF WindowsApart
    <2>2. CASE s = "consumer"
        BY <1>1, <1>2, <1>3, <1>5, <1>6, <1>9, <1>10, <2>2, Sides DEF WindowsApart
    <2>3. QED
        BY <1>1, <2>1, <2>2, Sides
<1>13. AccessesBefore(log'["consumer"], recent'["consumer"], a, Limit, cap)
    <2>1. AccessesBefore(log["consumer"], recent["consumer"], a, Limit, cap)
        BY <1>1 DEF AccessesApart
    <2>2. CASE s = "producer"
        BY <1>1, <1>3, <1>9, <2>1, <2>2, Sides
    <2>3. CASE s = "consumer"
        <3>1. AccessesBefore(r, NoAccess, a, Limit, cap)
            BY <1>1, <1>6, <2>1, <2>3
        <3>2. QED
            BY <1>1, <1>9, <2>3, <3>1
    <2>4. QED
        BY <1>1, <2>2, <2>3, Sides
<1>14. AccessesApart'
    BY <1>1, <1>3, <1>7, <1>9, <1>10, <1>13 DEF AccessesApart
<1>15. /\ recent' \in [Side -> AccessesOf(cap)] /\ cursor' \in [Side -> Cursor]
       /\ count' \in [Side -> 0 .. cap]
    <2>1. NoAccess \in AccessesOf(cap)
        BY <1>1 DEF NoAccess, AccessesOf
    <2>2. d \in Cursor
        BY <1>1, <1>2, <1>6 DEF LogOrdered, Sits
    <2>3. QED
        BY <1>1, <1>2, <1>8, <2>1, <2>2 DEF TypeOK
<1>16. QED
    BY <1>1, <1>6, <1>9, <1>10, <1>11, <1>12, <1>14, <1>15

\* What one side may still be accessing is on its side of the limit.
LEMMA Zones ==
    ASSUME CapacityFits, TypeOK, LogsOrdered, WindowsApart, AccessesApart,
           NEW s \in Side, NEW kind \in {"reads", "writes"}, NEW p \in Unordered(s, kind)
    PROVE  /\ p \in 0 .. 2 * capacity - 1 /\ Offset(p, Base, capacity) \in Nat
           /\ s = "consumer" => Offset(p, Base, capacity) < Limit
           /\ s = "producer" => Limit <= Offset(p, Base, capacity)
<1>1. \/ p \in Touched(recent[s])
      \/ \E j \in 2 .. Len(log[s]) : p \in Touched(log[s][j].accesses)
    BY DEF Unordered, Touched
<1>2. p \in 0 .. 2 * capacity - 1
    <2>1. CASE p \in Touched(recent[s])
        BY <2>1, StateFacts DEF AccessesOf, Touched
    <2>2. ASSUME NEW j \in 2 .. Len(log[s]), p \in Touched(log[s][j].accesses)
          PROVE  p \in 0 .. 2 * capacity - 1
        <3>1. capacity \in Nat /\ log[s] \in Seq(Entries(capacity)) /\ j \in 1 .. Len(log[s])
            BY StateFacts
        <3>2. QED
            BY <2>2, <3>1, EntryType
    <2>3. QED
        BY <1>1, <2>1, <2>2
<1>3. Offset(p, Base, capacity) \in Nat
    BY <1>2, StateFacts, OffsetType
<1>4. CASE s = "consumer"
    BY <1>1, <1>2, <1>3, <1>4 DEF AccessesApart, AccessesBefore
<1>5. CASE s = "producer"
    <2>1. AccessesAfter(log[s], cursor[s], recent[s], Base, capacity)
        BY DEF AccessesApart
    <2>2. CASE p \in Touched(recent[s])
        <3>1. /\ Gap(cursor[s], Base, capacity) <= Offset(p, Base, capacity)
              /\ Limit <= Gap(cursor[s], Base, capacity)
              /\ Gap(cursor[s], Base, capacity) \in Int /\ Limit \in Int
            BY <1>5, <2>1, <2>2, StateFacts DEF AccessesAfter
        <3>2. QED
            BY <1>2, <1>3, <1>5, <3>1
    <2>3. ASSUME NEW j \in 2 .. Len(log[s]), p \in Touched(log[s][j].accesses)
          PROVE  Limit <= Offset(p, Base, capacity)
        <3>1. j - 1 \in 1 .. Len(log[s])
            <4>1. Len(log[s]) \in Nat
                BY StateFacts
            <4>2. QED
                BY <4>1
        <3>2. /\ Gap(log[s][j - 1].cursor, Base, capacity) <= Offset(p, Base, capacity)
              /\ Limit <= Gap(log[s][j - 1].cursor, Base, capacity)
              /\ Gap(log[s][j - 1].cursor, Base, capacity) \in Int /\ Limit \in Int
            <4>1. Gap(log[s][j - 1].cursor, Base, capacity) <= Offset(p, Base, capacity)
                BY <2>1, <2>3 DEF AccessesAfter
            <4>2. /\ Limit <= Gap(log[s][j - 1].cursor, Base, capacity)
                  /\ Gap(log[s][j - 1].cursor, Base, capacity) \in Int /\ Limit \in Int
                BY <1>5, <3>1, StateFacts DEF Limit
            <4>3. QED
                BY <4>1, <4>2
        <3>3. QED
            BY <1>3, <3>2
    <2>4. QED
        BY <1>1, <1>2, <1>3, <1>5, <2>2, <2>3
<1>6. QED
    BY <1>4, <1>5, Sides

\* The accesses of a side to its own window are ordered with all of the other.
LEMMA AccessInv ==
    ASSUME CapacityFits, TypeOK, LogsOrdered, WindowsApart, AccessesApart, NoDataRace,
           NEW s \in Side, NEW reads, NEW writes, Access(s, reads, writes),
           \A p \in reads \union writes :
                /\ p \in 0 .. 2 * capacity - 1
                /\ Gap(cursor[s], Base, capacity) <= Offset(p, Base, capacity)
                /\ s = "consumer" => Offset(p, Base, capacity) < Limit,
           capacity' = capacity, log' = log, cursor' = cursor
    PROVE  /\ recent' \in [Side -> AccessesOf(capacity)]
           /\ AccessesApart' /\ NoDataRace' /\ raced' \in BOOLEAN
<1> PICK o, new : /\ o = Other(s)
                  /\ new = [reads |-> recent[s].reads \union reads,
                            writes |-> recent[s].writes \union writes]
    OBVIOUS
<1>1. /\ capacity \in Nat /\ recent \in [Side -> AccessesOf(capacity)]
      /\ o \in Side /\ o # s /\ \A u \in Side : u = s \/ u = o
    BY StateFacts, Sides DEF Other
<1>2. recent' = [recent EXCEPT ![s] = new]
    BY <1>1 DEF Access, AccessesOf
<1>3. /\ new \in AccessesOf(capacity)
      /\ \A p \in Touched(new) : p \in Touched(recent[s]) \/ p \in reads \union writes
    BY <1>1 DEF AccessesOf, Touched
<1>4. /\ recent' \in [Side -> AccessesOf(capacity)]
      /\ recent'[s] = new /\ recent'[o] = recent[o]
    BY <1>1, <1>2, <1>3
<1>5. AccessesApart'
    <2>1. Base' = Base /\ Limit' = Limit
        BY DEF Base, Limit
    <2>2. AccessesAfter(log[s], cursor[s], new, Base, capacity)
        BY <1>3 DEF AccessesApart, AccessesAfter
    <2>3. AccessesAfter(log[o], cursor[o], recent[o], Base, capacity)
        BY <1>1 DEF AccessesApart
    <2>4. AccessesBefore(log["consumer"], recent'["consumer"], Base, Limit, capacity)
        <3>1. AccessesBefore(log["consumer"], recent["consumer"], Base, Limit, capacity)
            BY DEF AccessesApart
        <3>2. CASE s = "consumer"
            BY <1>3, <1>4, <3>1, <3>2 DEF AccessesBefore
        <3>3. CASE s # "consumer"
            BY <1>1, <1>4, <3>1, <3>3, Sides
        <3>4. QED
            BY <3>2, <3>3
    <2>5. QED
        BY <1>1, <1>4, <2>1, <2>2, <2>3, <2>4 DEF AccessesApart
<1>6. ASSUME NEW kind \in {"reads", "writes"}, NEW p \in reads \union writes,
             p \in Unordered(o, kind)
      PROVE  FALSE
    <2>1. /\ Offset(p, Base, capacity) \in Nat
          /\ o = "consumer" => Offset(p, Base, capacity) < Limit
          /\ o = "producer" => Limit <= Offset(p, Base, capacity)
        BY <1>1, <1>6, Zones
    <2>2. /\ Limit \in Nat /\ Limit <= Gap(cursor["producer"], Base, capacity)
          /\ Gap(cursor["producer"], Base, capacity) \in Nat
        BY StateFacts, Sides
    <2>3. CASE s = "producer"
        BY <1>1, <2>1, <2>2, <2>3, Sides
    <2>4. CASE s = "consumer"
        BY <1>1, <2>1, <2>2, <2>4, Sides
    <2>5. QED
        BY <2>3, <2>4, Sides
<1>7. /\ writes \intersect Unordered(o, "reads") = {}
      /\ (reads \union writes) \intersect Unordered(o, "writes") = {}
    BY <1>6
<1>8. raced' = FALSE
    BY <1>7 DEF Access, NoDataRace, TypeOK
<1>9. QED
    BY <1>4, <1>5, <1>8 DEF NoDataRace

\* The k-th element of a window, wherever it is placed.
LEMMA WindowPlace ==
    ASSUME CapacityFits, TypeOK, LogsOrdered, WindowsApart, NEW s \in Side,
           NEW k \in Nat, Gap(cursor[s], Base, capacity) + k < capacity
    PROVE  LET x == Index(cursor[s]) + k
               far == Gap(cursor[s], Base, capacity) + k
           IN
           /\ x \in 0 .. 2 * capacity - 1
           /\ x % capacity = (IF x < capacity THEN x ELSE x - capacity)
           /\ x % capacity \in 0 .. capacity - 1
           /\ Offset(x % capacity, Base, capacity) = far
           /\ Place(x) = (IF mirrored THEN x % capacity ELSE x)
           /\ Place(x) \in 0 .. 2 * capacity - 1
           /\ Offset(Place(x), Base, capacity) = far
<1> DEFINE x == Index(cursor[s]) + k
           far == Gap(cursor[s], Base, capacity) + k
<1>1. /\ capacity \in Nat /\ Sits(Base, capacity) /\ Sits(cursor[s], capacity)
      /\ Gap(cursor[s], Base, capacity) \in Nat
    BY StateFacts
<1>2. /\ x \in 0 .. 2 * capacity - 1
      /\ x % capacity = (IF x < capacity THEN x ELSE x - capacity)
      /\ x % capacity \in 0 .. capacity - 1
      /\ Offset(x, Base, capacity) = far
      /\ Offset(x % capacity, Base, capacity) = far
    BY <1>1, OffsetOfElement
<1>3. Place(x) = IF mirrored THEN x % capacity ELSE x
    BY DEF Place
<1> HIDE DEF x, far
<1>4. x % capacity \in 0 .. 2 * capacity - 1
    BY <1>1, <1>2
<1>5. Place(x) \in 0 .. 2 * capacity - 1 /\ Offset(Place(x), Base, capacity) = far
    <2>1. CASE mirrored
        BY <1>2, <1>3, <1>4, <2>1
    <2>2. CASE ~mirrored
        BY <1>2, <1>3, <2>2
    <2>3. QED
        BY <2>1, <2>2
<1>6. QED
    BY <1>2, <1>3, <1>5 DEF x, far

-----------------------------------------------------------------------------
(* The contents of the buffer.                                             *)

\* Only what is ahead of the limit may change under the producer's feet.
LEMMA FilledKept ==
    ASSUME CapacityFits, TypeOK, LogsOrdered, WindowsApart, FilledInOrder,
           capacity' = capacity, mirrored' = mirrored, committed' = committed,
           cursor'["producer"] = cursor["producer"], pc'["producer"] = pc["producer"],
           count'["producer"] = count["producer"],
           \A p \in 0 .. 2 * capacity - 1 :
                Limit <= Offset(p, Base, capacity) => element'[p] = element[p]
    PROVE  FilledInOrder'
<1> DEFINE from == Index(cursor["producer"])
<1>1. from' = from
    BY DEF Index
<1>2. ASSUME NEW k \in 0 .. count["producer"] - 1
      PROVE  /\ Place(from + k)' = Place(from + k)
             /\ element'[Place(from + k)] = element[Place(from + k)]
             /\ element'[(from + k) % capacity] = element[(from + k) % capacity]
    <2>1. /\ Gap(cursor["producer"], Base, capacity) \in Nat /\ Limit \in Nat
          /\ Limit <= Gap(cursor["producer"], Base, capacity)
          /\ capacity \in Nat /\ count["producer"] \in 0 .. capacity
          /\ Gap(cursor["producer"], Base, capacity) + count["producer"] <= capacity
        BY StateFacts, Sides DEF WindowsApart
    <2>2. k \in Nat /\ Gap(cursor["producer"], Base, capacity) + k < capacity
        BY <2>1
    <2>3. /\ (from + k) % capacity \in 0 .. capacity - 1
          /\ Offset((from + k) % capacity, Base, capacity)
                = Gap(cursor["producer"], Base, capacity) + k
          /\ Place(from + k) \in 0 .. 2 * capacity - 1
          /\ Offset(Place(from + k), Base, capacity)
                = Gap(cursor["producer"], Base, capacity) + k
        BY <2>2, WindowPlace, Sides
    <2> HIDE DEF from
    <2>4. Limit <= Gap(cursor["producer"], Base, capacity) + k
        BY <2>1, <2>2
    <2>5. (from + k) % capacity \in 0 .. 2 * capacity - 1
        BY <2>1, <2>3
    <2>6. Place(from + k)' = Place(from + k)
        BY <1>1 DEF Place
    <2>7. QED
        BY <2>3, <2>4, <2>5, <2>6
<1> HIDE DEF from
<1>3. QED
    BY <1>1, <1>2 DEF FilledInOrder, from

\* Only what is behind the limit may change under the consumer's feet.
LEMMA FrontKept ==
    ASSUME CapacityFits, TypeOK, LogsOrdered, WindowsApart, FrontCopied,
           capacity' = capacity, mirrored' = mirrored,
           cursor'["consumer"] = cursor["consumer"], pc'["consumer"] = pc["consumer"],
           count'["consumer"] = count["consumer"],
           \A p \in 0 .. 2 * capacity - 1 :
                Offset(p, Base, capacity) < Limit => element'[p] = element[p]
    PROVE  FrontCopied'
<1> DEFINE from == Index(cursor["consumer"])
<1>1. from' = from
    BY DEF Index
<1>2. ASSUME NEW k \in 0 .. count["consumer"] - 1
      PROVE  /\ Place(from + k)' = Place(from + k)
             /\ element'[Place(from + k)] = element[Place(from + k)]
             /\ element'[(from + k) % capacity] = element[(from + k) % capacity]
    <2>1. /\ Gap(cursor["consumer"], Base, capacity) \in Nat /\ Limit \in 0 .. capacity
          /\ capacity \in Nat /\ count["consumer"] \in 0 .. capacity
          /\ Gap(cursor["consumer"], Base, capacity) + count["consumer"] <= Limit
        BY StateFacts, Sides DEF WindowsApart
    <2>2. /\ k \in Nat /\ Gap(cursor["consumer"], Base, capacity) + k < Limit
          /\ Gap(cursor["consumer"], Base, capacity) + k < capacity
        BY <2>1
    <2>3. /\ (from + k) % capacity \in 0 .. capacity - 1
          /\ Offset((from + k) % capacity, Base, capacity)
                = Gap(cursor["consumer"], Base, capacity) + k
          /\ Place(from + k) \in 0 .. 2 * capacity - 1
          /\ Offset(Place(from + k), Base, capacity)
                = Gap(cursor["consumer"], Base, capacity) + k
        BY <2>2, WindowPlace, Sides
    <2> HIDE DEF from
    <2>4. (from + k) % capacity \in 0 .. 2 * capacity - 1
        BY <2>1, <2>3
    <2>5. Place(from + k)' = Place(from + k)
        BY <1>1 DEF Place
    <2>6. QED
        BY <2>2, <2>3, <2>4, <2>5
<1> HIDE DEF from
<1>3. QED
    BY <1>1, <1>2 DEF FrontCopied, from

\* The types of TypeOK are those of the lemmas above.
LEMMA EntryTypes ==
    ASSUME capacity' = capacity
    PROVE  /\ AccessesOf(capacity) = Accesses /\ AccessesOf(capacity) = Accesses'
           /\ Entries(capacity) = [cursor : Cursor, accesses : Accesses']
    BY DEF AccessesOf, Accesses, Entries

\* map_produce keeps the invariant: the room it finds was released.
LEMMA MapProduceInv ==
    ASSUME CapacityFits, IInv, NEW n \in Request, NEW i \in Loadable("producer"),
           MapProduce(n, i)
    PROVE  IInv'
<1> DEFINE head == cursor["producer"]
           left == Remaining(head, Loaded("producer", i), capacity)
<1>1. /\ TypeOK /\ LogsOrdered /\ WindowsApart /\ AccessesApart /\ SidesTyped /\ NoDataRace
      /\ FilledInOrder /\ FrontCopied
    BY DEF IInv
<1>2. /\ Acquire("producer", i)
      /\ capacity' = capacity /\ mirrored' = mirrored /\ element' = element
      /\ cursor' = cursor /\ recent' = recent /\ raced' = raced /\ committed' = committed
      /\ pc' = [pc EXCEPT !["producer"] = "mapped"]
      /\ count' = [count EXCEPT !["producer"] = Smaller(n, left)]
    BY DEF MapProduce, Goto
<1>3. /\ log' \in [Side -> Seq(Entries(capacity))]
      /\ Base' = Loaded("producer", i)
      /\ LogsOrdered' /\ AccessesApart'
      /\ Gap(cursor["consumer"], Base', capacity) + count["consumer"] <= Limit'
    BY <1>1, <1>2, ProducerAcquires
<1>4. /\ capacity \in Nat /\ 2 * capacity <= LoopFlag /\ head \in Cursor
      /\ n \in Nat
    BY <1>1, StateFacts, Sides DEF Request
<1>5. Gap(head, Base', capacity) \in 0 .. capacity /\ Base' \in Cursor
    <2>1. LogOrdered(log'["producer"], head, Base', capacity)
        BY <1>2, <1>3, Sides DEF LogsOrdered
    <2>2. log'["producer"] \in Seq(Entries(capacity)) /\ log'["consumer"] \in Seq(Entries(capacity))
        BY <1>3, Sides
    <2>3. Len(log'["producer"]) \in 1 .. Len(log'["producer"])
        BY <1>4, <2>1, <2>2, EntryType DEF LogOrdered
    <2>4. Len(log'["consumer"]) \in Nat /\ Len(log'["consumer"]) >= 1
        BY <1>3, <1>4, <2>2, EntryType, Sides DEF LogsOrdered, LogOrdered
    <2>5. Gap(head, Base', capacity) \in 0 .. capacity
        BY <2>1, <2>3 DEF LogOrdered
    <2>6. Base' \in Cursor
        BY <1>4, <2>2, <2>4, EntryType DEF Base
    <2>7. QED
        BY <2>5, <2>6
<1>6. left = capacity - Gap(head, Base', capacity)
    BY <1>3, <1>4, <1>5, LengthIsGap
<1>7. Smaller(n, left) \in 0 .. capacity /\ Smaller(n, left) <= left
    <2>1. left \in 0 .. capacity
        BY <1>4, <1>5, <1>6
    <2> HIDE DEF left
    <2>2. QED
        BY <1>4, <2>1 DEF Smaller
<1> HIDE DEF left
<1>8. /\ count' \in [Side -> 0 .. capacity] /\ count'["consumer"] = count["consumer"]
      /\ count'["producer"] = Smaller(n, left)
      /\ pc'["consumer"] = pc["consumer"] /\ pc'["producer"] = "mapped"
      /\ pc' \in [Side -> {"idle", "mapping", "mapped", "filled", "unmapping"}]
    BY <1>1, <1>2, <1>7, Sides DEF TypeOK
<1>9. WindowsApart'
    BY <1>2, <1>3, <1>4, <1>5, <1>6, <1>7, <1>8 DEF WindowsApart
<1>10. TypeOK'
    <2>1. log' \in [Side -> Seq([cursor : Cursor, accesses : Accesses'])]
        BY <1>2, <1>3, EntryTypes
    <2>2. recent' \in [Side -> Accesses']
        BY <1>1, <1>2, EntryTypes DEF TypeOK
    <2>3. QED
        BY <1>1, <1>2, <1>8, <2>1, <2>2 DEF TypeOK
<1>11. FilledInOrder'
    BY <1>8 DEF FilledInOrder
<1>12. FrontCopied'
    BY <1>1, <1>2, <1>8, FrontKept
<1>13. SidesTyped' /\ NoDataRace'
    BY <1>1, <1>2, <1>8 DEF SidesTyped, NoDataRace
<1>14. QED
    BY <1>3, <1>9, <1>10, <1>11, <1>12, <1>13 DEF IInv

\* map_consume keeps it, up to the copy: what it finds was committed.
LEMMA MapConsumeInv ==
    ASSUME CapacityFits, IInv, NEW n \in Request, NEW i \in Loadable("consumer"),
           MapConsume(n, i)
    PROVE  IInv'
<1> DEFINE tail == cursor["consumer"]
           found == Loaded("consumer", i)
           ready == Length(found, tail, capacity)
<1>1. /\ TypeOK /\ LogsOrdered /\ WindowsApart /\ AccessesApart /\ SidesTyped /\ NoDataRace
      /\ FilledInOrder /\ FrontCopied
    BY DEF IInv
<1>2. /\ Acquire("consumer", i)
      /\ capacity' = capacity /\ mirrored' = mirrored /\ element' = element
      /\ cursor' = cursor /\ recent' = recent /\ raced' = raced /\ committed' = committed
      /\ pc' = [pc EXCEPT !["consumer"] = "mapping"]
      /\ count' = [count EXCEPT !["consumer"] = Smaller(n, ready)]
    BY DEF MapConsume, Goto
<1>3. /\ log' \in [Side -> Seq(Entries(capacity))]
      /\ Base' = Base /\ Limit' = Gap(found, Base, capacity)
      /\ Limit <= Limit' /\ Limit' \in 0 .. capacity
      /\ LogsOrdered' /\ AccessesApart'
    BY <1>1, <1>2, ConsumerAcquires
<1>4. /\ capacity \in Nat /\ 2 * capacity <= LoopFlag /\ tail \in Cursor /\ Sits(tail, capacity)
      /\ n \in Nat /\ Sits(Base, capacity) /\ Limit \in Int
      /\ Gap(tail, Base, capacity) \in 0 .. capacity /\ Gap(tail, Base, capacity) <= Limit
    BY <1>1, StateFacts, Sides DEF Request
<1>5. Sits(found, capacity)
    <2>1. i \in 1 .. Len(log["producer"]) /\ found = log["producer"][i].cursor
        BY Sides DEF Loadable, Loaded
    <2>2. QED
        BY <1>1, <2>1, StateFacts, Sides
<1>6. ready = Limit' - Gap(tail, Base, capacity) /\ ready \in 0 .. capacity
    <2> HIDE DEF found, tail
    <2>1. Gap(found, tail, capacity) = Limit' - Gap(tail, Base, capacity)
        BY <1>3, <1>4, <1>5, GapShift
    <2>2. Gap(found, tail, capacity) \in 0 .. capacity /\ found \in Cursor
        BY <1>3, <1>4, <1>5, <2>1 DEF Sits
    <2>3. QED
        BY <1>4, <2>1, <2>2, LengthIsGap
<1> HIDE DEF ready, found
<1>7. Smaller(n, ready) \in 0 .. capacity /\ Smaller(n, ready) <= ready
    BY <1>4, <1>6 DEF Smaller
<1>8. /\ count' \in [Side -> 0 .. capacity] /\ count'["producer"] = count["producer"]
      /\ count'["consumer"] = Smaller(n, ready)
      /\ pc'["producer"] = pc["producer"] /\ pc'["consumer"] = "mapping"
      /\ pc' \in [Side -> {"idle", "mapping", "mapped", "filled", "unmapping"}]
    BY <1>1, <1>2, <1>7, Sides DEF TypeOK
<1>9. WindowsApart'
    BY <1>1, <1>2, <1>3, <1>4, <1>6, <1>7, <1>8 DEF WindowsApart
<1>10. TypeOK'
    <2>1. log' \in [Side -> Seq([cursor : Cursor, accesses : Accesses'])]
        BY <1>2, <1>3, EntryTypes
    <2>2. recent' \in [Side -> Accesses']
        BY <1>1, <1>2, EntryTypes DEF TypeOK
    <2>3. QED
        BY <1>1, <1>2, <1>8, <2>1, <2>2 DEF TypeOK
<1>11. FilledInOrder'
    BY <1>1, <1>2, <1>8, FilledKept
<1>12. FrontCopied'
    BY <1>8 DEF FrontCopied
<1>13. SidesTyped' /\ NoDataRace'
    BY <1>1, <1>2, <1>8 DEF SidesTyped, NoDataRace
<1>14. QED
    BY <1>3, <1>9, <1>10, <1>11, <1>12, <1>13 DEF IInv

\* Steps of a side that do not touch the logs keep what is said of them.
LEMMA LogsKept ==
    ASSUME LogsOrdered, capacity' = capacity, cursor' = cursor, log' = log
    PROVE  Base' = Base /\ Limit' = Limit /\ LogsOrdered'
<1>1. Base' = Base /\ Limit' = Limit
    BY DEF Base, Limit
<1>2. QED
    BY <1>1 DEF LogsOrdered

\* The window of the producer: its elements have places of their own, ahead
\* of the limit.
LEMMA ProducerWindow ==
    ASSUME CapacityFits, TypeOK, LogsOrdered, WindowsApart,
           NEW k \in 0 .. count["producer"] - 1
    PROVE  LET x == Index(cursor["producer"]) + k
               far == Gap(cursor["producer"], Base, capacity)
           IN
           /\ x \in 0 .. 2 * capacity - 1 /\ k \in Nat /\ far \in Nat
           /\ x % capacity = (IF x < capacity THEN x ELSE x - capacity)
           /\ x % capacity \in 0 .. capacity - 1
           /\ Offset(x % capacity, Base, capacity) = far + k
           /\ Place(x) = (IF mirrored THEN x % capacity ELSE x)
           /\ Place(x) \in 0 .. 2 * capacity - 1
           /\ Offset(Place(x), Base, capacity) = far + k
           /\ Limit <= far /\ Limit \in Nat
<1>1. /\ Gap(cursor["producer"], Base, capacity) \in Nat /\ Limit \in Nat
      /\ Limit <= Gap(cursor["producer"], Base, capacity)
      /\ capacity \in Nat /\ count["producer"] \in 0 .. capacity
      /\ Gap(cursor["producer"], Base, capacity) + count["producer"] <= capacity
    BY StateFacts, Sides DEF WindowsApart
<1>2. k \in Nat /\ Gap(cursor["producer"], Base, capacity) + k < capacity
    BY <1>1
<1>3. QED
    BY <1>1, <1>2, WindowPlace, Sides

\* What the caller writes: its window, in order, and nothing else.
LEMMA FillWrites ==
    ASSUME CapacityFits, TypeOK, LogsOrdered, WindowsApart, Fill
    PROVE  LET from == Index(cursor["producer"])
               window == Places(from, count["producer"])
               far == Gap(cursor["producer"], Base, capacity)
           IN
           /\ element' \in [0 .. 2 * capacity - 1 -> 0 .. Tags]
           /\ \A k \in 0 .. count["producer"] - 1 :
                element'[Place(from + k)] = (committed + k) % Tags
           /\ \A p \in window : /\ p \in 0 .. 2 * capacity - 1
                                /\ far <= Offset(p, Base, capacity)
                                /\ Limit <= Offset(p, Base, capacity)
           /\ \A p \in 0 .. 2 * capacity - 1 : p \notin window => element'[p] = element[p]
<1> DEFINE from == Index(cursor["producer"])
           n == count["producer"]
           window == Places(from, n)
           first(p) == CHOOSE k \in 0 .. n - 1 : Place(from + k) = p
           far == Gap(cursor["producer"], Base, capacity)
<1>1. /\ element \in [0 .. 2 * capacity - 1 -> 0 .. Tags]
      /\ committed \in Nat /\ Tags \in Nat \ {0} /\ n \in Nat
      /\ cursor["producer"] \in Cursor
    BY RingBufferAssumption, StateFacts, Sides DEF TypeOK
<1>2. from \in Nat
    BY <1>1, CursorParts
<1>3. element' = [p \in 0 .. 2 * capacity - 1 |->
                    IF p \in window THEN (committed + first(p)) % Tags ELSE element[p]]
    BY <1>1 DEF Fill
<1>4. \A p : p \in window <=> \E k \in 0 .. n - 1 : Place(from + k) = p
    <2>1. \A p \in window : \E i \in from .. from + n - 1 : Place(i) = p
        BY DEF Places
    <2>2. \A i \in from .. from + n - 1 : i - from \in 0 .. n - 1 /\ from + (i - from) = i
        BY <1>1, <1>2
    <2>3. \A k \in 0 .. n - 1 : from + k \in from .. from + n - 1
        BY <1>1, <1>2
    <2>4. QED
        BY <2>1, <2>2, <2>3 DEF Places
<1>5. ASSUME NEW k \in 0 .. n - 1
      PROVE  /\ Place(from + k) \in 0 .. 2 * capacity - 1
             /\ Offset(Place(from + k), Base, capacity) = far + k
             /\ k \in Nat /\ far \in Nat /\ Limit <= far /\ Limit \in Nat
    BY ProducerWindow
<1> HIDE DEF window, far, from
<1>6. ASSUME NEW p \in window
      PROVE  first(p) \in 0 .. n - 1 /\ Place(from + first(p)) = p
    BY <1>4
<1>7. ASSUME NEW k \in 0 .. n - 1 PROVE first(Place(from + k)) = k
    <2> DEFINE j == first(Place(from + k))
    <2>1. j \in 0 .. n - 1 /\ Place(from + j) = Place(from + k)
        BY <1>4, <1>6
    <2> HIDE DEF j
    <2>2. far + j = far + k /\ j \in Nat /\ k \in Nat /\ far \in Nat
        BY <1>5, <2>1
    <2>3. j = k
        BY <2>2
    <2>4. QED
        BY <2>3 DEF j
<1>8. \A k \in 0 .. n - 1 : element'[Place(from + k)] = (committed + k) % Tags
    BY <1>3, <1>4, <1>5, <1>7
<1>9. \A p \in window : /\ p \in 0 .. 2 * capacity - 1
                        /\ far <= Offset(p, Base, capacity)
                        /\ Limit <= Offset(p, Base, capacity)
    <2>1. ASSUME NEW k \in 0 .. n - 1
          PROVE  /\ Place(from + k) \in 0 .. 2 * capacity - 1
                 /\ far <= Offset(Place(from + k), Base, capacity)
                 /\ Limit <= Offset(Place(from + k), Base, capacity)
        BY <1>5
    <2>2. QED
        BY <1>4, <2>1
<1>10. element' \in [0 .. 2 * capacity - 1 -> 0 .. Tags]
    <2>1. ASSUME NEW p \in window PROVE (committed + first(p)) % Tags \in 0 .. Tags
        <3>1. committed + first(p) \in Int
            BY <1>1, <1>6
        <3> HIDE DEF first
        <3>2. (committed + first(p)) % Tags \in 0 .. Tags - 1
            BY <1>1, <3>1, ModRange
        <3>3. QED
            BY <1>1, <3>2
    <2> HIDE DEF first
    <2>2. QED
        BY <1>1, <1>3, <2>1
<1>11. \A p \in 0 .. 2 * capacity - 1 : p \notin window => element'[p] = element[p]
    BY <1>3
<1>12. QED
    BY <1>8, <1>9, <1>10, <1>11 DEF window, far, from

\* Filling the mapped elements keeps the invariant.
LEMMA FillInv ==
    ASSUME CapacityFits, IInv, Fill
    PROVE  IInv'
<1> DEFINE window == Places(Index(cursor["producer"]), count["producer"])
<1>1. /\ TypeOK /\ LogsOrdered /\ WindowsApart /\ AccessesApart /\ SidesTyped /\ NoDataRace
      /\ FilledInOrder /\ FrontCopied
    BY DEF IInv
<1>2. /\ Access("producer", {}, window)
      /\ capacity' = capacity /\ mirrored' = mirrored /\ cursor' = cursor /\ log' = log
      /\ count' = count /\ committed' = committed
      /\ pc' = [pc EXCEPT !["producer"] = "filled"]
    BY DEF Fill, Goto
<1>3. /\ element' \in [0 .. 2 * capacity - 1 -> 0 .. Tags]
      /\ \A k \in 0 .. count["producer"] - 1 :
            element'[Place(Index(cursor["producer"]) + k)] = (committed + k) % Tags
      /\ \A p \in window : /\ p \in 0 .. 2 * capacity - 1
                           /\ Gap(cursor["producer"], Base, capacity) <= Offset(p, Base, capacity)
                           /\ Limit <= Offset(p, Base, capacity)
      /\ \A p \in 0 .. 2 * capacity - 1 : p \notin window => element'[p] = element[p]
    BY <1>1, FillWrites
<1> HIDE DEF window
<1>4. /\ recent' \in [Side -> AccessesOf(capacity)]
      /\ AccessesApart' /\ NoDataRace' /\ raced' \in BOOLEAN
    <2>1. \A p \in {} \union window :
            /\ p \in 0 .. 2 * capacity - 1
            /\ Gap(cursor["producer"], Base, capacity) <= Offset(p, Base, capacity)
            /\ "producer" = "consumer" => Offset(p, Base, capacity) < Limit
        BY <1>3
    <2>2. QED
        BY <1>1, <1>2, <2>1, AccessInv, Sides
<1>5. /\ pc'["consumer"] = pc["consumer"] /\ pc'["producer"] = "filled"
      /\ pc' \in [Side -> {"idle", "mapping", "mapped", "filled", "unmapping"}]
    BY <1>1, <1>2, Sides DEF TypeOK
<1>6. LogsOrdered' /\ WindowsApart'
    BY <1>1, <1>2, LogsKept DEF WindowsApart
<1>7. TypeOK'
    BY <1>1, <1>2, <1>3, <1>4, <1>5, EntryTypes DEF TypeOK
<1>8. FilledInOrder'
    BY <1>2, <1>3, <1>5 DEF FilledInOrder, Place, Index
<1>9. FrontCopied'
    <2>1. ASSUME NEW p \in 0 .. 2 * capacity - 1, Offset(p, Base, capacity) < Limit
          PROVE  element'[p] = element[p]
        <3>1. Offset(p, Base, capacity) \in Nat /\ Limit \in Nat
            BY <1>1, StateFacts, OffsetType
        <3>2. QED
            BY <1>3, <2>1, <3>1
    <2>2. QED
        BY <1>1, <1>2, <1>5, <2>1, FrontKept
<1>10. SidesTyped'
    BY <1>1, <1>5 DEF SidesTyped
<1>11. QED
    BY <1>4, <1>6, <1>7, <1>8, <1>9, <1>10 DEF IInv

\* What is behind the end of the buffer belongs to the window too.
LEMMA BehindTheEnd ==
    ASSUME CapacityFits, TypeOK, LogsOrdered, WindowsApart, NEW s \in Side,
           NEW n \in 0 .. count[s]
    PROVE  LET k == Excess(cursor[s], n)
               from == Index(cursor[s])
               far == Gap(cursor[s], Base, capacity)
           IN
           /\ k \in 0 .. capacity /\ from \in Nat
           /\ k > 0 => ~mirrored /\ k = from + n - capacity
           /\ \A i \in 0 .. n - 1 : ~mirrored /\ from + i >= capacity => from + i - capacity < k
           /\ \A j \in 0 .. k - 1 :
                /\ j \in 0 .. 2 * capacity - 1 /\ capacity + j \in 0 .. 2 * capacity - 1
                /\ far <= Offset(j, Base, capacity)
                /\ far <= Offset(capacity + j, Base, capacity)
                /\ Offset(j, Base, capacity) < far + n
                /\ Offset(capacity + j, Base, capacity) < far + n
<1> DEFINE k == Excess(cursor[s], n)
           from == Index(cursor[s])
           far == Gap(cursor[s], Base, capacity)
<1>1. /\ capacity \in Nat /\ from \in Nat /\ far \in Nat /\ n \in 0 .. capacity
      /\ far + n <= capacity
      /\ from < capacity \/ (capacity = 0 /\ from = 0)
      /\ Sits(Base, capacity) /\ Sits(cursor[s], capacity)
    <2>1. /\ capacity \in Nat /\ far \in Nat /\ count[s] \in 0 .. capacity
          /\ Sits(cursor[s], capacity) /\ Limit \in 0 .. capacity /\ Sits(Base, capacity)
        BY StateFacts
    <2>2. from \in Nat /\ (from < capacity \/ (capacity = 0 /\ from = 0))
        BY <2>1, CursorParts DEF Sits
    <2>3. far + count[s] <= capacity
        <3>1. CASE s = "producer"
            BY <3>1 DEF WindowsApart
        <3>2. CASE s = "consumer"
            BY <2>1, <3>2 DEF WindowsApart
        <3>3. QED
            BY <3>1, <3>2, Sides
    <2> HIDE DEF from, far
    <2>4. QED
        BY <2>1, <2>2, <2>3
<1>2. k = IF ~mirrored /\ from + n > capacity THEN from + n - capacity ELSE 0
    BY DEF Excess
<1> HIDE DEF k
<1>3. /\ k \in 0 .. capacity /\ (k > 0 => ~mirrored /\ k = from + n - capacity)
      /\ \A i \in 0 .. n - 1 : ~mirrored /\ from + i >= capacity => from + i - capacity < k
    <2> HIDE DEF from, far
    <2>1. QED
        BY <1>1, <1>2
<1>4. ASSUME NEW j \in 0 .. k - 1
      PROVE  /\ j \in 0 .. 2 * capacity - 1 /\ capacity + j \in 0 .. 2 * capacity - 1
             /\ far <= Offset(j, Base, capacity)
             /\ far <= Offset(capacity + j, Base, capacity)
             /\ Offset(j, Base, capacity) < far + n
             /\ Offset(capacity + j, Base, capacity) < far + n
    <2>1. PICK i : /\ i = capacity - from + j /\ i \in Nat /\ i < n /\ far + i < capacity
                   /\ from + i = capacity + j /\ ~(capacity + j < capacity)
                   /\ j \in Nat /\ j < capacity
        <3> HIDE DEF from, far
        <3>1. QED
            BY <1>1, <1>3
    <2>2. /\ from + i \in 0 .. 2 * capacity - 1
          /\ (from + i) % capacity = (IF from + i < capacity THEN from + i ELSE from + i - capacity)
          /\ Offset(from + i, Base, capacity) = far + i
          /\ Offset((from + i) % capacity, Base, capacity) = far + i
        BY <1>1, <2>1, OffsetOfElement
    <2> HIDE DEF from, far
    <2>3. (from + i) % capacity = j
        BY <1>1, <2>1, <2>2
    <2>4. /\ Offset(j, Base, capacity) = far + i
          /\ Offset(capacity + j, Base, capacity) = far + i
        BY <2>1, <2>2, <2>3
    <2>5. QED
        BY <1>1, <2>1, <2>2, <2>4
<1>5. QED
    BY <1>1, <1>3, <1>4 DEF k

\* The copy of unmap_produce brings what is behind the end to its place, and
\* touches nothing that was committed.
LEMMA UnmapProduceInv ==
    ASSUME CapacityFits, IInv, NEW n \in Request, UnmapProduce(n)
    PROVE  /\ IInv'
           /\ \A p \in 0 .. 2 * capacity - 1 :
                Offset(p, Base, capacity) < Gap(cursor["producer"], Base, capacity)
                    => element'[p] = element[p]
<1> DEFINE k == Excess(cursor["producer"], n)
           from == Index(cursor["producer"])
           far == Gap(cursor["producer"], Base, capacity)
<1>1. /\ TypeOK /\ LogsOrdered /\ WindowsApart /\ AccessesApart /\ SidesTyped /\ NoDataRace
      /\ FilledInOrder /\ FrontCopied
    BY DEF IInv
<1>2. /\ pc["producer"] = "filled" /\ n <= count["producer"]
      /\ Access("producer", capacity .. capacity + k - 1, 0 .. k - 1)
      /\ element' = [p \in DOMAIN element |->
                        IF p < k THEN element[capacity + p] ELSE element[p]]
      /\ capacity' = capacity /\ mirrored' = mirrored /\ cursor' = cursor /\ log' = log
      /\ committed' = committed
      /\ count' = [count EXCEPT !["producer"] = n]
      /\ pc' = [pc EXCEPT !["producer"] = "unmapping"]
    BY DEF UnmapProduce, Goto
<1>3. /\ capacity \in Nat /\ count["producer"] \in 0 .. capacity /\ n \in 0 .. count["producer"]
      /\ far \in Nat /\ Limit \in Nat /\ Limit <= far
      /\ far + count["producer"] <= capacity /\ Sits(Base, capacity)
    BY <1>1, <1>2, StateFacts, Sides DEF Request, WindowsApart
<1>4. /\ k \in 0 .. capacity /\ from \in Nat
      /\ k > 0 => ~mirrored /\ k = from + n - capacity
      /\ \A i \in 0 .. n - 1 : ~mirrored /\ from + i >= capacity => from + i - capacity < k
      /\ \A j \in 0 .. k - 1 :
            /\ j \in 0 .. 2 * capacity - 1 /\ capacity + j \in 0 .. 2 * capacity - 1
            /\ far <= Offset(j, Base, capacity)
            /\ far <= Offset(capacity + j, Base, capacity)
    BY <1>1, <1>3, BehindTheEnd, Sides
<1>5. ASSUME NEW i \in 0 .. count["producer"] - 1
      PROVE  /\ from + i \in 0 .. 2 * capacity - 1
             /\ i \in Nat
             /\ (from + i) % capacity
                    = (IF from + i < capacity THEN from + i ELSE from + i - capacity)
             /\ (from + i) % capacity \in 0 .. capacity - 1
             /\ Place(from + i) = (IF mirrored THEN (from + i) % capacity ELSE from + i)
    <2>1. from + i \in 0 .. 2 * capacity - 1 /\ i \in Nat
        BY <1>1, ProducerWindow
    <2>2. (from + i) % capacity \in 0 .. capacity - 1
        BY <1>1, ProducerWindow
    <2>3. Place(from + i) = (IF mirrored THEN (from + i) % capacity ELSE from + i)
        BY DEF Place
    <2> HIDE DEF from
    <2>4. (from + i) % capacity
                = (IF from + i < capacity THEN from + i ELSE from + i - capacity)
        <3>1. PICK x : x = from + i /\ x \in Nat /\ x < 2 * capacity
            BY <1>3, <2>1
        <3>2. capacity \in Nat \ {0}
            BY <1>3, <2>1
        <3>3. x % capacity = IF x < capacity THEN x ELSE x - capacity
            BY <3>1, <3>2, DivMod
        <3>4. QED
            BY <1>3, <1>4, <2>1, <3>1, <3>3
    <2>5. QED
        BY <2>1, <2>2, <2>3, <2>4
<1> HIDE DEF k, from, far
<1>6. element \in [0 .. 2 * capacity - 1 -> 0 .. Tags]
    BY <1>1 DEF TypeOK
<1>7. /\ element' \in [0 .. 2 * capacity - 1 -> 0 .. Tags]
      /\ \A p \in 0 .. 2 * capacity - 1 :
            element'[p] = IF p < k THEN element[capacity + p] ELSE element[p]
    <2>1. ASSUME NEW p \in 0 .. 2 * capacity - 1, p < k
          PROVE  capacity + p \in 0 .. 2 * capacity - 1
        BY <1>3, <1>4, <2>1
    <2>2. QED
        BY <1>2, <1>6, <2>1
<1>8. ASSUME NEW p \in 0 .. 2 * capacity - 1, Offset(p, Base, capacity) < far
      PROVE  element'[p] = element[p]
    <2>1. Offset(p, Base, capacity) \in Nat
        BY <1>3, OffsetType
    <2>2. ~(p < k)
        <3>1. p < k => p \in 0 .. k - 1
            BY <1>3, <1>4
        <3>2. QED
            BY <1>3, <1>4, <1>8, <2>1, <3>1
    <2>3. QED
        BY <1>7, <2>2
<1>9. /\ recent' \in [Side -> AccessesOf(capacity)]
      /\ AccessesApart' /\ NoDataRace' /\ raced' \in BOOLEAN
    <2>1. ASSUME NEW p \in capacity .. capacity + k - 1
          PROVE  p \in 0 .. 2 * capacity - 1 /\ far <= Offset(p, Base, capacity)
        <3>1. p - capacity \in 0 .. k - 1 /\ capacity + (p - capacity) = p
            BY <1>3, <1>4
        <3>2. QED
            BY <1>4, <3>1
    <2>2. \A p \in (capacity .. capacity + k - 1) \union (0 .. k - 1) :
            /\ p \in 0 .. 2 * capacity - 1
            /\ Gap(cursor["producer"], Base, capacity) <= Offset(p, Base, capacity)
            /\ "producer" = "consumer" => Offset(p, Base, capacity) < Limit
        BY <1>4, <2>1 DEF far
    <2>3. QED
        BY <1>1, <1>2, <2>2, AccessInv, Sides
<1>10. /\ pc'["consumer"] = pc["consumer"] /\ pc'["producer"] = "unmapping"
      /\ pc' \in [Side -> {"idle", "mapping", "mapped", "filled", "unmapping"}]
      /\ count'["consumer"] = count["consumer"] /\ count'["producer"] = n
      /\ count' \in [Side -> 0 .. capacity]
    BY <1>1, <1>2, <1>3, Sides DEF TypeOK
<1>11. LogsOrdered' /\ Base' = Base /\ Limit' = Limit
    BY <1>1, <1>2, LogsKept
<1>12. WindowsApart'
    BY <1>1, <1>2, <1>3, <1>10, <1>11 DEF WindowsApart, far
<1>13. TypeOK'
    BY <1>1, <1>2, <1>7, <1>9, <1>10, EntryTypes DEF TypeOK
<1>14. FilledInOrder'
    <2>1. ASSUME NEW i \in 0 .. n - 1
          PROVE  element'[(from + i) % capacity] = (committed + i) % Tags
        <3>1. i \in 0 .. count["producer"] - 1
            BY <1>3
        <3>2. /\ from + i \in 0 .. 2 * capacity - 1 /\ i \in Nat
              /\ (from + i) % capacity
                    = (IF from + i < capacity THEN from + i ELSE from + i - capacity)
              /\ (from + i) % capacity \in 0 .. capacity - 1
              /\ Place(from + i) = (IF mirrored THEN (from + i) % capacity ELSE from + i)
            BY <1>5, <3>1
        <3>3. element[Place(from + i)] = (committed + i) % Tags
            BY <1>1, <1>2, <3>1 DEF FilledInOrder, from
        <3>4. element'[(from + i) % capacity] = element[Place(from + i)]
            <4>1. (from + i) % capacity \in 0 .. 2 * capacity - 1
                BY <1>3, <3>2
            <4>2. CASE mirrored
                <5>1. ~((from + i) % capacity < k)
                    BY <1>4, <3>2, <4>2
                <5>2. QED
                    BY <1>7, <3>2, <4>1, <4>2, <5>1
            <4>3. CASE ~mirrored /\ from + i < capacity
                <5>1. ~(from + i < k)
                    BY <1>3, <1>4, <3>2
                <5>2. QED
                    BY <1>7, <3>2, <4>1, <4>3, <5>1
            <4>4. CASE ~mirrored /\ ~(from + i < capacity)
                <5>1. /\ (from + i) % capacity = from + i - capacity
                      /\ from + i - capacity < k
                      /\ capacity + (from + i - capacity) = from + i
                    BY <1>3, <1>4, <3>2, <4>4
                <5>2. QED
                    BY <1>7, <3>2, <4>1, <4>4, <5>1
            <4>5. QED
                BY <4>2, <4>3, <4>4
        <3>5. QED
            BY <3>3, <3>4
    <2>2. from' = from
        BY <1>2 DEF from, Index
    <2>3. QED
        BY <1>2, <1>10, <2>1, <2>2 DEF FilledInOrder, from
<1>15. FrontCopied'
    <2>1. ASSUME NEW p \in 0 .. 2 * capacity - 1, Offset(p, Base, capacity) < Limit
          PROVE  element'[p] = element[p]
        <3>1. Offset(p, Base, capacity) \in Nat
            BY <1>3, OffsetType
        <3>2. QED
            BY <1>3, <1>8, <2>1, <3>1
    <2>2. QED
        BY <1>1, <1>2, <1>10, <2>1, FrontKept
<1>16. SidesTyped'
    BY <1>1, <1>10 DEF SidesTyped
<1>17. QED
    BY <1>8, <1>9, <1>11, <1>12, <1>13, <1>14, <1>15, <1>16 DEF IInv, far

\* The copy of map_consume stays inside its window, and makes it contiguous.
LEMMA CopyOverflowInv ==
    ASSUME CapacityFits, IInv, CopyOverflow
    PROVE  /\ IInv'
           /\ \A p \in 0 .. capacity - 1 : element'[p] = element[p]
<1> DEFINE n == count["consumer"]
           over == Excess(cursor["consumer"], n)
           from == Index(cursor["consumer"])
           far == Gap(cursor["consumer"], Base, capacity)
<1>1. /\ TypeOK /\ LogsOrdered /\ WindowsApart /\ AccessesApart /\ SidesTyped /\ NoDataRace
      /\ FilledInOrder /\ FrontCopied
    BY DEF IInv
<1>2. /\ Access("consumer", Places(from, n) \union 0 .. over - 1,
                            capacity .. capacity + over - 1)
      /\ element' = [p \in DOMAIN element |->
            IF p \in capacity .. capacity + over - 1 THEN element[p - capacity] ELSE element[p]]
      /\ capacity' = capacity /\ mirrored' = mirrored /\ cursor' = cursor /\ log' = log
      /\ count' = count /\ committed' = committed
      /\ pc' = [pc EXCEPT !["consumer"] = "mapped"]
    BY DEF CopyOverflow, Goto
<1>3. /\ capacity \in Nat /\ n \in 0 .. capacity
      /\ far \in Nat /\ Limit \in 0 .. capacity /\ far + n <= Limit
      /\ Sits(Base, capacity)
    BY <1>1, StateFacts, Sides DEF WindowsApart
<1>4. /\ over \in 0 .. capacity /\ from \in Nat
      /\ \A i \in 0 .. n - 1 : ~mirrored /\ from + i >= capacity => from + i - capacity < over
      /\ \A j \in 0 .. over - 1 :
            /\ j \in 0 .. 2 * capacity - 1 /\ capacity + j \in 0 .. 2 * capacity - 1
            /\ far <= Offset(j, Base, capacity)
            /\ far <= Offset(capacity + j, Base, capacity)
            /\ Offset(j, Base, capacity) < far + n
            /\ Offset(capacity + j, Base, capacity) < far + n
    BY <1>1, <1>3, BehindTheEnd, Sides
<1>5. ASSUME NEW i \in 0 .. n - 1
      PROVE  /\ i \in Nat
             /\ from + i \in 0 .. 2 * capacity - 1
             /\ (from + i) % capacity
                    = (IF from + i < capacity THEN from + i ELSE from + i - capacity)
             /\ (from + i) % capacity \in 0 .. capacity - 1
             /\ Place(from + i) = (IF mirrored THEN (from + i) % capacity ELSE from + i)
             /\ Place(from + i) \in 0 .. 2 * capacity - 1
             /\ Offset(Place(from + i), Base, capacity) = far + i
    <2>1. i \in Nat /\ far + i < capacity
        <3> HIDE DEF far, n
        <3>1. QED
            BY <1>3
    <2>2. LET x == Index(cursor["consumer"]) + i
              away == Gap(cursor["consumer"], Base, capacity) + i
          IN
          /\ x \in 0 .. 2 * capacity - 1
          /\ x % capacity = (IF x < capacity THEN x ELSE x - capacity)
          /\ x % capacity \in 0 .. capacity - 1
          /\ Offset(x % capacity, Base, capacity) = away
          /\ Place(x) = (IF mirrored THEN x % capacity ELSE x)
          /\ Place(x) \in 0 .. 2 * capacity - 1
          /\ Offset(Place(x), Base, capacity) = away
        BY <1>1, <2>1, WindowPlace, Sides
    <2>3. QED
        BY <1>3, <1>4, <2>1, <2>2
<1> HIDE DEF n, over, from, far
<1>6. element \in [0 .. 2 * capacity - 1 -> 0 .. Tags]
    BY <1>1 DEF TypeOK
<1>7. ASSUME NEW p \in capacity .. capacity + over - 1
      PROVE  /\ p \in 0 .. 2 * capacity - 1 /\ p - capacity \in 0 .. 2 * capacity - 1
             /\ ~(p < capacity) /\ Offset(p, Base, capacity) \in Nat
             /\ far <= Offset(p, Base, capacity) /\ Offset(p, Base, capacity) < far + n
    <2>1. /\ p - capacity \in 0 .. over - 1 /\ capacity + (p - capacity) = p
          /\ ~(p < capacity) /\ p \in Int
        BY <1>3, <1>4
    <2>2. PICK j : j = p - capacity /\ j \in 0 .. over - 1 /\ capacity + j = p
        BY <2>1
    <2>3. /\ j \in 0 .. 2 * capacity - 1 /\ capacity + j \in 0 .. 2 * capacity - 1
          /\ far <= Offset(capacity + j, Base, capacity)
          /\ Offset(capacity + j, Base, capacity) < far + n
        BY <1>4, <2>2
    <2>4. far <= Offset(p, Base, capacity) /\ Offset(p, Base, capacity) < far + n
        BY <2>2, <2>3
    <2>5. Offset(p, Base, capacity) \in 0 .. capacity - 1
        BY <1>3, <2>2, <2>3, OffsetType
    <2>6. QED
        BY <1>3, <2>1, <2>2, <2>3, <2>4, <2>5
<1>8. /\ element' \in [0 .. 2 * capacity - 1 -> 0 .. Tags]
      /\ \A p \in 0 .. 2 * capacity - 1 :
            element'[p] = IF p \in capacity .. capacity + over - 1
                          THEN element[p - capacity] ELSE element[p]
    BY <1>2, <1>6, <1>7
<1>9. ASSUME NEW p \in 0 .. 2 * capacity - 1
      PROVE  /\ p < capacity => element'[p] = element[p]
             /\ Limit <= Offset(p, Base, capacity) => element'[p] = element[p]
    <2>1. CASE p \in capacity .. capacity + over - 1
        BY <1>3, <1>7, <2>1
    <2>2. CASE p \notin capacity .. capacity + over - 1
        BY <1>8, <2>2
    <2>3. QED
        BY <2>1, <2>2
<1>10. /\ recent' \in [Side -> AccessesOf(capacity)]
      /\ AccessesApart' /\ NoDataRace' /\ raced' \in BOOLEAN
    <2>1. ASSUME NEW p \in capacity .. capacity + over - 1
          PROVE  /\ p \in 0 .. 2 * capacity - 1 /\ far <= Offset(p, Base, capacity)
                 /\ Offset(p, Base, capacity) < Limit
        BY <1>3, <1>7
    <2>2. ASSUME NEW p \in 0 .. over - 1
          PROVE  /\ p \in 0 .. 2 * capacity - 1 /\ far <= Offset(p, Base, capacity)
                 /\ Offset(p, Base, capacity) < Limit
        <3>1. Offset(p, Base, capacity) < far + n /\ Offset(p, Base, capacity) \in Nat
            BY <1>3, <1>4, OffsetType
        <3>2. QED
            BY <1>3, <1>4, <3>1
    <2>3. ASSUME NEW p \in Places(from, n)
          PROVE  /\ p \in 0 .. 2 * capacity - 1 /\ far <= Offset(p, Base, capacity)
                 /\ Offset(p, Base, capacity) < Limit
        <3>1. PICK x \in from .. from + n - 1 : p = Place(x)
            BY DEF Places
        <3>2. PICK i : i = x - from /\ i \in 0 .. n - 1 /\ from + i = x
            BY <1>3, <1>4
        <3>3. /\ i \in Nat /\ p \in 0 .. 2 * capacity - 1
              /\ Offset(p, Base, capacity) = far + i
            BY <1>5, <3>1, <3>2
        <3>4. QED
            BY <1>3, <3>2, <3>3
    <2>4. \A p \in (Places(from, n) \union 0 .. over - 1)
                        \union (capacity .. capacity + over - 1) :
            /\ p \in 0 .. 2 * capacity - 1
            /\ Gap(cursor["consumer"], Base, capacity) <= Offset(p, Base, capacity)
            /\ "consumer" = "consumer" => Offset(p, Base, capacity) < Limit
        BY <2>1, <2>2, <2>3 DEF far
    <2>5. QED
        BY <1>1, <1>2, <2>4, AccessInv, Sides
<1>11. /\ pc'["producer"] = pc["producer"] /\ pc'["consumer"] = "mapped"
       /\ pc' \in [Side -> {"idle", "mapping", "mapped", "filled", "unmapping"}]
    BY <1>1, <1>2, Sides DEF TypeOK
<1>12. LogsOrdered' /\ WindowsApart'
    BY <1>1, <1>2, LogsKept DEF WindowsApart
<1>13. TypeOK'
    BY <1>1, <1>2, <1>8, <1>10, <1>11, EntryTypes DEF TypeOK
<1>14. FilledInOrder'
    BY <1>1, <1>2, <1>9, <1>11, FilledKept
<1>15. FrontCopied'
    <2>1. ASSUME NEW i \in 0 .. n - 1
          PROVE  element'[Place(from + i)] = element'[(from + i) % capacity]
        <3>1. CASE mirrored \/ from + i < capacity
            BY <1>5, <3>1
        <3>2. CASE ~mirrored /\ ~(from + i < capacity)
            <4>1. PICK j : /\ j = from + i - capacity /\ j \in 0 .. over - 1
                           /\ from + i = capacity + j /\ j < capacity
                           /\ capacity + j - capacity = j
                BY <1>3, <1>4, <1>5, <3>2
            <4>2. Place(from + i) = capacity + j /\ (from + i) % capacity = j
                BY <1>5, <3>2, <4>1
            <4>3. /\ capacity + j \in 0 .. 2 * capacity - 1 /\ j \in 0 .. 2 * capacity - 1
                  /\ capacity + j \in capacity .. capacity + over - 1
                BY <1>3, <1>4, <4>1
            <4>4. element'[capacity + j] = element[j]
                <5>1. PICK p : p = capacity + j /\ p - capacity = j
                    BY <1>3, <4>1, <4>3
                <5>2. element'[p] = element[p - capacity]
                    BY <1>8, <4>3, <5>1
                <5>3. QED
                    BY <5>1, <5>2
            <4>5. element'[j] = element[j]
                BY <1>9, <4>1, <4>3
            <4>6. QED
                BY <4>2, <4>4, <4>5
        <3>3. QED
            BY <3>1, <3>2
    <2>2. Place(from + 0)' = Place(from + 0) /\ from' = from /\ n' = n
        BY <1>2 DEF from, n, Index, Place
    <2>3. \A x : Place(x)' = Place(x)
        BY <1>2 DEF Place
    <2>4. QED
        BY <1>2, <2>1, <2>2, <2>3 DEF FrontCopied, from, n
<1>16. SidesTyped'
    BY <1>1, <1>11 DEF SidesTyped
<1>17. \A p \in 0 .. capacity - 1 : element'[p] = element[p]
    <2>1. \A p \in 0 .. capacity - 1 : p \in 0 .. 2 * capacity - 1 /\ p < capacity
        BY <1>3
    <2>2. QED
        BY <1>9, <2>1
<1>18. QED
    BY <1>10, <1>12, <1>13, <1>14, <1>15, <1>16, <1>17 DEF IInv

\* Giving elements back narrows the window.
LEMMA UnmapConsumeInv ==
    ASSUME CapacityFits, IInv, NEW n \in Request, UnmapConsume(n)
    PROVE  IInv'
<1>1. /\ TypeOK /\ LogsOrdered /\ WindowsApart /\ AccessesApart /\ SidesTyped /\ NoDataRace
      /\ FilledInOrder /\ FrontCopied
    BY DEF IInv
<1>2. /\ n <= count["consumer"]
      /\ capacity' = capacity /\ mirrored' = mirrored /\ element' = element
      /\ cursor' = cursor /\ log' = log /\ recent' = recent /\ raced' = raced
      /\ committed' = committed
      /\ count' = [count EXCEPT !["consumer"] = n]
      /\ pc' = [pc EXCEPT !["consumer"] = "unmapping"]
    BY DEF UnmapConsume, Goto
<1>3. /\ capacity \in Nat /\ count["consumer"] \in 0 .. capacity /\ n \in 0 .. capacity
      /\ Gap(cursor["consumer"], Base, capacity) \in Nat /\ Limit \in Nat
    BY <1>1, <1>2, StateFacts, Sides DEF Request
<1>4. /\ pc'["producer"] = pc["producer"] /\ pc'["consumer"] = "unmapping"
      /\ pc' \in [Side -> {"idle", "mapping", "mapped", "filled", "unmapping"}]
      /\ count'["producer"] = count["producer"] /\ count'["consumer"] = n
      /\ count' \in [Side -> 0 .. capacity]
    BY <1>1, <1>2, <1>3, Sides DEF TypeOK
<1>5. LogsOrdered' /\ Base' = Base /\ Limit' = Limit
    BY <1>1, <1>2, LogsKept
<1>6. WindowsApart'
    BY <1>1, <1>2, <1>3, <1>4, <1>5 DEF WindowsApart
<1>7. AccessesApart' /\ NoDataRace'
    BY <1>1, <1>2, <1>5 DEF AccessesApart, NoDataRace
<1>8. TypeOK'
    BY <1>1, <1>2, <1>4, EntryTypes DEF TypeOK
<1>9. FilledInOrder'
    BY <1>1, <1>2, <1>4, FilledKept
<1>10. FrontCopied' /\ SidesTyped'
    BY <1>1, <1>4 DEF FrontCopied, SidesTyped
<1>11. QED
    BY <1>5, <1>6, <1>7, <1>8, <1>9, <1>10 DEF IInv

\* The cursor at the end of an ordered log is inside the buffer.
LEMMA CursorsSit ==
    ASSUME NEW cap \in Nat, NEW logs \in [Side -> Seq(Entries(cap))], NEW s \in Side,
           NEW c, NEW b, LogOrdered(logs[s], c, b, cap)
    PROVE  Sits(c, cap) /\ (cap > 0 => Index(c) < cap)
<1>1. Len(logs[s]) \in 1 .. Len(logs[s])
    BY EntryType DEF LogOrdered
<1>2. Sits(c, cap)
    BY <1>1 DEF LogOrdered
<1>3. QED
    BY <1>2 DEF Sits

\* The stores that end unmap_produce and unmap_consume.
LEMMA StoreInv ==
    ASSUME CapacityFits, IInv, NEW s \in Side, Release(s),
           capacity' = capacity, mirrored' = mirrored, element' = element, raced' = raced,
           count' = [count EXCEPT ![s] = 0], pc' = [pc EXCEPT ![s] = "idle"],
           committed' \in 0 .. Tags - 1, s = "consumer" => committed' = committed
    PROVE  IInv'
<1>1. /\ TypeOK /\ LogsOrdered /\ WindowsApart /\ AccessesApart /\ SidesTyped /\ NoDataRace
      /\ FilledInOrder /\ FrontCopied
    BY DEF IInv
<1>2. /\ log' \in [Side -> Seq(Entries(capacity))]
      /\ recent' \in [Side -> AccessesOf(capacity)]
      /\ cursor' \in [Side -> Cursor] /\ count' \in [Side -> 0 .. capacity]
      /\ cursor'[Other(s)] = cursor[Other(s)]
      /\ LogsOrdered' /\ WindowsApart' /\ AccessesApart'
    BY <1>1, ReleaseInv
<1>3. /\ pc' \in [Side -> {"idle", "mapping", "mapped", "filled", "unmapping"}]
      /\ pc'[s] = "idle" /\ pc'[Other(s)] = pc[Other(s)] /\ count'[Other(s)] = count[Other(s)]
    BY <1>1, Sides DEF TypeOK
<1>4. TypeOK'
    <2>1. \A u \in Side : capacity > 0 => Index(cursor'[u]) < capacity
        <3>1. capacity \in Nat
            BY <1>1, StateFacts
        <3>2. \A u \in Side : LogOrdered(log'[u], cursor'[u], Base', capacity)
            BY <1>2 DEF LogsOrdered
        <3>3. QED
            BY <1>2, <3>1, <3>2, CursorsSit
    <2>2. /\ log' \in [Side -> Seq([cursor : Cursor, accesses : Accesses'])]
          /\ recent' \in [Side -> Accesses']
        BY <1>2, EntryTypes
    <2>3. QED
        BY <1>1, <1>2, <1>3, <2>1, <2>2 DEF TypeOK
<1>5. FilledInOrder'
    <2>1. CASE s = "producer"
        BY <1>3, <2>1 DEF FilledInOrder
    <2>2. CASE s = "consumer"
        BY <1>1, <1>2, <1>3, <2>2, FilledKept, Sides
    <2>3. QED
        BY <2>1, <2>2, Sides
<1>6. FrontCopied'
    <2>1. CASE s = "producer"
        BY <1>1, <1>2, <1>3, <2>1, FrontKept, Sides
    <2>2. CASE s = "consumer"
        BY <1>3, <2>2 DEF FrontCopied
    <2>3. QED
        BY <2>1, <2>2, Sides
<1>7. SidesTyped' /\ NoDataRace'
    BY <1>1, <1>3, Sides DEF SidesTyped, NoDataRace
<1>8. QED
    BY <1>2, <1>4, <1>5, <1>6, <1>7 DEF IInv

\* The store of unmap_produce keeps the invariant,
LEMMA StoreHeadInv ==
    ASSUME CapacityFits, IInv, StoreHead
    PROVE  IInv'
<1>1. /\ Release("producer") /\ committed' = (committed + count["producer"]) % Tags
      /\ capacity' = capacity /\ mirrored' = mirrored /\ element' = element /\ raced' = raced
      /\ count' = [count EXCEPT !["producer"] = 0] /\ pc' = [pc EXCEPT !["producer"] = "idle"]
    BY DEF StoreHead, Goto
<1>2. committed + count["producer"] \in Int /\ Tags \in Nat \ {0}
    <2>1. /\ TypeOK /\ LogsOrdered /\ WindowsApart
        BY DEF IInv
    <2>2. committed \in Int /\ count["producer"] \in Int
        BY <2>1, RingBufferAssumption, StateFacts, Sides DEF TypeOK
    <2>3. QED
        BY <2>2, RingBufferAssumption
<1>3. committed' \in 0 .. Tags - 1
    BY <1>1, <1>2, ModRange
<1>4. QED
    BY <1>1, <1>3, StoreInv, Sides

\* and that of unmap_consume.
LEMMA StoreTailInv ==
    ASSUME CapacityFits, IInv, StoreTail
    PROVE  IInv'
<1>1. /\ Release("consumer") /\ committed' = committed
      /\ capacity' = capacity /\ mirrored' = mirrored /\ element' = element /\ raced' = raced
      /\ count' = [count EXCEPT !["consumer"] = 0] /\ pc' = [pc EXCEPT !["consumer"] = "idle"]
    BY DEF StoreTail, Goto
<1>2. committed' \in 0 .. Tags - 1
    BY <1>1 DEF IInv, TypeOK
<1>3. QED
    BY <1>1, <1>2, StoreInv, Sides

-----------------------------------------------------------------------------
\* The invariant holds of an empty buffer.
LEMMA InitInv ==
    ASSUME CapacityFits, Init
    PROVE  IInv
<1> DEFINE entry == [cursor |-> 0, accesses |-> NoAccess]
<1>1. /\ capacity \in Nat /\ capacity \in Capacities /\ mirrored \in BOOLEAN
      /\ element = [i \in 0 .. 2 * capacity - 1 |-> Tags]
      /\ cursor = [s \in Side |-> 0] /\ log = [s \in Side |-> <<entry>>]
      /\ recent = [s \in Side |-> NoAccess] /\ raced = FALSE
      /\ pc = [s \in Side |-> "idle"] /\ count = [s \in Side |-> 0] /\ committed = 0
      /\ Tags \in Nat \ {0} /\ LoopFlag \in Nat \ {0}
    BY RingBufferAssumption DEF Init
<1>2. 0 \in Cursor /\ Index(0) = 0
    <2>1. 0 \in 0 .. LoopFlag - 1 /\ 0 = 0 + (IF 0 = 1 THEN LoopFlag ELSE 0)
        BY <1>1
    <2>2. QED
        BY <2>1, MakeCursor
<1>3. Sits(0, capacity) /\ Gap(0, 0, capacity) = 0
    <2>1. Sits(0, capacity)
        BY <1>1, <1>2 DEF Sits
    <2>2. QED
        BY <1>1, <2>1, GapType
<1>4. NoAccess \in Accesses /\ Touched(NoAccess) = {}
    BY DEF NoAccess, Accesses, Touched
<1>5. entry \in [cursor : Cursor, accesses : Accesses]
    BY <1>2, <1>4
<1>6. \A s \in Side : /\ log[s] = <<entry>> /\ Len(log[s]) = 1 /\ log[s][1].cursor = 0
                      /\ cursor[s] = 0 /\ recent[s] = NoAccess /\ count[s] = 0
                      /\ pc[s] = "idle"
    BY <1>1
<1>7. Base = 0 /\ Limit = 0
    BY <1>3, <1>6, Sides DEF Base, Limit
<1> HIDE DEF entry
<1>8. TypeOK
    <2>1. <<entry>> \in Seq([cursor : Cursor, accesses : Accesses])
        BY <1>5
    <2>2. log \in [Side -> Seq([cursor : Cursor, accesses : Accesses])]
        BY <1>1, <2>1
    <2>3. element \in [0 .. 2 * capacity - 1 -> 0 .. Tags]
        <3>1. Tags \in 0 .. Tags
            BY <1>1
        <3>2. QED
            BY <1>1, <3>1
    <2>4. \A s \in Side : capacity > 0 => Index(cursor[s]) < capacity
        BY <1>1, <1>2
    <2>5. /\ cursor \in [Side -> Cursor] /\ count \in [Side -> 0 .. capacity]
          /\ committed \in 0 .. Tags - 1
        BY <1>1, <1>2
    <2>6. recent \in [Side -> Accesses]
        BY <1>1, <1>4
    <2>7. QED
        BY <1>1, <2>2, <2>3, <2>4, <2>5, <2>6 DEF TypeOK
<1>9. LogsOrdered
    <2>1. ASSUME NEW s \in Side PROVE LogOrdered(log[s], cursor[s], Base, capacity)
        <3>1. \A i \in 1 .. Len(log[s]) : i = 1
            BY <1>6
        <3>2. 0 \in 0 .. capacity
            BY <1>1
        <3>3. QED
            BY <1>3, <1>6, <1>7, <3>1, <3>2 DEF LogOrdered
    <2>2. QED
        BY <2>1 DEF LogsOrdered
<1>10. WindowsApart
    BY <1>1, <1>3, <1>6, <1>7, Sides DEF WindowsApart
<1>11. AccessesApart
    <2>1. ASSUME NEW s \in Side, NEW j \in 2 .. Len(log[s]) PROVE FALSE
        <3>1. j \in 2 .. 1
            BY <1>6
        <3>2. QED
            BY <3>1
    <2>2. QED
        BY <1>4, <1>6, <2>1, Sides DEF AccessesApart, AccessesAfter, AccessesBefore
<1>12. NoDataRace /\ FilledInOrder /\ FrontCopied /\ SidesTyped
    BY <1>1, <1>6, Sides DEF NoDataRace, FilledInOrder, FrontCopied, SidesTyped
<1>13. QED
    BY <1>8, <1>9, <1>10, <1>11, <1>12 DEF IInv

\* Every step keeps the invariant.
LEMMA StepInv ==
    ASSUME CapacityFits, IInv, [Next]_vars
    PROVE  IInv'
<1>1. ASSUME NEW n \in Request, NEW i \in Loadable("producer"), MapProduce(n, i)
      PROVE  IInv'
    BY <1>1, MapProduceInv
<1>2. CASE Fill
    BY <1>2, FillInv
<1>3. ASSUME NEW n \in Request, UnmapProduce(n) PROVE IInv'
    BY <1>3, UnmapProduceInv
<1>4. CASE StoreHead
    BY <1>4, StoreHeadInv
<1>5. ASSUME NEW n \in Request, NEW i \in Loadable("consumer"), MapConsume(n, i)
      PROVE  IInv'
    BY <1>5, MapConsumeInv
<1>6. CASE CopyOverflow
    BY <1>6, CopyOverflowInv
<1>7. ASSUME NEW n \in Request, UnmapConsume(n) PROVE IInv'
    BY <1>7, UnmapConsumeInv
<1>8. CASE StoreTail
    BY <1>8, StoreTailInv
<1>9. CASE UNCHANGED vars
    BY <1>9 DEF vars, IInv, TypeOK, SidesTyped, LogsOrdered, WindowsApart, AccessesApart,
                NoDataRace, FilledInOrder, FrontCopied, Base, Limit, Accesses, Place, Index
<1>10. QED
    BY <1>1, <1>2, <1>3, <1>4, <1>5, <1>6, <1>7, <1>8, <1>9 DEF Next, Produce, Consume

\* The invariant holds, for all capacities that fit.
THEOREM Invariance ==
    ASSUME CapacityFits
    PROVE  Spec => []IInv
<1>1. Init => IInv
    BY InitInv
<1>2. IInv /\ [Next]_vars => IInv'
    BY StepInv
<1>3. QED
    BY <1>1, <1>2, PTL DEF Spec
-----------------------------------------------------------------------------
(* What follows from the invariant.                                        *)

\* The lengths and the remainders either side computes, whatever store its
\* load finds.
LEMMA LoadedLength ==
    ASSUME CapacityFits, TypeOK, LogsOrdered, WindowsApart
    PROVE  LET head == cursor["producer"]
               tail == cursor["consumer"]
           IN
           /\ \A i \in Loadable("producer") :
                LET found == Loaded("producer", i)
                    away == Gap(head, Base, capacity) - Gap(found, Base, capacity)
                IN  /\ Gap(found, Base, capacity) \in 0 .. Gap(tail, Base, capacity)
                    /\ away \in 0 .. capacity
                    /\ Length(head, found, capacity) = away
                    /\ Remaining(head, found, capacity) = capacity - away
           /\ \A i \in Loadable("consumer") :
                LET found == Loaded("consumer", i)
                    away == Gap(found, Base, capacity) - Gap(tail, Base, capacity)
                IN  /\ Gap(found, Base, capacity) \in Limit .. Gap(head, Base, capacity)
                    /\ away \in 0 .. capacity
                    /\ Length(found, tail, capacity) = away
<1>1. PICK cap, head, tail, b, gh, gt :
        /\ cap = capacity /\ head = cursor["producer"] /\ tail = cursor["consumer"]
        /\ b = Base /\ gh = Gap(head, b, cap) /\ gt = Gap(tail, b, cap)
    OBVIOUS
<1>2. /\ cap \in Nat /\ 2 * cap <= LoopFlag /\ Sits(b, cap)
      /\ head \in Cursor /\ Sits(head, cap) /\ tail \in Cursor /\ Sits(tail, cap)
      /\ gh \in 0 .. cap /\ gt \in 0 .. cap /\ Limit \in 0 .. cap
      /\ gt <= Limit /\ Limit <= gh
    BY <1>1, StateFacts, Sides
<1>3. ASSUME NEW h, NEW t, Sits(h, cap), Sits(t, cap), Gap(t, b, cap) \in 0 .. cap,
             Gap(h, b, cap) \in 0 .. cap, Gap(t, b, cap) <= Gap(h, b, cap)
      PROVE  LET away == Gap(h, b, cap) - Gap(t, b, cap) IN
             /\ away \in 0 .. cap /\ Length(h, t, cap) = away
             /\ Remaining(h, t, cap) = cap - away
    <2>1. Gap(h, t, cap) = Gap(h, b, cap) - Gap(t, b, cap)
        BY <1>2, <1>3, GapShift
    <2>2. Gap(h, t, cap) \in 0 .. cap /\ h \in Cursor /\ t \in Cursor
        BY <1>2, <1>3, <2>1 DEF Sits
    <2>3. QED
        BY <1>2, <2>1, <2>2, LengthIsGap
<1>4. ASSUME NEW i \in Loadable("producer")
      PROVE  LET found == Loaded("producer", i)
                 away == gh - Gap(found, b, cap)
             IN  /\ Gap(found, b, cap) \in 0 .. gt
                 /\ away \in 0 .. cap
                 /\ Length(head, found, cap) = away
                 /\ Remaining(head, found, cap) = cap - away
    <2>1. PICK t : t = Loaded("producer", i)
        OBVIOUS
    <2>2. /\ Sits(t, cap) /\ Gap(t, b, cap) \in 0 .. cap /\ Gap(t, b, cap) <= gt
        BY <1>1, <2>1, StateFacts, Sides DEF Loadable, Loaded
    <2>3. Gap(t, b, cap) <= gh
        BY <1>2, <2>2
    <2>4. /\ gh - Gap(t, b, cap) \in 0 .. cap
          /\ Length(head, t, cap) = gh - Gap(t, b, cap)
          /\ Remaining(head, t, cap) = cap - (gh - Gap(t, b, cap))
        BY <1>1, <1>2, <1>3, <2>2, <2>3
    <2>5. QED
        BY <1>2, <2>1, <2>2, <2>4
<1>5. ASSUME NEW i \in Loadable("consumer")
      PROVE  LET found == Loaded("consumer", i)
                 away == Gap(found, b, cap) - gt
             IN  /\ Gap(found, b, cap) \in Limit .. gh
                 /\ away \in 0 .. cap
                 /\ Length(found, tail, cap) = away
    <2>1. PICK h : h = Loaded("consumer", i)
        OBVIOUS
    <2>2. /\ Sits(h, cap) /\ Gap(h, b, cap) \in 0 .. cap /\ Gap(h, b, cap) <= gh
          /\ Limit <= Gap(h, b, cap)
        BY <1>1, <2>1, StateFacts, Sides DEF Loadable, Loaded, Limit
    <2>3. gt <= Gap(h, b, cap)
        BY <1>2, <2>2
    <2>4. /\ Gap(h, b, cap) - gt \in 0 .. cap
          /\ Length(h, tail, cap) = Gap(h, b, cap) - gt
        BY <1>1, <1>2, <1>3, <2>2, <2>3
    <2>5. QED
        BY <1>2, <2>1, <2>2, <2>4
<1>6. QED
    BY <1>1, <1>4, <1>5

\* The queue is what is between the tail and the head.
QueueIsBetween ==
    LET size == Gap(cursor["producer"], Base, capacity)
                    - Gap(cursor["consumer"], Base, capacity)
    IN
    /\ size \in 0 .. capacity
    /\ Gap(cursor["producer"], cursor["consumer"], capacity) = size
    /\ Len(Queue) = size /\ Queue \in Seq(0 .. Tags)
    /\ \A k \in 1 .. size :
        Queue[k] = element[(Index(cursor["consumer"]) + k - 1) % capacity]

\* This is so in every state of the invariant.
LEMMA QueueFacts ==
    ASSUME CapacityFits, TypeOK, LogsOrdered, WindowsApart
    PROVE  QueueIsBetween
<1>1. PICK cap, head, tail, b, size :
        /\ cap = capacity /\ head = cursor["producer"] /\ tail = cursor["consumer"]
        /\ b = Base /\ size = Gap(head, b, cap) - Gap(tail, b, cap)
    OBVIOUS
<1>2. /\ cap \in Nat /\ 2 * cap <= LoopFlag /\ Sits(b, cap)
      /\ head \in Cursor /\ Sits(head, cap) /\ tail \in Cursor /\ Sits(tail, cap)
      /\ Gap(head, b, cap) \in 0 .. cap /\ Gap(tail, b, cap) \in 0 .. cap
      /\ Limit \in 0 .. cap /\ Gap(tail, b, cap) <= Limit /\ Limit <= Gap(head, b, cap)
    BY <1>1, StateFacts, Sides
<1>3. size \in 0 .. cap /\ Gap(head, tail, cap) = size
    <2>1. Gap(tail, b, cap) <= Gap(head, b, cap)
        BY <1>2
    <2>2. Gap(head, tail, cap) = size
        BY <1>1, <1>2, <2>1, GapShift
    <2>3. QED
        BY <1>1, <1>2, <2>1, <2>2
<1>4. Length(head, tail, cap) = size
    BY <1>2, <1>3, LengthIsGap
<1>5. Queue = [k \in 1 .. size |-> element[(Index(tail) + k - 1) % cap]]
    BY <1>1, <1>4 DEF Queue
<1>6. \A k \in 1 .. size : element[(Index(tail) + k - 1) % cap] \in 0 .. Tags
    <2>1. ASSUME NEW k \in 1 .. size PROVE (Index(tail) + k - 1) % cap \in 0 .. 2 * cap - 1
        <3>1. PICK x : x = Index(tail) + k - 1 /\ x \in Int /\ cap \in Nat \ {0}
            BY <1>2, <1>3, CursorParts
        <3>2. x % cap \in 0 .. cap - 1
            BY <3>1, ModRange
        <3>3. QED
            BY <3>1, <3>2
    <2>2. QED
        BY <1>1, <2>1 DEF TypeOK
<1>7. Len(Queue) = size /\ Queue \in Seq(0 .. Tags)
    BY <1>3, <1>5, <1>6
<1>8. QED
    BY <1>1, <1>3, <1>5, <1>7 DEF QueueIsBetween

\* The mapped elements are the front of the queue.
LEMMA WindowFollows ==
    ASSUME CapacityFits, IInv
    PROVE  WindowIsFront
<1>1. /\ TypeOK /\ LogsOrdered /\ WindowsApart /\ FrontCopied
    BY DEF IInv
<1>2. PICK n, size, gh, gt : /\ n = count["consumer"] /\ size = Len(Queue)
                             /\ gh = Gap(cursor["producer"], Base, capacity)
                             /\ gt = Gap(cursor["consumer"], Base, capacity)
    OBVIOUS
<1>3. /\ size = gh - gt /\ size \in Nat /\ n \in Nat /\ gh \in Int /\ gt \in Int
      /\ \A k \in 1 .. size :
            Queue[k] = element[(Index(cursor["consumer"]) + k - 1) % capacity]
    BY <1>1, <1>2, QueueFacts, StateFacts, Sides DEF QueueIsBetween
<1>4. n <= size
    <2>1. gt + n <= Limit /\ Limit <= gh /\ Limit \in Int
        BY <1>1, <1>2, StateFacts DEF WindowsApart
    <2>2. QED
        BY <1>3, <2>1
<1>5. ASSUME NEW k \in 1 .. n, pc["consumer"] = "mapped"
      PROVE  element[Place(Index(cursor["consumer"]) + k - 1)] = Queue[k]
    <2>1. /\ Index(cursor["consumer"]) \in Int
        BY <1>1, StateFacts, CursorParts, Sides
    <2>2. PICK i, x : /\ i = k - 1 /\ i \in 0 .. n - 1
                      /\ x = Index(cursor["consumer"]) + i
                      /\ x = Index(cursor["consumer"]) + k - 1
        BY <1>3, <2>1
    <2>3. element[Place(x)] = element[x % capacity]
        BY <1>1, <1>2, <1>5, <2>2 DEF FrontCopied
    <2>4. k \in 1 .. size
        BY <1>3, <1>4
    <2>5. QED
        BY <1>3, <2>2, <2>3, <2>4
<1>6. QED
    BY <1>2, <1>4, <1>5 DEF WindowIsFront

\* A mapping is no larger than any later load allows.
LEMMA AssertsFollow ==
    ASSUME CapacityFits, IInv
    PROVE  AssertsHold
<1>1. TypeOK /\ LogsOrdered /\ WindowsApart
    BY DEF IInv
<1>2. PICK gh, gt : /\ gh = Gap(cursor["producer"], Base, capacity)
                    /\ gt = Gap(cursor["consumer"], Base, capacity)
    OBVIOUS
<1>3. /\ capacity \in Nat /\ gh \in Nat /\ gt \in Nat /\ Limit \in Nat
      /\ count["producer"] \in Nat /\ count["consumer"] \in Nat
      /\ gt + count["consumer"] <= Limit /\ gh + count["producer"] <= capacity
    BY <1>1, <1>2, StateFacts, Sides DEF WindowsApart
<1>4. ASSUME NEW i \in Loadable("producer")
      PROVE  count["producer"]
                <= Remaining(cursor["producer"], Loaded("producer", i), capacity)
    <2>1. PICK f : /\ f = Gap(Loaded("producer", i), Base, capacity) /\ f \in 0 .. gt
                   /\ Remaining(cursor["producer"], Loaded("producer", i), capacity)
                        = capacity - (gh - f)
        BY <1>1, <1>2, LoadedLength
    <2>2. QED
        BY <1>3, <2>1
<1>5. ASSUME NEW i \in Loadable("consumer")
      PROVE  count["consumer"]
                <= Length(Loaded("consumer", i), cursor["consumer"], capacity)
    <2>1. PICK f : /\ f = Gap(Loaded("consumer", i), Base, capacity) /\ f \in Limit .. gh
                   /\ Length(Loaded("consumer", i), cursor["consumer"], capacity) = f - gt
        BY <1>1, <1>2, LoadedLength
    <2>2. QED
        BY <1>3, <2>1
<1>6. QED
    BY <1>4, <1>5 DEF AssertsHold

\* A stale tail makes the queue look longer, a stale head makes it look shorter.
LEMMA LengthFollows ==
    ASSUME CapacityFits, IInv
    PROVE  LengthIsSafe
<1>1. TypeOK /\ LogsOrdered /\ WindowsApart
    BY DEF IInv
<1>2. PICK gh, gt, size : /\ gh = Gap(cursor["producer"], Base, capacity)
                          /\ gt = Gap(cursor["consumer"], Base, capacity)
                          /\ size = Len(Queue)
    OBVIOUS
<1>3. /\ capacity \in Nat /\ gh \in Nat /\ gt \in Nat /\ Limit \in Nat /\ size = gh - gt
    BY <1>1, <1>2, StateFacts, QueueFacts, Sides DEF QueueIsBetween
<1>4. ASSUME NEW i \in Loadable("producer")
      PROVE  LET reported == ReportedLength(cursor["producer"], Loaded("producer", i)) IN
             /\ reported = Length(cursor["producer"], Loaded("producer", i), capacity)
             /\ reported >= size
    <2>1. PICK f, l :
            /\ f = Gap(Loaded("producer", i), Base, capacity) /\ f \in 0 .. gt
            /\ l = Length(cursor["producer"], Loaded("producer", i), capacity)
            /\ l = gh - f /\ l \in 0 .. capacity
        BY <1>1, <1>2, LoadedLength
    <2>2. ReportedLength(cursor["producer"], Loaded("producer", i)) = Smaller(l, capacity)
        BY <2>1 DEF ReportedLength
    <2>3. Smaller(l, capacity) = l /\ l >= size
        BY <1>3, <2>1 DEF Smaller
    <2>4. QED
        BY <2>1, <2>2, <2>3
<1>5. ASSUME NEW i \in Loadable("consumer")
      PROVE  LET reported == ReportedLength(Loaded("consumer", i), cursor["consumer"]) IN
             /\ reported = Length(Loaded("consumer", i), cursor["consumer"], capacity)
             /\ reported <= size
    <2>1. PICK f, l :
            /\ f = Gap(Loaded("consumer", i), Base, capacity) /\ f \in Limit .. gh
            /\ l = Length(Loaded("consumer", i), cursor["consumer"], capacity)
            /\ l = f - gt /\ l \in 0 .. capacity
        BY <1>1, <1>2, LoadedLength
    <2>2. ReportedLength(Loaded("consumer", i), cursor["consumer"]) = Smaller(l, capacity)
        BY <2>1 DEF ReportedLength
    <2>3. Smaller(l, capacity) = l /\ l <= size
        BY <1>3, <2>1 DEF Smaller
    <2>4. QED
        BY <2>1, <2>2, <2>3
<1>6. QED
    BY <1>2, <1>4, <1>5 DEF LengthIsSafe

\* TypeOK: an index never reaches the capacity, and no side ever has more
\* mapped than the buffer holds.
THEOREM TypeCorrect ==
    ASSUME CapacityFits
    PROVE  Spec => []TypeOK
<1>1. IInv => TypeOK
    BY DEF IInv
<1>2. QED
    BY <1>1, Invariance, PTL

\* NoDataRace: no two accesses to an element conflict, those of the copies at
\* the looping point included.
THEOREM RaceFree ==
    ASSUME CapacityFits
    PROVE  Spec => []NoDataRace
<1>1. IInv => NoDataRace
    BY DEF IInv
<1>2. QED
    BY <1>1, Invariance, PTL

\* WindowIsFront: contiguous memory shows the consumer the oldest committed
\* elements.
THEOREM WindowCorrect ==
    ASSUME CapacityFits
    PROVE  Spec => []WindowIsFront
<1>1. IInv => WindowIsFront
    BY WindowFollows
<1>2. QED
    BY <1>1, Invariance, PTL

\* AssertsHold: the asserts of unmap_produce and unmap_consume hold.
THEOREM AssertsCorrect ==
    ASSUME CapacityFits
    PROVE  Spec => []AssertsHold
<1>1. IInv => AssertsHold
    BY AssertsFollow
<1>2. QED
    BY <1>1, Invariance, PTL

\* LengthIsSafe: length() errs on the safe side for whoever calls it.
THEOREM LengthCorrect ==
    ASSUME CapacityFits
    PROVE  Spec => []LengthIsSafe
<1>1. IInv => LengthIsSafe
    BY LengthFollows
<1>2. QED
    BY <1>1, Invariance, PTL
-----------------------------------------------------------------------------
(* The ring buffer implements the bounded queue.                           *)

\* How to show that a sequence is a concatenation,
LEMMA Joined ==
    ASSUME NEW S, NEW q \in Seq(S), NEW r \in Seq(S), NEW both \in Seq(S),
           Len(both) = Len(q) + Len(r), \A k \in 1 .. Len(q) : both[k] = q[k],
           \A i \in 1 .. Len(r) : both[Len(q) + i] = r[i]
    PROVE  both = q \o r
<1>1. Len(q) \in Nat /\ Len(r) \in Nat
    BY LenProperties
<1>2. PICK s : s = q \o r
    OBVIOUS
<1>3. /\ s \in Seq(S) /\ Len(s) = Len(q) + Len(r)
      /\ \A k \in 1 .. Len(q) + Len(r) :
            s[k] = IF k <= Len(q) THEN q[k] ELSE r[k - Len(q)]
    BY <1>2, ConcatProperties
<1>4. ASSUME NEW k \in 1 .. Len(both) PROVE both[k] = s[k]
    <2>1. CASE k <= Len(q)
        BY <1>1, <1>3, <2>1
    <2>2. CASE ~(k <= Len(q))
        <3>1. PICK i : i = k - Len(q) /\ i \in 1 .. Len(r) /\ k = Len(q) + i
            BY <1>1, <2>2
        <3>2. s[k] = r[i]
            BY <1>3, <2>2, <3>1
        <3>3. QED
            BY <3>1, <3>2
    <2>3. QED
        BY <2>1, <2>2
<1>5. QED
    BY <1>2, <1>3, <1>4, SeqEqual

\* and what is left of one without its first elements.
LEMMA LaterPart ==
    ASSUME NEW S, NEW q \in Seq(S), NEW n \in 0 .. Len(q), NEW rest \in Seq(S),
           Len(rest) = Len(q) - n, \A k \in 1 .. Len(rest) : rest[k] = q[n + k]
    PROVE  rest = SubSeq(q, n + 1, Len(q))
<1>1. Len(q) \in Nat
    BY LenProperties
<1>2. PICK m, l : m = n + 1 /\ l = Len(q) /\ m \in Int /\ l \in Int
    BY <1>1
<1>3. PICK s : s = SubSeq(q, m, l)
    OBVIOUS
<1>4. \A i \in m .. l : q[i] \in S
    BY <1>2, <1>1, ElementOfSeq
<1>5. /\ s \in Seq(S) /\ Len(s) = (IF m <= l THEN l - m + 1 ELSE 0)
      /\ \A i \in 1 .. l - m + 1 : s[i] = q[m + i - 1]
    BY <1>2, <1>3, <1>4, SubSeqProperties
<1>6. ASSUME NEW k \in 1 .. Len(rest) PROVE rest[k] = s[k]
    <2>1. k \in 1 .. l - m + 1 /\ m + k - 1 = n + k
        BY <1>2, <1>1
    <2>2. s[k] = q[n + k]
        BY <1>5, <2>1
    <2>3. QED
        BY <2>2
<1>7. Len(rest) = Len(s)
    BY <1>2, <1>1, <1>5
<1>8. QED
    BY <1>2, <1>3, <1>5, <1>6, <1>7, SeqEqual

\* Counted from t on or from h on, it is the same place.
LEMMA SamePlace ==
    ASSUME NEW cap \in Nat, NEW t, Sits(t, cap), NEW h, Sits(h, cap),
           Gap(h, t, cap) >= 0, NEW j \in Nat, Gap(h, t, cap) + j < cap
    PROVE  (Index(t) + Gap(h, t, cap) + j) % cap = (Index(h) + j) % cap
<1>1. /\ Index(t) \in Nat /\ Index(h) \in Nat /\ Index(t) < cap /\ Index(h) < cap
      /\ Gap(h, t, cap) \in Nat /\ cap \in Nat \ {0}
    BY CursorParts, GapType DEF Sits
<1>2. PICK x, y : /\ x = Index(h) + j /\ x \in Nat /\ x < 2 * cap
                  /\ y = Index(t) + Gap(h, t, cap) + j /\ y \in Nat /\ y < 2 * cap
    BY <1>1
<1>3. y = IF Loop(h) # Loop(t) THEN x + cap ELSE x
    BY <1>1, <1>2 DEF Gap
<1>4. /\ x % cap = IF x < cap THEN x ELSE x - cap
      /\ y % cap = IF y < cap THEN y ELSE y - cap
    BY <1>1, <1>2, DivMod
<1>5. x % cap = y % cap
    BY <1>1, <1>2, <1>3, <1>4
<1>6. QED
    BY <1>2, <1>5

\* A step that keeps the cursors and what is queued in its place.
LEMMA QueueKept ==
    ASSUME CapacityFits, TypeOK, LogsOrdered, WindowsApart,
           capacity' = capacity, cursor' = cursor,
           \A k \in 1 .. Len(Queue) :
                LET p == (Index(cursor["consumer"]) + k - 1) % capacity IN
                element'[p] = element[p]
    PROVE  Queue' = Queue
<1>1. PICK head, tail, size : /\ head = cursor["producer"] /\ tail = cursor["consumer"]
                              /\ size = Length(head, tail, capacity)
    OBVIOUS
<1>2. Queue = [k \in 1 .. size |-> element[(Index(tail) + k - 1) % capacity]]
    BY <1>1 DEF Queue
<1>3. Queue' = [k \in 1 .. size |-> element'[(Index(tail) + k - 1) % capacity]]
    BY <1>1 DEF Queue, Length, Index, Loop
<1>4. Len(Queue) = size
    <2>1. /\ size = Gap(head, tail, capacity)
          /\ Gap(head, tail, capacity) = Len(Queue)
        BY <1>1, QueueFacts, StateFacts, LengthIsGap, Sides DEF QueueIsBetween
    <2>2. QED
        BY <2>1
<1>5. \A k \in 1 .. size : element'[(Index(tail) + k - 1) % capacity]
                            = element[(Index(tail) + k - 1) % capacity]
    BY <1>1, <1>4
<1>6. QED
    BY <1>2, <1>3, <1>5

\* The places of what is queued: no further than the head, and not behind the
\* end of the buffer.
LEMMA QueuedPlaces ==
    ASSUME CapacityFits, TypeOK, LogsOrdered, WindowsApart, NEW k \in 1 .. Len(Queue)
    PROVE  LET p == (Index(cursor["consumer"]) + k - 1) % capacity IN
           /\ p \in 0 .. capacity - 1
           /\ p \in 0 .. 2 * capacity - 1
           /\ Offset(p, Base, capacity) < Gap(cursor["producer"], Base, capacity)
<1>1. PICK gh, gt, from : /\ gh = Gap(cursor["producer"], Base, capacity)
                          /\ gt = Gap(cursor["consumer"], Base, capacity)
                          /\ from = Index(cursor["consumer"])
    OBVIOUS
<1>2. /\ capacity \in Nat /\ gh \in 0 .. capacity /\ gt \in Nat /\ Len(Queue) = gh - gt
    BY <1>1, QueueFacts, StateFacts, Sides DEF QueueIsBetween
<1>3. from \in Int
    BY <1>1, StateFacts, CursorParts, Sides
<1>4. PICK i : /\ i = k - 1 /\ i \in Nat /\ gt + i < capacity /\ gt + i < gh
               /\ from + k - 1 = from + i
    BY <1>2, <1>3
<1>5. /\ (from + i) % capacity \in 0 .. capacity - 1
      /\ Offset((from + i) % capacity, Base, capacity) = gt + i
    BY <1>1, <1>4, WindowPlace, Sides
<1>6. PICK p : /\ p = (from + i) % capacity /\ p \in 0 .. capacity - 1
               /\ Offset(p, Base, capacity) = gt + i
    BY <1>5
<1>7. p \in 0 .. 2 * capacity - 1 /\ Offset(p, Base, capacity) < gh
    BY <1>2, <1>4, <1>6
<1>8. (from + k - 1) % capacity = p
    BY <1>4, <1>6
<1>9. QED
    BY <1>1, <1>6, <1>7, <1>8

\* The store of the head commits all that was filled.
LEMMA StoreHeadCommits ==
    ASSUME CapacityFits, IInv, StoreHead
    PROVE  Fifo!Commit(count["producer"]) /\ count["producer"] \in 0 .. capacity
<1>1. /\ TypeOK /\ LogsOrdered /\ WindowsApart /\ AccessesApart /\ FilledInOrder
    BY DEF IInv
<1>2. /\ pc["producer"] = "unmapping"
      /\ Release("producer") /\ committed' = (committed + count["producer"]) % Tags
      /\ capacity' = capacity /\ element' = element
      /\ count' = [count EXCEPT !["producer"] = 0]
    BY DEF StoreHead
<1>3. IInv'
    BY StoreHeadInv
<1>4. PICK cap, head, tail, b, n, size, next :
        /\ cap = capacity /\ head = cursor["producer"] /\ tail = cursor["consumer"]
        /\ b = Base /\ n = count["producer"] /\ size = Len(Queue) /\ next = cursor'["producer"]
    OBVIOUS
<1>5. /\ cap \in Nat /\ n \in 0 .. cap
      /\ Sits(head, cap) /\ Sits(tail, cap) /\ head \in Cursor /\ tail \in Cursor
      /\ Gap(head, b, cap) \in Nat /\ Gap(tail, b, cap) \in Nat
      /\ size = Gap(head, b, cap) - Gap(tail, b, cap) /\ size \in 0 .. cap
      /\ Gap(head, tail, cap) = size
      /\ Gap(head, b, cap) + n <= cap /\ Queue \in Seq(0 .. Tags)
      /\ \A k \in 1 .. size : Queue[k] = element[(Index(tail) + k - 1) % cap]
    BY <1>1, <1>4, StateFacts, QueueFacts, Sides DEF WindowsApart, QueueIsBetween
<1>6. /\ Base' = b /\ cursor'["consumer"] = tail
      /\ Gap(next, b, cap) = Gap(head, b, cap) + n
    BY <1>1, <1>2, <1>4, ReleaseInv, Sides
<1>7. /\ Len(Queue') = size + n /\ Queue' \in Seq(0 .. Tags)
      /\ \A k \in 1 .. size + n : Queue'[k] = element[(Index(tail) + k - 1) % cap]
    <2>1. TypeOK' /\ LogsOrdered' /\ WindowsApart'
        BY <1>3 DEF IInv
    <2>2. CapacityFits'
        BY DEF CapacityFits
    <2>3. QueueIsBetween'
        BY <2>1, <2>2, QueueFacts, PTL
    <2>4. Gap(next, b, cap) - Gap(tail, b, cap) = size + n
        BY <1>5, <1>6
    <2>5. QED
        BY <1>2, <1>4, <1>6, <2>3, <2>4 DEF QueueIsBetween, Index
<1> DEFINE new == [i \in 1 .. n |-> (committed + i - 1) % Tags]
<1>8. /\ committed \in Nat /\ Tags \in Nat \ {0}
      /\ new \in Seq(0 .. Tags) /\ Len(new) = n
    <2>1. committed \in Nat /\ Tags \in Nat \ {0}
        BY <1>1, RingBufferAssumption DEF TypeOK
    <2>2. ASSUME NEW i \in 1 .. n PROVE (committed + i - 1) % Tags \in 0 .. Tags
        <3>1. PICK x : x = committed + i - 1 /\ x \in Int
            BY <1>5, <2>1
        <3>2. x % Tags \in 0 .. Tags - 1
            BY <2>1, <3>1, ModRange
        <3>3. QED
            BY <2>1, <3>1, <3>2
    <2>3. QED
        BY <1>5, <2>1, <2>2
<1>9. ASSUME NEW i \in 1 .. n
      PROVE  element[(Index(tail) + (size + i) - 1) % cap] = (committed + i - 1) % Tags
    <2>1. PICK j : /\ j = i - 1 /\ j \in 0 .. n - 1 /\ j \in Nat
                   /\ committed + i - 1 = committed + j
                   /\ Gap(head, tail, cap) + j < cap
        BY <1>5, <1>8
    <2>2. (Index(tail) + Gap(head, tail, cap) + j) % cap = (Index(head) + j) % cap
        BY <1>5, <2>1, SamePlace
    <2>3. Index(tail) + (size + i) - 1 = Index(tail) + Gap(head, tail, cap) + j
        <3>1. Index(tail) \in Int
            BY <1>5, CursorParts
        <3>2. PICK x, g : x = Index(tail) /\ g = Gap(head, tail, cap) /\ x \in Int /\ g \in Int
            BY <1>5, <3>1
        <3>3. size = g /\ size \in Int /\ i \in Int /\ j = i - 1
            BY <1>5, <2>1, <3>2
        <3>4. x + (size + i) - 1 = x + g + j
            BY <3>2, <3>3
        <3>5. QED
            BY <3>2, <3>4
    <2>4. element[(Index(head) + j) % cap] = (committed + j) % Tags
        BY <1>1, <1>2, <1>4, <2>1 DEF FilledInOrder
    <2>5. QED
        BY <2>1, <2>2, <2>3, <2>4
<1> HIDE DEF new
<1>10. Queue' = Queue \o new
    <2>1. \A k \in 1 .. size : k \in 1 .. size + n
        BY <1>5
    <2>2. ASSUME NEW i \in 1 .. n PROVE Queue'[size + i] = new[i]
        <3>1. size + i \in 1 .. size + n
            BY <1>5
        <3>2. QED
            BY <1>7, <1>9, <3>1 DEF new
    <2>3. \A k \in 1 .. size : Queue'[k] = Queue[k]
        BY <1>5, <1>7, <2>1
    <2>4. PICK old, later : old = Queue /\ later = Queue'
        OBVIOUS
    <2>5. /\ old \in Seq(0 .. Tags) /\ new \in Seq(0 .. Tags) /\ later \in Seq(0 .. Tags)
          /\ Len(old) = size /\ Len(later) = Len(old) + Len(new)
          /\ \A k \in 1 .. Len(old) : later[k] = old[k]
          /\ \A i \in 1 .. Len(new) : later[Len(old) + i] = new[i]
        BY <1>4, <1>5, <1>7, <1>8, <2>2, <2>3, <2>4
    <2>6. later = old \o new
        BY <2>5, Joined
    <2>7. QED
        BY <2>4, <2>6
<1>11. size + n <= cap
    BY <1>5
<1>12. QED
    BY <1>2, <1>4, <1>5, <1>10, <1>11 DEF Fifo!Commit, new

\* The store of the tail releases all that was mapped.
LEMMA StoreTailReleases ==
    ASSUME CapacityFits, IInv, StoreTail
    PROVE  Fifo!Release(count["consumer"]) /\ count["consumer"] \in 0 .. capacity
<1>1. /\ TypeOK /\ LogsOrdered /\ WindowsApart /\ AccessesApart
    BY DEF IInv
<1>2. /\ Release("consumer") /\ committed' = committed
      /\ capacity' = capacity /\ element' = element
      /\ count' = [count EXCEPT !["consumer"] = 0]
    BY DEF StoreTail
<1>3. IInv'
    BY StoreTailInv
<1>4. PICK cap, head, tail, b, n, size, next, old, later :
        /\ cap = capacity /\ head = cursor["producer"] /\ tail = cursor["consumer"]
        /\ b = Base /\ n = count["consumer"] /\ size = Len(Queue) /\ next = cursor'["consumer"]
        /\ old = Queue /\ later = Queue'
    OBVIOUS
<1>5. /\ cap \in Nat /\ 2 * cap <= LoopFlag /\ n \in 0 .. cap
      /\ Sits(tail, cap) /\ tail \in Cursor /\ Gap(tail, tail, cap) = 0
      /\ Gap(head, b, cap) \in Nat /\ Gap(tail, b, cap) \in Nat
      /\ size = Gap(head, b, cap) - Gap(tail, b, cap) /\ size \in 0 .. cap
      /\ Limit \in Nat /\ Limit <= Gap(head, b, cap) /\ Gap(tail, b, cap) + n <= Limit
      /\ old \in Seq(0 .. Tags) /\ Len(old) = size
      /\ \A k \in 1 .. size : old[k] = element[(Index(tail) + k - 1) % cap]
    BY <1>1, <1>4, StateFacts, QueueFacts, GapType, Sides DEF WindowsApart, QueueIsBetween
<1>6. n \in 0 .. size
    BY <1>5
<1>7. /\ Base' = b /\ cursor'["producer"] = head
      /\ Gap(next, b, cap) = Gap(tail, b, cap) + n
      /\ next = Advanced(tail, n, cap)
    BY <1>1, <1>2, <1>4, ReleaseInv, Sides
<1>8. Sits(next, cap) /\ Gap(next, tail, cap) = n
    <2>1. Gap(tail, tail, cap) >= 0 /\ Gap(tail, tail, cap) + n <= cap /\ n \in Nat
        BY <1>5
    <2>2. /\ Sits(Advanced(tail, n, cap), cap)
          /\ Gap(Advanced(tail, n, cap), tail, cap) = Gap(tail, tail, cap) + n
        BY <1>5, <2>1, GapAdvance
    <2>3. QED
        BY <1>5, <1>7, <2>2
<1>9. /\ Len(later) = size - n /\ later \in Seq(0 .. Tags)
      /\ \A k \in 1 .. size - n : later[k] = element[(Index(next) + k - 1) % cap]
    <2>1. TypeOK' /\ LogsOrdered' /\ WindowsApart'
        BY <1>3 DEF IInv
    <2>2. CapacityFits'
        BY DEF CapacityFits
    <2>3. QueueIsBetween'
        BY <2>1, <2>2, QueueFacts, PTL
    <2>4. Gap(head, b, cap) - Gap(next, b, cap) = size - n
        BY <1>5, <1>7
    <2>5. /\ capacity' = cap /\ element' = element /\ cursor'["producer"] = head
          /\ cursor'["consumer"] = next /\ Base' = b /\ Queue' = later
        BY <1>2, <1>4, <1>7
    <2>6. /\ Len(later) = Gap(head, b, cap) - Gap(next, b, cap) /\ later \in Seq(0 .. Tags)
          /\ \A k \in 1 .. Gap(head, b, cap) - Gap(next, b, cap) :
                later[k] = element[(Index(next) + k - 1) % cap]
        BY <2>3, <2>5 DEF QueueIsBetween, Index
    <2>7. QED
        BY <2>4, <2>6
<1>10. ASSUME NEW k \in 1 .. size - n PROVE later[k] = old[n + k]
    <2>1. PICK j : j = k - 1 /\ j \in Nat /\ n + j < cap /\ n + k \in 1 .. size
        <3>1. /\ cap \in Nat /\ size \in 0 .. cap /\ n \in 0 .. size
              /\ k \in Int /\ 1 <= k /\ k <= size - n
            BY <1>5, <1>6
        <3>2. k - 1 \in Nat /\ n + (k - 1) < cap /\ n + k \in 1 .. size
            BY <3>1
        <3>3. QED
            BY <3>2
    <2>2. PICK x, y : /\ x = Index(tail) /\ x \in Int /\ y = Index(next) /\ y \in Int
                      /\ n \in Int /\ k \in Int /\ j = k - 1
        BY <1>5, <1>6, <1>8, <2>1, CursorParts DEF Sits
    <2>3. (x + n + j) % cap = (y + j) % cap
        <3>1. PICK g : g = Gap(next, tail, cap) /\ g = n /\ g >= 0 /\ g + j < cap
            BY <1>6, <1>8, <2>1
        <3>2. Sits(tail, cap) /\ Sits(next, cap) /\ cap \in Nat /\ j \in Nat
            BY <1>5, <1>8, <2>1
        <3>3. (Index(tail) + Gap(next, tail, cap) + j) % cap = (Index(next) + j) % cap
            BY <3>1, <3>2, SamePlace
        <3>4. QED
            BY <2>2, <3>1, <3>3
    <2>4. x + (n + k) - 1 = x + n + j /\ y + k - 1 = y + j
        BY <2>2
    <2>5. old[n + k] = element[(x + (n + k) - 1) % cap]
        BY <1>5, <2>1, <2>2
    <2>6. later[k] = element[(y + k - 1) % cap]
        BY <1>9, <2>2
    <2>7. QED
        BY <2>3, <2>4, <2>5, <2>6
<1>11. later = SubSeq(old, n + 1, Len(old))
    <2>1. n \in 0 .. Len(old) /\ Len(later) = Len(old) - n
        BY <1>5, <1>6, <1>9
    <2>2. \A k \in 1 .. Len(later) : later[k] = old[n + k]
        BY <1>9, <1>10
    <2>3. QED
        BY <1>5, <1>9, <2>1, <2>2, LaterPart
<1>12. Queue' = SubSeq(Queue, n + 1, Len(Queue)) /\ n <= Len(Queue)
    BY <1>4, <1>5, <1>6, <1>11
<1>13. QED
    BY <1>2, <1>4, <1>5, <1>12 DEF Fifo!Release

\* The steps before a store leave the queue alone, those that write elements
\* too.
LEMMA FillKeepsQueue ==
    ASSUME CapacityFits, IInv, Fill
    PROVE  Queue' = Queue
<1>1. TypeOK /\ LogsOrdered /\ WindowsApart
    BY DEF IInv
<1>2. capacity' = capacity /\ cursor' = cursor
    BY DEF Fill
<1>3. ASSUME NEW k \in 1 .. Len(Queue)
      PROVE  LET p == (Index(cursor["consumer"]) + k - 1) % capacity IN
             element'[p] = element[p]
    <2>1. PICK p, gh : /\ p = (Index(cursor["consumer"]) + k - 1) % capacity
                       /\ gh = Gap(cursor["producer"], Base, capacity)
        OBVIOUS
    <2>2. /\ p \in 0 .. 2 * capacity - 1 /\ Offset(p, Base, capacity) < gh
          /\ gh \in Int /\ Offset(p, Base, capacity) \in Int
        BY <1>1, <2>1, QueuedPlaces, StateFacts, OffsetType, Sides
    <2>3. element'[p] = element[p]
        BY <1>1, <2>1, <2>2, FillWrites
    <2>4. QED
        BY <2>1, <2>3
<1>4. QED
    BY <1>1, <1>2, <1>3, QueueKept

\* The copy of unmap_produce is ahead of the head,
LEMMA UnmapProduceKeepsQueue ==
    ASSUME CapacityFits, IInv, NEW n \in Request, UnmapProduce(n)
    PROVE  Queue' = Queue
<1>1. TypeOK /\ LogsOrdered /\ WindowsApart
    BY DEF IInv
<1>2. capacity' = capacity /\ cursor' = cursor
    BY DEF UnmapProduce
<1>3. \A p \in 0 .. 2 * capacity - 1 :
        Offset(p, Base, capacity) < Gap(cursor["producer"], Base, capacity)
            => element'[p] = element[p]
    BY UnmapProduceInv
<1>4. \A k \in 1 .. Len(Queue) :
        LET p == (Index(cursor["consumer"]) + k - 1) % capacity IN
        element'[p] = element[p]
    BY <1>1, <1>3, QueuedPlaces
<1>5. QED
    BY <1>1, <1>2, <1>4, QueueKept

\* and that of map_consume behind the end of the buffer.
LEMMA CopyOverflowKeepsQueue ==
    ASSUME CapacityFits, IInv, CopyOverflow
    PROVE  Queue' = Queue
<1>1. TypeOK /\ LogsOrdered /\ WindowsApart
    BY DEF IInv
<1>2. capacity' = capacity /\ cursor' = cursor
    BY DEF CopyOverflow
<1>3. \A p \in 0 .. capacity - 1 : element'[p] = element[p]
    BY CopyOverflowInv
<1>4. \A k \in 1 .. Len(Queue) :
        LET p == (Index(cursor["consumer"]) + k - 1) % capacity IN
        element'[p] = element[p]
    BY <1>1, <1>3, QueuedPlaces
<1>5. QED
    BY <1>1, <1>2, <1>4, QueueKept

\* ImplementsFifo: a commit takes effect at the store of the head and a
\* release at the store of the tail; nothing else changes the queue.
THEOREM RingBufferIsFifo ==
    ASSUME CapacityFits
    PROVE  Spec => ImplementsFifo
<1>1. Init => Fifo!Init
    <2> SUFFICES ASSUME Init PROVE Fifo!Init
        OBVIOUS
    <2>1. /\ capacity \in Capacities /\ committed = 0
          /\ cursor["producer"] = 0 /\ cursor["consumer"] = 0
        BY Sides DEF Init
    <2>2. Len(Queue) = 0 /\ Queue \in Seq(0 .. Tags)
        <3>1. IInv
            BY InitInv
        <3>2. /\ Queue \in Seq(0 .. Tags)
              /\ Len(Queue) = Gap(cursor["producer"], Base, capacity)
                                - Gap(cursor["consumer"], Base, capacity)
              /\ Gap(cursor["producer"], Base, capacity) \in Int
            BY <3>1, QueueFacts, StateFacts, Sides DEF IInv, QueueIsBetween
        <3>3. QED
            BY <2>1, <3>2
    <2>3. Queue = << >>
        BY <2>2, EmptySeq
    <2>4. QED
        BY <2>1, <2>3 DEF Fifo!Init
<1>2. IInv /\ [Next]_vars => [Fifo!Next]_(Fifo!vars)
    <2> SUFFICES ASSUME IInv, [Next]_vars PROVE [Fifo!Next]_(Fifo!vars)
        OBVIOUS
    <2>1. TypeOK /\ LogsOrdered /\ WindowsApart
        BY DEF IInv
    <2>2. ASSUME capacity' = capacity, cursor' = cursor, element' = element,
                 committed' = committed
          PROVE  UNCHANGED (Fifo!vars)
        <3>1. Queue' = Queue
            BY <2>1, <2>2, QueueKept
        <3>2. QED
            BY <2>2, <3>1 DEF Fifo!vars
    <2>3. ASSUME NEW n \in Request, NEW i \in Loadable("producer"), MapProduce(n, i)
          PROVE  UNCHANGED (Fifo!vars)
        BY <2>2, <2>3 DEF MapProduce
    <2>4. CASE Fill
        BY <2>4, FillKeepsQueue DEF Fill, Fifo!vars
    <2>5. ASSUME NEW n \in Request, UnmapProduce(n)
          PROVE  UNCHANGED (Fifo!vars)
        BY <2>5, UnmapProduceKeepsQueue DEF UnmapProduce, Fifo!vars
    <2>6. CASE StoreHead
        BY <2>6, StoreHeadCommits DEF Fifo!Next
    <2>7. ASSUME NEW n \in Request, NEW i \in Loadable("consumer"), MapConsume(n, i)
          PROVE  UNCHANGED (Fifo!vars)
        BY <2>2, <2>7 DEF MapConsume
    <2>8. CASE CopyOverflow
        BY <2>8, CopyOverflowKeepsQueue DEF CopyOverflow, Fifo!vars
    <2>9. ASSUME NEW n \in Request, UnmapConsume(n)
          PROVE  UNCHANGED (Fifo!vars)
        BY <2>2, <2>9 DEF UnmapConsume
    <2>10. CASE StoreTail
        BY <2>10, StoreTailReleases DEF Fifo!Next
    <2>11. CASE UNCHANGED vars
        BY <2>2, <2>11 DEF vars
    <2>12. QED
        BY <2>3, <2>4, <2>5, <2>6, <2>7, <2>8, <2>9, <2>10, <2>11
           DEF Next, Produce, Consume
<1>3. QED
    BY <1>1, <1>2, Invariance, PTL DEF Spec, ImplementsFifo, Fifo!Spec
=============================================================================
