----------------------------- MODULE DequeProof ------------------------------
(***************************************************************************)
(* What Deque promises, for any number of thieves, any capacity and any    *)
(* number of calls, as long as head and tail do not pass the greatest      *)
(* signed word.                                                            *)
(***************************************************************************)
EXTENDS Deque, SequenceTheorems, TLAPS

Facts == INSTANCE C11MemoryProof

First == Signed(Start)

\* The deque's counters as signed words: what they count does not wrap.
CountersFit ==
    /\ First - 1 >= 0 - Modulus \div 2
    /\ First + MaxPushes < Modulus \div 2

MemoryOK == Facts!MemoryInv(Nat)

Last(l) == Len(history[l])

PlaceOf(p) == <<"slot", p>>

\* Where the elements begin and end. Positions are integers.
HeadPos == Signed(Memory!Latest(HEAD))

EndPos == Signed(Reach)

\* What the j-th store of the tail says, and what a thread gains that acquires it.
TailAt(j) == Signed(Memory!Value(TAIL, j))

TailView(j) == history[TAIL][j].view

\* A thread with view w finds the element at position q, and what it stands for.
Covers(w, q) ==
    /\ w[SlotOf(q)] = Last(SlotOf(q))
    /\ w[DATA] > Memory!Latest(SlotOf(q))

Pushing == pc[Owner] \in {"push_data", "push_item", "push_tail"}

Taking == pc[Owner] \in {"take_fence", "take_head", "take_item", "take_race", "restore"}

\* Past the fence of its take.
Fenced == pc[Owner] \in {"take_head", "take_item", "take_race", "restore"}

\* May still take the last element without a race.
Reserving == pc[Owner] \in {"take_head", "take_item"}

\* Past the fence of its steal.
Looking(t) == pc[t] \in {"steal_tail", "steal_item", "steal_race"}

-----------------------------------------------------------------------------
CallType ==
    /\ pc \in [Thread -> {"idle", "push_data", "push_item", "push_tail", "take_fence", "take_head",
                          "take_item", "take_race", "restore", "steal_fence",
                          "steal_tail", "steal_item", "steal_race"}]
    /\ head \in [Thread -> Index] /\ tail \in [Thread -> Index]
    /\ x \in [Thread -> 0 .. MaxPushes] /\ taken \in [Thread -> 0 .. MaxPushes]
    /\ pushed \in 0 .. MaxPushes
    /\ calls \in [Thread -> 0 .. MaxTakes + MaxSteals]
    /\ pc[Owner] = "idle" \/ Pushing \/ Taking
    /\ \A t \in Thief : pc[t] \in {"idle", "steal_fence"} \/ Looking(t)

ValuesFit ==
    /\ \A j \in 1 .. Last(TAIL) : Memory!Value(TAIL, j) \in Index
    /\ \A p \in Slot : \A i \in 1 .. Last(PlaceOf(p)) :
            Memory!Value(PlaceOf(p), i) \in 0 .. MaxPushes

\* The head only counts up.
HeadCounts ==
    \A i \in 1 .. Last(HEAD) :
        /\ Memory!Value(HEAD, i) \in Index
        /\ Signed(Memory!Value(HEAD, i)) = First + i - 1

WithinCapacity ==
    /\ HeadPos <= EndPos /\ EndPos <= HeadPos + Capacity
    /\ EndPos <= First + pushed

OwnerCall ==
    /\ Pushing =>
            /\ tail[Owner] = OwnTail /\ x[Owner] = pushed /\ pushed >= 1
            /\ EndPos < HeadPos + Capacity /\ EndPos < First + pushed
    /\ pc[Owner] = "push_tail" => Memory!Latest(SlotOf(tail[Owner])) = x[Owner]
    /\ Taking => tail[Owner] = OwnTail /\ Signed(tail[Owner]) = EndPos - 1
    /\ Fenced => order[TAIL] = Last(TAIL)
    /\ Reserving => HeadPos < EndPos \/ EndPos <= First + current[Owner][HEAD]
    /\ pc[Owner] \in {"take_item", "take_race"} =>
            /\ Signed(head[Owner]) = First + current[Owner][HEAD] - 1
            /\ Signed(head[Owner]) <= Signed(tail[Owner])
    /\ pc[Owner] = "take_race" =>
            head[Owner] = tail[Owner] /\ x[Owner] = Memory!Latest(SlotOf(tail[Owner]))

\* The owner alone stores to everything but the head.
OwnerKnows == \A l \in Location \ {HEAD} : current[Owner][l] = Last(l)

\* What an item stands for is written before the item.
DataFirst ==
    /\ Last(DATA) = (IF pc[Owner] = "push_data" THEN pushed ELSE pushed + 1)
    /\ \A p \in Slot : Memory!Latest(PlaceOf(p)) < Last(DATA)

\* The owner's stores of the tail hand on all elements.
AllReleased ==
    pc[Owner] # "push_tail" => \A p \in Slot : Covers(released[Owner], p)

\* A fence of the owner shows it the head, or at worst the head before.
HeadOrdered ==
    Last(HEAD) - 1 <= order[HEAD] \/ Last(HEAD) - 1 <= current[Owner][HEAD]

\* The tails that a thread past its fence may find are none of an element taken.
TailsTrue ==
    \A j \in order[TAIL] .. Last(TAIL) :
        /\ TailAt(j) <= EndPos
        /\ \A q \in HeadPos .. TailAt(j) - 1 : Covers(TailView(j), q)

\* While the owner may take the last element without a race, a thief at that
\* element is one that the owner will notice, or that has noticed the owner.
Noticed(t) ==
    Looking(t) /\ Reserving =>
        Signed(head[t]) <= First + current[Owner][HEAD] - 1 \/ current[t][TAIL] = Last(TAIL)

\* What a thief knows whose compare_exchange may still succeed.
ThiefCall(t) ==
    LET h == Signed(head[t]) IN
    /\ pc[t] # "idle" => h \in First .. First + current[t][HEAD] - 1
    /\ Looking(t) => h <= First + order[HEAD] - 1
    /\ Noticed(t)
    /\ pc[t] = "steal_tail" /\ h = HeadPos =>
            \A j \in current[t][TAIL] .. Last(TAIL) :
                TailAt(j) > h => h < EndPos /\ Covers(TailView(j), h)
    /\ pc[t] \in {"steal_item", "steal_race"} => h < TailAt(current[t][TAIL])
    /\ pc[t] = "steal_item" /\ h = HeadPos => h < EndPos /\ Covers(current[t], h)
    /\ pc[t] = "steal_race" /\ h = HeadPos =>
            h < EndPos /\ x[t] = Memory!Latest(SlotOf(h)) /\ x[t] < current[t][DATA]

IInv ==
    /\ MemoryOK /\ CallType /\ ValuesFit
    /\ HeadCounts /\ WithinCapacity
    /\ OwnerCall /\ OwnerKnows /\ DataFirst /\ AllReleased /\ HeadOrdered
    /\ TailsTrue
    /\ \A t \in Thief : ThiefCall(t)
    /\ PayloadVisible

-----------------------------------------------------------------------------
(* Counters                                                                *)

\* What there is of a remainder,
LEMMA Division ==
    ASSUME NEW m \in Nat \ {0}, NEW z \in Int
    PROVE  \E a \in Int, r \in 0 .. m - 1 : r = z % m /\ z = m * a + r
<1>1. z % m \in 0 .. m - 1 /\ z \div m \in Int /\ z = m * (z \div m) + (z % m)
    OBVIOUS
<1>2. QED
    BY <1>1

\* A number of turns of m away.
Turns(m, y, z) == \E a \in Int : y = m * a + z

\* and what makes one,
LEMMA ModUnique ==
    ASSUME NEW m \in Nat \ {0}, NEW z \in Int, NEW r \in 0 .. m - 1, Turns(m, z, r)
    PROVE  z % m = r
<1>0. PICK a \in Int : z = m * a + r
    BY DEF Turns
<1>1. PICK b \in Int, s \in 0 .. m - 1 : s = z % m /\ z = m * b + s
    BY Division
<1>2. CASE a = b
    BY <1>0, <1>1, <1>2
<1>3. CASE a < b
    <2>1. PICK c : c = b - a /\ c \in Int /\ c >= 1 /\ m * c = r - s
        BY <1>0, <1>1, <1>3
    <2>2. m * c >= m
        BY <2>1
    <2>3. QED
        BY <1>1, <2>1, <2>2
<1>4. CASE b < a
    <2>1. PICK c : c = a - b /\ c \in Int /\ c >= 1 /\ m * c = s - r
        BY <1>0, <1>1, <1>4
    <2>2. m * c >= m
        BY <2>1
    <2>3. QED
        BY <1>1, <2>1, <2>2
<1>5. QED
    BY <1>1, <1>2, <1>3, <1>4

\* which a number of turns does not change,
LEMMA ModTurns ==
    ASSUME NEW m \in Nat \ {0}, NEW y \in Int, NEW z \in Int, Turns(m, y, z)
    PROVE  y % m = z % m
<1>1. PICK b \in Int, s \in 0 .. m - 1 : s = z % m /\ z = m * b + s
    BY Division
<1>2. PICK a \in Int : y = m * a + z
    BY DEF Turns
<1>3. PICK c \in Int : c = a + b
    OBVIOUS
<1>4. y = m * c + s
    BY <1>1, <1>2, <1>3
<1>5. Turns(m, y, s)
    BY <1>4 DEF Turns
<1>6. y % m = s
    BY <1>5, ModUnique
<1>7. QED
    BY <1>1, <1>6

\* but less than a turn does.
LEMMA ModApart ==
    ASSUME NEW m \in Nat \ {0}, NEW y \in Int, NEW z \in Int, y < z, z < y + m
    PROVE  y % m # z % m
<1>1. PICK b \in Int, s \in 0 .. m - 1 : s = y % m /\ y = m * b + s
    BY Division
<1>2. PICK a \in Int, r \in 0 .. m - 1 : r = z % m /\ z = m * a + r
    BY Division
<1>3. SUFFICES ASSUME r = s PROVE FALSE
    BY <1>1, <1>2
<1>4. PICK c : c = a - b /\ c \in Int /\ m * c = z - y
    BY <1>1, <1>2, <1>3
<1>5. CASE c >= 1
    <2>1. m * c >= m
        BY <1>4, <1>5
    <2>2. QED
        BY <1>4, <2>1
<1>6. CASE c <= 0
    <2>1. m * c <= 0
        BY <1>4, <1>6
    <2>2. QED
        BY <1>4, <2>1
<1>7. QED
    BY <1>4, <1>5, <1>6

\* Less than two turns from one.
LEMMA ModNear ==
    ASSUME NEW m \in Nat \ {0}, NEW r \in 0 .. m - 1,
           NEW z \in Int, z \in {r - m, r, r + m, r - 2 * m}
    PROVE  z % m = r
<1>1. CASE z = r
    BY <1>1
<1>2. PICK a \in Int : a = IF z = r - m THEN -1 ELSE IF z = r + m THEN 1 ELSE -2
    OBVIOUS
<1>3. z # r => Turns(m, z, r)
    BY <1>2 DEF Turns
<1>4. QED
    BY <1>1, <1>3, ModUnique

\* A signed word is in its range, is that of one word, and has the word's place.
LEMMA Words ==
    ASSUME NEW i \in Index
    PROVE  /\ i \in Nat
           /\ Signed(i) \in Int /\ 0 - Modulus \div 2 <= Signed(i)
           /\ Signed(i) < Modulus \div 2
           /\ \A j \in Index : Signed(i) = Signed(j) <=> i = j
           /\ SlotOf(Signed(i)) = SlotOf(i)
<1>1. PICK half : half = Modulus \div 2 /\ half \in Nat \ {0} /\ Modulus = 2 * half
    BY DequeAssumption
<1>2. /\ i \in Nat
      /\ Signed(i) \in Int /\ 0 - Modulus \div 2 <= Signed(i)
      /\ Signed(i) < Modulus \div 2
      /\ \A j \in Index : Signed(i) = Signed(j) <=> i = j
    BY <1>1 DEF Index, Signed
<1>3. (i - Modulus) % Capacity = i % Capacity
    <2>1. PICK m, c : m = Modulus /\ c = Capacity /\ m \in Int /\ c \in Nat \ {0} /\ m % c = 0
        BY DequeAssumption
    <2>2. PICK a \in Int, r \in 0 .. c - 1 : r = m % c /\ m = c * a + r
        BY <2>1, Division
    <2>3. PICK b \in Int, y \in Int : b = 0 - a /\ y = i - m
        BY <1>2, <2>1
    <2>4. y = i + c * b /\ i \in Int
        BY <1>2, <2>1, <2>2, <2>3
    <2>5. Turns(c, y, i)
        BY <2>1, <2>4 DEF Turns
    <2>7. y % c = i % c
        BY <2>1, <2>4, <2>5, ModTurns
    <2>6. QED
        BY <2>1, <2>3, <2>7
<1>4. QED
    BY <1>2, <1>3 DEF Signed, SlotOf

\* A position in the range of a signed word is that of one word.
LEMMA WordAt ==
    ASSUME NEW z \in Int, 0 - Modulus \div 2 <= z, z < Modulus \div 2,
           NEW w \in Int, w = z \/ w = z + Modulus \/ w = z - Modulus
    PROVE  w % Modulus \in Index /\ Signed(w % Modulus) = z
<1>1. PICK half : half = Modulus \div 2 /\ half \in Nat \ {0} /\ Modulus = 2 * half
    BY DequeAssumption
<1>2. PICK r : r = (IF z >= 0 THEN z ELSE z + Modulus) /\ r \in 0 .. Modulus - 1
    BY <1>1
<1>3. w % Modulus = r
    <2>1. w \in {r - Modulus, r, r + Modulus, r - 2 * Modulus}
        BY <1>1, <1>2
    <2>2. QED
        BY <1>2, <2>1, ModNear, DequeAssumption
<1>4. QED
    BY <1>1, <1>2, <1>3 DEF Index, Signed

\* A word plus n counts n on, as long as the result is in the range.
LEMMA Counting ==
    ASSUME NEW i \in Index, NEW n \in Int, 0 - Modulus <= n, n <= Modulus,
           0 - Modulus \div 2 <= Signed(i) + n, Signed(i) + n < Modulus \div 2
    PROVE  Plus(i, n) \in Index /\ Signed(Plus(i, n)) = Signed(i) + n
<1>1. PICK z, w : z = Signed(i) + n /\ w = i + n /\ z \in Int /\ w \in Int
    BY Words
<1>2. w = z \/ w = z + Modulus
    BY <1>1, Words, DequeAssumption DEF Signed
<1>3. QED
    BY <1>1, <1>2, WordAt DEF Plus

\* The words' difference is that of what they count.
LEMMA Difference ==
    ASSUME NEW i \in Index, NEW j \in Index, Signed(j) <= Signed(i)
    PROVE  (i - j) % Modulus = Signed(i) - Signed(j)
<1>1. PICK half : half = Modulus \div 2 /\ half \in Nat \ {0} /\ Modulus = 2 * half
    BY DequeAssumption
<1>2. PICK r, w : /\ r = Signed(i) - Signed(j) /\ r \in 0 .. Modulus - 1
                  /\ w = i - j /\ w \in Int
    BY <1>1, Words
<1>3. w \in {r - Modulus, r, r + Modulus, r - 2 * Modulus}
    BY <1>1, <1>2, Words DEF Signed
<1>4. w % Modulus = r
    BY <1>2, <1>3, ModNear, DequeAssumption
<1>5. QED
    BY <1>2, <1>4

-----------------------------------------------------------------------------
(* The memory                                                              *)

\* The threads and the locations are what they are called, and no two of them one.
LEMMA Places ==
    /\ Owner \in Thread /\ Thief \subseteq Thread /\ Owner \notin Thief
    /\ HEAD \in Location /\ TAIL \in Location /\ DATA \in Location
    /\ HEAD # TAIL /\ HEAD # DATA /\ TAIL # DATA
    /\ \A p : PlaceOf(p) \notin {HEAD, TAIL, DATA}
    /\ \A p \in Slot : PlaceOf(p) \in Location
    /\ \A l \in Location \ {HEAD, TAIL, DATA} : \E p \in Slot : l = PlaceOf(p)
    /\ \A p, q : PlaceOf(p) = PlaceOf(q) <=> p = q
    BY DequeAssumption DEF Thread, HEAD, TAIL, DATA, PlaceOf, Location

\* The place of a position; two positions of a buffer's length have two.
LEMMA PlaceFacts ==
    /\ \A q \in Int : /\ q % Capacity \in Slot /\ SlotOf(q) = PlaceOf(q % Capacity)
                      /\ SlotOf(q) \in Location /\ SlotOf(q) \notin {HEAD, TAIL, DATA}
    /\ \A q, r \in Int : q < r /\ r < q + Capacity => SlotOf(q) # SlotOf(r)
    /\ \A p \in Slot : p \in Int /\ SlotOf(p) = PlaceOf(p)
<1>1. ASSUME NEW q \in Int
      PROVE  /\ q % Capacity \in Slot /\ SlotOf(q) = PlaceOf(q % Capacity)
             /\ SlotOf(q) \in Location /\ SlotOf(q) \notin {HEAD, TAIL, DATA}
    <2>1. q % Capacity \in Slot
        BY DequeAssumption DEF Slot
    <2>2. SlotOf(q) = PlaceOf(q % Capacity)
        BY DEF SlotOf, PlaceOf
    <2>3. QED
        BY <2>1, <2>2, Places
<1>2. ASSUME NEW q \in Int, NEW r \in Int, q < r, r < q + Capacity
      PROVE  SlotOf(q) # SlotOf(r)
    <2>1. q % Capacity # r % Capacity
        BY <1>2, ModApart, DequeAssumption
    <2>2. QED
        BY <1>1, <2>1, Places
<1>3. ASSUME NEW p \in Slot PROVE p \in Int /\ SlotOf(p) = PlaceOf(p)
    <2>1. p \in Int /\ p % Capacity = p
        BY DequeAssumption DEF Slot
    <2>2. QED
        BY <2>1 DEF SlotOf, PlaceOf
<1>4. QED
    BY <1>1, <1>2, <1>3

Shape ==
    /\ \A l \in Location :
            /\ Last(l) \in Nat \ {0} /\ order[l] \in 1 .. Last(l)
            /\ Memory!Latest(l) = Memory!Value(l, Last(l))
            /\ \A i \in 1 .. Last(l) : Memory!Value(l, i) \in Nat
    /\ \A t \in Thread, l \in Location :
            current[t][l] \in 1 .. Last(l) /\ released[t][l] \in 1 .. Last(l)
    /\ \A j \in 1 .. Last(TAIL), l \in Location : TailView(j)[l] \in 1 .. Last(l)

\* What the proofs here use of the memory's invariant.
LEMMA MemoryFacts ==
    ASSUME MemoryOK
    PROVE  Shape
<1>1. /\ \A l \in Location : history[l] \in Seq(Facts!Message(Nat)) /\ Last(l) \in Nat
      /\ \A l \in Location : order[l] \in Nat /\ order[l] \in 1 .. Last(l)
    BY DEF MemoryOK, Facts!MemoryInv, Facts!Histories, Facts!KnownIn, Facts!ViewsType,
           Facts!View, Last
<1>2. \A l \in Location : Last(l) \in Nat \ {0}
    BY <1>1
<1>3. ASSUME NEW l \in Location, NEW i \in 1 .. Last(l) PROVE Memory!Value(l, i) \in Nat
    <2>1. history[l][i] \in Facts!Message(Nat)
        BY <1>1, ElementOfSeq DEF Last
    <2>2. QED
        BY <2>1 DEF Memory!Value, Facts!Message
<1>4. \A l \in Location : Memory!Latest(l) = Memory!Value(l, Last(l))
    BY DEF Memory!Latest, Memory!Value, Last
<1>5. \A t \in Thread, l \in Location :
            current[t][l] \in 1 .. Last(l) /\ released[t][l] \in 1 .. Last(l)
    BY DEF MemoryOK, Facts!MemoryInv, Facts!ThreadViews, Facts!KnownIn, Last
<1>6. \A j \in 1 .. Last(TAIL), l \in Location : TailView(j)[l] \in 1 .. Last(l)
    BY Places DEF MemoryOK, Facts!MemoryInv, Facts!MessagesKnown, Facts!KnownIn, Last, TailView
<1>7. QED
    BY <1>1, <1>2, <1>3, <1>4, <1>5, <1>6 DEF Shape

\* The histories of the locations in L have one message more.
Grown(L) ==
    \A l \in Location :
        IF l \in L
        THEN /\ Len(history'[l]) = Len(history[l]) + 1
             /\ \A i \in 1 .. Len(history[l]) : history'[l][i] = history[l][i]
        ELSE history'[l] = history[l]

\* What every step of t does to the memory, and one that stores to L.
Step(t, L) ==
    /\ MemoryOK' /\ Grown(L)
    /\ \A u \in Thread \ {t} : current'[u] = current[u] /\ released'[u] = released[u]
    /\ \A l \in Location : current[t][l] <= current'[t][l] /\ order[l] <= order'[l]

\* The views that its accesses leave alone have their types.
LEMMA OrderType ==
    ASSUME MemoryOK
    PROVE  /\ \A l \in Location : order[l] \in Nat /\ order[l] <= order[l]
           /\ released \in [Thread -> Memory!View] /\ current \in [Thread -> Memory!View]
    BY DEF MemoryOK, Facts!MemoryInv, Facts!ViewsType, Facts!View, Memory!View

\* A load that acquires brings the view of the message it loads.
LEMMA AcquireStep ==
    ASSUME MemoryOK, NEW t \in Thread, NEW l \in Location,
           NEW i \in Memory!Readable(t, l), Memory!LoadAcquire(t, l, i)
    PROVE  /\ Step(t, {}) /\ history' = history /\ order' = order /\ released' = released
           /\ current'[t][l] = i
           /\ \A k \in Location : history[l][i].view[k] <= current'[t][k]
<1>1. i \in Facts!Readable(t, l) /\ Facts!LoadAcquire(t, l, i)
    BY DEF Memory!Readable, Facts!Readable, Memory!LoadAcquire, Facts!LoadAcquire,
           Memory!Join, Facts!Join
<1>2. /\ Facts!MemoryInv(Nat)' /\ Facts!StepOf(t) /\ history' = history
      /\ current'[t][l] = i /\ Facts!AtMost(history[l][i].view, current'[t])
    BY <1>1, Facts!LoadAcquireInv DEF MemoryOK
<1>3. order' = order /\ released' = released
    BY DEF Memory!LoadAcquire
<1>4. QED
    BY <1>2, <1>3, OrderType DEF MemoryOK, Facts!StepOf, Facts!AtMost, Step, Grown

\* A relaxed load brings its own location only.
LEMMA RelaxedStep ==
    ASSUME MemoryOK, NEW t \in Thread, NEW l \in Location,
           NEW i \in Memory!Readable(t, l), Memory!LoadRelaxed(t, l, i)
    PROVE  /\ Step(t, {}) /\ history' = history /\ order' = order /\ released' = released
           /\ current'[t][l] = i
           /\ \A k \in Location \ {l} : current'[t][k] = current[t][k]
<1>1. i \in Facts!Readable(t, l) /\ Facts!LoadRelaxed(t, l, i)
    BY DEF Memory!Readable, Facts!Readable, Memory!LoadRelaxed, Facts!LoadRelaxed,
           Memory!Join, Facts!Join
<1>2. /\ Facts!MemoryInv(Nat)' /\ Facts!StepOf(t) /\ history' = history
      /\ current'[t] = [current[t] EXCEPT ![l] = i]
    BY <1>1, Facts!LoadRelaxedInv DEF MemoryOK
<1>3. order' = order /\ released' = released /\ current[t] \in Memory!View
    BY OrderType DEF Memory!LoadRelaxed
<1>4. QED
    BY <1>2, <1>3, OrderType DEF MemoryOK, Facts!StepOf, Facts!AtMost, Step, Grown, Memory!View

\* A fence leaves its thread with the view that all fences share.
LEMMA FenceStep ==
    ASSUME MemoryOK, NEW t \in Thread, Memory!FenceSeqCst(t)
    PROVE  /\ Step(t, {}) /\ history' = history
           /\ \A l \in Location : current'[t][l] = order'[l] /\ released'[t][l] = order'[l]
<1>1. Facts!FenceSeqCst(t)
    BY DEF Memory!FenceSeqCst, Facts!FenceSeqCst, Memory!Join, Facts!Join
<1>2. /\ Facts!MemoryInv(Nat)' /\ Facts!StepOf(t) /\ history' = history
      /\ Facts!AtMost(order, order')
      /\ current'[t] = order' /\ released'[t] = order'
    BY <1>1, Facts!FenceSeqCstInv DEF MemoryOK
<1>3. \A u \in Thread \ {t} : released'[u] = released[u]
    BY OrderType DEF Memory!FenceSeqCst
<1>4. QED
    BY <1>2, <1>3 DEF MemoryOK, Facts!StepOf, Facts!AtMost, Step, Grown

\* A store of value v to l.
StoreStep(t, l, v) ==
    /\ Step(t, {l}) /\ order' = order
    /\ Memory!Latest(l)' = v
    /\ current'[t][l] = Last(l)'

\* An access to what only its thread writes: a store that hands on nothing new.
LEMMA PlainStep ==
    ASSUME MemoryOK, NEW t \in Thread, NEW l \in Location, NEW v \in Nat,
           Memory!Access(t, l, v)
    PROVE  /\ StoreStep(t, l, v) /\ released' = released
           /\ \A k \in Location \ {l} : current'[t][k] = current[t][k]
<1>1. Facts!Access(t, l, v)
    BY DEF Memory!Access, Facts!Access, Memory!Put, Facts!Put
<1>2. /\ Facts!MemoryInv(Nat)' /\ Facts!StepOf(t) /\ Facts!Stored(l, v)
      /\ current'[t] = [current[t] EXCEPT ![l] = Len(history'[l])]
    BY <1>1, Facts!AccessInv DEF MemoryOK
<1>3. order' = order /\ released' = released /\ current[t] \in Memory!View
    BY OrderType DEF Memory!Access
<1>4. Grown({l}) /\ Memory!Latest(l)' = v
    BY <1>2 DEF Facts!StepOf, Facts!Extends, Facts!Stored, Grown, Memory!Latest
<1>5. QED
    BY <1>2, <1>3, <1>4, OrderType DEF MemoryOK, Facts!StepOf, Facts!AtMost, Step, StoreStep,
                                       Memory!View, Last

\* A relaxed store hands on what the thread's last fence released.
LEMMA StoreRelaxedStep ==
    ASSUME MemoryOK, NEW t \in Thread, NEW l \in Location, NEW v \in Nat,
           Memory!StoreRelaxed(t, l, v)
    PROVE  /\ StoreStep(t, l, v) /\ released' = released
           /\ \A k \in Location \ {l} : current'[t][k] = current[t][k]
           /\ \A k \in Location : released[t][k] <= history'[l][Len(history'[l])].view[k]
<1>1. Facts!StoreRelaxed(t, l, v)
    BY DEF Memory!StoreRelaxed, Facts!StoreRelaxed, Memory!Put, Facts!Put
<1>2. /\ Facts!MemoryInv(Nat)' /\ Facts!StepOf(t) /\ Facts!Stored(l, v)
      /\ Facts!AtMost(released[t], history'[l][Len(history'[l])].view)
      /\ current'[t] = [current[t] EXCEPT ![l] = Len(history'[l])]
    BY <1>1, Facts!StoreRelaxedInv DEF MemoryOK
<1>3. order' = order /\ released' = released /\ current[t] \in Memory!View
    BY OrderType DEF Memory!StoreRelaxed
<1>4. Grown({l}) /\ Memory!Latest(l)' = v
    BY <1>2 DEF Facts!StepOf, Facts!Extends, Facts!Stored, Grown, Memory!Latest
<1>5. QED
    BY <1>2, <1>3, <1>4, OrderType DEF MemoryOK, Facts!StepOf, Facts!AtMost, Step, StoreStep,
                                       Memory!View, Last

\* A store after a release fence hands on all that its thread knows.
LEMMA StoreReleaseStep ==
    ASSUME MemoryOK, NEW t \in Thread, NEW l \in Location, NEW v \in Nat,
           Memory!FenceReleaseStore(t, l, v)
    PROVE  /\ StoreStep(t, l, v) /\ released'[t] = current[t]
           /\ \A k \in Location \ {l} : current'[t][k] = current[t][k]
           /\ \A k \in Location : current[t][k] <= history'[l][Len(history'[l])].view[k]
<1>1. Facts!FenceReleaseStore(t, l, v)
    BY DEF Memory!FenceReleaseStore, Facts!FenceReleaseStore, Memory!Put, Facts!Put
<1>2. /\ Facts!MemoryInv(Nat)' /\ Facts!StepOf(t) /\ Facts!Stored(l, v)
      /\ Facts!AtMost(current[t], history'[l][Len(history'[l])].view)
      /\ current'[t] = [current[t] EXCEPT ![l] = Len(history'[l])]
    BY <1>1, Facts!StoreReleaseInv DEF MemoryOK
<1>3. /\ order' = order /\ current[t] \in Memory!View
      /\ released'[t] = current[t]
      /\ \A u \in Thread \ {t} : released'[u] = released[u]
    BY OrderType DEF Memory!FenceReleaseStore
<1>4. Grown({l}) /\ Memory!Latest(l)' = v
    BY <1>2 DEF Facts!StepOf, Facts!Extends, Facts!Stored, Grown, Memory!Latest
<1>5. QED
    BY <1>2, <1>3, <1>4, OrderType DEF MemoryOK, Facts!StepOf, Facts!AtMost, Step, StoreStep,
                                       Memory!View, Last

\* A compare_exchange that succeeds reads the latest value and stores the next.
LEMMA SwapStep ==
    ASSUME MemoryOK, NEW t \in Thread, NEW l \in Location, NEW e, NEW v \in Nat,
           Memory!SwapSucceeds(t, l, e, v)
    PROVE  StoreStep(t, l, v) /\ released' = released /\ Memory!Latest(l) = e
<1>1. Facts!SwapSucceeds(t, l, e, v)
    BY DEF Memory!SwapSucceeds, Facts!SwapSucceeds, Memory!Update, Facts!Update,
           Memory!Latest, Facts!Latest, Memory!Join, Facts!Join
<1>2. /\ Facts!MemoryInv(Nat)' /\ Facts!StepOf(t) /\ Facts!Stored(l, v)
      /\ current'[t][l] = Len(history'[l])
    BY <1>1, Facts!SwapSucceedsInv DEF MemoryOK
<1>3. order' = order /\ released' = released /\ Memory!Latest(l) = e
    BY DEF Memory!SwapSucceeds, Memory!Update
<1>4. Grown({l}) /\ Memory!Latest(l)' = v
    BY <1>2 DEF Facts!StepOf, Facts!Extends, Facts!Stored, Grown, Memory!Latest
<1>5. QED
    BY <1>2, <1>3, <1>4, OrderType DEF MemoryOK, Facts!StepOf, Facts!AtMost, Step, StoreStep, Last

\* One that fails is a relaxed load.
LEMMA SwapFailsStep ==
    ASSUME MemoryOK, NEW t \in Thread, NEW l \in Location, NEW e, Memory!SwapFails(t, l, e)
    PROVE  /\ Step(t, {}) /\ history' = history /\ order' = order /\ released' = released
           /\ \A k \in Location \ {l} : current'[t][k] = current[t][k]
           /\ \E i \in Memory!Readable(t, l) : Memory!Value(l, i) # e
<1>1. PICK i \in Memory!Readable(t, l) : Memory!Value(l, i) # e /\ Memory!LoadRelaxed(t, l, i)
    BY DEF Memory!SwapFails
<1>2. QED
    BY <1>1, RelaxedStep

\* At first there is one message everywhere: Start for head and tail.
LEMMA InitMemory ==
    ASSUME Init
    PROVE  /\ MemoryOK
           /\ \A l \in Location : Last(l) = 1
           /\ \A l \in Location \ {HEAD, TAIL} : Memory!Latest(l) = 0
           /\ Memory!Latest(HEAD) = Start /\ Memory!Latest(TAIL) = Start
<1> DEFINE initial == [l \in Location |-> IF l \in {HEAD, TAIL} THEN Start ELSE NoItem]
<1>1. initial \in [Location -> Nat]
    BY DequeAssumption DEF Index, NoItem
<1>2. Memory!MemoryInit(initial)
    BY DEF Init
<1> HIDE DEF initial
<1>3. Facts!MemoryInit(initial)
    BY <1>2 DEF Memory!MemoryInit, Facts!MemoryInit
<1>4. MemoryOK
    BY <1>1, <1>3, Facts!InitialMemory DEF MemoryOK
<1>5. \A l \in Location : Last(l) = 1 /\ Memory!Latest(l) = initial[l]
    BY <1>2 DEF Memory!MemoryInit, Memory!Latest, Last
<1>6. QED
    BY <1>4, <1>5, Places DEF initial, NoItem

\* MemoryFacts of the next state.
LEMMA NextShape ==
    ASSUME MemoryOK'
    PROVE  Shape'
    BY MemoryFacts, PTL

\* What was stored stays, and where nothing is stored nothing changes.
LEMMA Kept ==
    ASSUME Shape, Shape', NEW L, Grown(L)
    PROVE  /\ \A l \in Location : Last(l) <= Last(l)'
           /\ \A l \in Location : \A i \in 1 .. Last(l) : Memory!Value(l, i)' = Memory!Value(l, i)
           /\ \A l \in Location \cap L : Last(l)' = Last(l) + 1
           /\ \A l \in Location \ L :
                    Last(l)' = Last(l) /\ Memory!Latest(l)' = Memory!Latest(l)
           /\ \A j \in 1 .. Last(TAIL) : TailAt(j)' = TailAt(j) /\ TailView(j)' = TailView(j)
           /\ \A w : \A q \in Int :
                    SlotOf(q) \notin L => (Covers(w, q)' <=> Covers(w, q))
<1>1. \A l \in Location : Last(l) \in Nat /\ Last(l)' \in Nat
    BY DEF Shape
<1>2. ASSUME NEW l \in Location
      PROVE  /\ Last(l) <= Last(l)'
             /\ \A i \in 1 .. Last(l) : history'[l][i] = history[l][i]
             /\ l \in L => Last(l)' = Last(l) + 1
             /\ l \notin L => Last(l)' = Last(l) /\ history'[l] = history[l]
    BY <1>1 DEF Grown, Last
<1>3. \A l \in Location \ L : Memory!Latest(l)' = Memory!Latest(l)
    BY <1>2 DEF Memory!Latest, Last
<1>4. \A l \in Location : \A i \in 1 .. Last(l) : Memory!Value(l, i)' = Memory!Value(l, i)
    BY <1>2 DEF Memory!Value
<1>5. \A j \in 1 .. Last(TAIL) : TailAt(j)' = TailAt(j) /\ TailView(j)' = TailView(j)
    BY <1>2, <1>4, Places DEF TailAt, TailView
<1>6. ASSUME NEW w, NEW q \in Int, SlotOf(q) \notin L
      PROVE  Covers(w, q)' <=> Covers(w, q)
    <2>1. SlotOf(q) \in Location \ L
        BY <1>6, PlaceFacts
    <2>2. /\ Last(SlotOf(q))' = Last(SlotOf(q))
          /\ Memory!Latest(SlotOf(q))' = Memory!Latest(SlotOf(q))
        BY <1>2, <1>3, <2>1
    <2>3. QED
        BY <2>2 DEF Covers
<1>7. QED
    BY <1>2, <1>3, <1>4, <1>5, <1>6

\* The positions, as far as their words and the memory allow.
LEMMA Positions ==
    ASSUME Shape, HeadCounts
    PROVE  /\ HeadPos = First + Last(HEAD) - 1 /\ HeadPos \in Int /\ First \in Int
           /\ Memory!Latest(HEAD) \in Index
           /\ \A i \in 1 .. Last(HEAD) :
                /\ Memory!Value(HEAD, i) \in Index
                /\ Signed(Memory!Value(HEAD, i)) = First + i - 1
<1>1. First \in Int
    BY Words, DequeAssumption DEF First
<1>2. Last(HEAD) \in 1 .. Last(HEAD) /\ Memory!Latest(HEAD) = Memory!Value(HEAD, Last(HEAD))
    BY Places DEF Shape
<1>3. QED
    BY <1>1, <1>2 DEF HeadCounts, HeadPos

\* A message of the tail that a thread past its fence may find.
Truthful(j) ==
    /\ TailAt(j) \in Int /\ TailAt(j) <= EndPos
    /\ \A q \in HeadPos .. TailAt(j) - 1 : Covers(TailView(j), q)

\* What a step that leaves the head alone leaves of what a thief u knows, that
\* it is not one of: provided that it overwrites no element, that a tail it
\* stores is true, that it takes nothing from the end, and that an element is
\* reserved only when no thief that has not noticed is at it.
NotTaking(L) ==
    /\ Grown(L) /\ HEAD \notin L
    /\ \A l \in Location : order[l] <= order'[l]
    /\ current[Owner][HEAD] <= current'[Owner][HEAD]
    /\ EndPos <= EndPos'
    /\ \A q \in HeadPos .. EndPos - 1 : SlotOf(q) \notin L
    /\ TAIL \in L => Truthful(Last(TAIL))'

SameThief(u) ==
    /\ pc'[u] = pc[u] /\ head'[u] = head[u] /\ x'[u] = x[u]
    /\ current'[u] = current[u]

\* Every store of the tail is of a counter.
LEMMA TailRange ==
    ASSUME Shape, ValuesFit
    PROVE  \A j \in 1 .. Last(TAIL) : TailAt(j) \in Int /\ Memory!Value(TAIL, j) \in Index
    BY Words DEF ValuesFit, TailAt

\* A step that takes nothing, and stores no untrue tail, keeps TailsTrue.
LEMMA TailsKept ==
    ASSUME Shape, Shape', HeadCounts, ValuesFit, EndPos \in Int, EndPos' \in Int,
           TailsTrue, NEW L, NotTaking(L)
    PROVE  TailsTrue' /\ HeadPos' = HeadPos
<1>1. HeadPos' = HeadPos /\ HeadPos \in Int
    BY Kept, Positions, Places DEF NotTaking, HeadPos
<1>2. ASSUME NEW j \in order'[TAIL] .. Last(TAIL)' PROVE Truthful(j)'
    <2>1. /\ order[TAIL] \in 1 .. Last(TAIL) /\ order[TAIL] <= order'[TAIL]
          /\ order'[TAIL] \in Nat /\ Last(TAIL) \in Nat /\ Last(TAIL)' \in Nat
        BY Places DEF Shape, NotTaking
    <2>2. CASE j <= Last(TAIL)
        <3>1. /\ j \in order[TAIL] .. Last(TAIL) /\ j \in 1 .. Last(TAIL)
            BY <2>1, <2>2
        <3>2. /\ TailAt(j)' = TailAt(j) /\ TailView(j)' = TailView(j)
              /\ TailAt(j) \in Int
            BY <3>1, Kept, TailRange DEF NotTaking
        <3>3. /\ TailAt(j) <= EndPos
              /\ \A q \in HeadPos .. TailAt(j) - 1 : Covers(TailView(j), q)
            BY <3>1 DEF TailsTrue
        <3>4. ASSUME NEW q \in HeadPos .. TailAt(j) - 1 PROVE Covers(TailView(j), q)'
            <4>1. q \in HeadPos .. EndPos - 1 /\ q \in Int
                BY <1>1, <3>2, <3>3
            <4>2. SlotOf(q) \notin L /\ Grown(L)
                BY <4>1 DEF NotTaking
            <4>3. \A w : Covers(w, q)' <=> Covers(w, q)
                BY <4>1, <4>2, Kept
            <4>4. QED
                BY <3>2, <3>3, <4>3
        <3>5. TailAt(j)' <= EndPos'
            BY <3>2, <3>3 DEF NotTaking
        <3>6. QED
            BY <1>1, <3>2, <3>4, <3>5 DEF Truthful
    <2>3. CASE j > Last(TAIL)
        <3>1. TAIL \in L /\ j = Last(TAIL)'
            BY <2>1, <2>3, Kept, Places DEF NotTaking
        <3>2. QED
            BY <3>1 DEF NotTaking
    <2>4. QED
        BY <2>1, <2>2, <2>3
<1>3. QED
    BY <1>1, <1>2 DEF TailsTrue, Truthful

\* A thief is never ahead of the head.
LEMMA ThiefPositions ==
    ASSUME Shape, HeadCounts, CallType, NEW u \in Thief, ThiefCall(u)
    PROVE  /\ u \in Thread /\ u # Owner
           /\ head[u] \in Index /\ Signed(head[u]) \in Int
           /\ pc[u] # "idle" => Signed(head[u]) <= HeadPos
<1>1. u \in Thread /\ u # Owner
    BY Places
<1>2. head[u] \in Index /\ Signed(head[u]) \in Int
    BY <1>1, Words DEF CallType
<1>3. HeadPos = First + Last(HEAD) - 1 /\ First \in Int /\ HeadPos \in Int
    BY Positions
<1>4. current[u][HEAD] \in 1 .. Last(HEAD) /\ Last(HEAD) \in Nat
    BY <1>1, Places DEF Shape
<1>5. pc[u] # "idle" => Signed(head[u]) \in First .. First + current[u][HEAD] - 1
    BY DEF ThiefCall
<1>6. QED
    BY <1>1, <1>2, <1>3, <1>4, <1>5

\* Such a step keeps what another thread, a thief, knows.
LEMMA ThiefKept ==
    ASSUME Shape, Shape', HeadCounts, ValuesFit, CallType,
           EndPos \in Int, EndPos' \in Int,
           NEW L, NotTaking(L), NEW u \in Thief, SameThief(u), ThiefCall(u),
           (Reserving' => Reserving /\ TAIL \notin L) \/ Noticed(u)'
    PROVE  ThiefCall(u)'
<1>1. /\ HeadPos' = HeadPos /\ HeadPos \in Int /\ First \in Int /\ First' = First
      /\ u \in Thread /\ Signed(head[u]) \in Int
    BY Kept, Positions, ThiefPositions, Places DEF NotTaking, HeadPos, First
<1>2. PICK h : h = Signed(head[u]) /\ h \in Int
    BY <1>1
<1>3. /\ pc'[u] = pc[u] /\ Signed(head[u])' = h /\ x'[u] = x[u] /\ current'[u] = current[u]
    BY <1>2 DEF SameThief
<1>4. /\ order[HEAD] \in Int /\ order'[HEAD] \in Int /\ order[HEAD] <= order'[HEAD]
      /\ current[Owner][HEAD] \in Int /\ current'[Owner][HEAD] \in Int
      /\ current[Owner][HEAD] <= current'[Owner][HEAD]
      /\ current[u][TAIL] \in 1 .. Last(TAIL) /\ Last(TAIL) \in Nat /\ Last(TAIL)' \in Nat
    BY <1>1, Places DEF NotTaking, Shape
<1>5. \A l \in Location \ L : Last(l)' = Last(l) /\ Memory!Latest(l)' = Memory!Latest(l)
    BY Kept DEF NotTaking
<1>6. ASSUME h = HeadPos, h < EndPos
      PROVE  /\ h < EndPos' /\ SlotOf(h) \in Location \ L
             /\ \A w : Covers(w, h) => Covers(w, h)'
             /\ Memory!Latest(SlotOf(h))' = Memory!Latest(SlotOf(h))
    <2>1. h < EndPos'
        BY <1>2, <1>6 DEF NotTaking
    <2>2. SlotOf(h) \in Location \ L
        BY <1>1, <1>2, <1>6, PlaceFacts DEF NotTaking
    <2>3. \A w : Covers(w, h) => Covers(w, h)'
        BY <1>2, <2>2, Kept DEF NotTaking
    <2>4. QED
        BY <1>5, <2>1, <2>2, <2>3
<1>7. /\ (pc[u] # "idle" => h \in First .. First + current[u][HEAD] - 1)'
      /\ (Looking(u) => Signed(head[u]) <= First + order[HEAD] - 1)'
    <2>1. Looking(u) => h <= First + order[HEAD] - 1
        BY <1>2 DEF ThiefCall
    <2>2. pc[u] # "idle" => h \in First .. First + current[u][HEAD] - 1
        BY <1>2 DEF ThiefCall
    <2>3. QED
        BY <1>1, <1>2, <1>3, <1>4, <2>1, <2>2 DEF Looking
<1>8. Noticed(u)'
    <2>1. SUFFICES ASSUME Looking(u), Reserving, TAIL \notin L
                   PROVE  \/ h <= First + current'[Owner][HEAD] - 1
                          \/ current[u][TAIL] = Last(TAIL)'
        BY <1>1, <1>2, <1>3 DEF Noticed, Looking
    <2>2. h <= First + current[Owner][HEAD] - 1 \/ current[u][TAIL] = Last(TAIL)
        BY <1>2, <2>1 DEF ThiefCall, Noticed
    <2>3. QED
        BY <1>1, <1>2, <1>4, <1>5, <2>1, <2>2, Places
<1>9. ASSUME pc[u] = "steal_tail", h = HeadPos, NEW j \in current[u][TAIL] .. Last(TAIL)',
             TailAt(j)' > h
      PROVE  h < EndPos' /\ Covers(TailView(j), h)'
    <2>1. CASE j <= Last(TAIL)
        <3>1. j \in current[u][TAIL] .. Last(TAIL) /\ j \in 1 .. Last(TAIL)
            BY <1>4, <2>1
        <3>2. TailAt(j)' = TailAt(j) /\ TailView(j)' = TailView(j)
            BY <3>1, Kept DEF NotTaking
        <3>3. h < EndPos /\ Covers(TailView(j), h)
            BY <1>2, <1>9, <3>1, <3>2 DEF ThiefCall
        <3>4. QED
            BY <1>6, <1>9, <3>2, <3>3
    <2>2. CASE j > Last(TAIL)
        <3>1. TAIL \in L /\ j = Last(TAIL)'
            BY <1>4, <2>2, Kept, Places DEF NotTaking
        <3>2. Truthful(j)'
            BY <3>1 DEF NotTaking
        <3>3. h < EndPos' /\ h \in HeadPos .. TailAt(j)' - 1
            BY <1>1, <1>2, <1>9, <3>2 DEF Truthful
        <3>4. QED
            BY <1>1, <3>2, <3>3 DEF Truthful
    <2>3. QED
        BY <1>4, <2>1, <2>2
<1>10. ASSUME pc[u] \in {"steal_item", "steal_race"}
       PROVE  (Signed(head[u]) < TailAt(current[u][TAIL]))'
    <2>1. PICK j \in 1 .. Last(TAIL) : j = current[u][TAIL]
        BY <1>4
    <2>2. h < TailAt(j)
        BY <1>2, <1>10, <2>1 DEF ThiefCall
    <2>3. TailAt(j)' = TailAt(j)
        BY Kept DEF NotTaking
    <2>4. TailAt(current[u][TAIL])' = TailAt(j)'
        BY <1>3, <2>1 DEF TailAt
    <2>5. QED
        BY <1>3, <2>2, <2>3, <2>4
<1>11. ASSUME pc[u] = "steal_item", h = HeadPos
       PROVE  h < EndPos' /\ Covers(current[u], h)'
    <2>1. h < EndPos /\ Covers(current[u], h)
        BY <1>2, <1>11 DEF ThiefCall
    <2>2. \A w : Covers(w, h) => Covers(w, h)'
        BY <1>6, <1>11, <2>1
    <2>3. QED
        BY <1>3, <1>6, <1>11, <2>1, <2>2
<1>12. ASSUME pc[u] = "steal_race", h = HeadPos
       PROVE  h < EndPos' /\ x[u] = Memory!Latest(SlotOf(h))' /\ x[u] < current[u][DATA]
    BY <1>2, <1>6, <1>12 DEF ThiefCall
<1>13. QED
    BY <1>1, <1>2, <1>3, <1>7, <1>8, <1>9, <1>10, <1>11, <1>12 DEF ThiefCall

-----------------------------------------------------------------------------
(* Whose step it is                                                        *)

SameLocals(u) ==
    /\ pc'[u] = pc[u] /\ head'[u] = head[u] /\ tail'[u] = tail[u] /\ x'[u] = x[u]
    /\ taken'[u] = taken[u]

\* What only the owner changes.
OwnerInv ==
    /\ ValuesFit /\ HeadCounts /\ WithinCapacity
    /\ OwnerCall /\ OwnerKnows /\ DataFirst /\ AllReleased /\ HeadOrdered

\* A step that stores nothing and is not the owner's leaves that as it is.
LEMMA OwnerKept ==
    ASSUME Shape, Shape', OwnerInv, history' = history, pushed' = pushed,
           current'[Owner] = current[Owner], released'[Owner] = released[Owner],
           \A l \in Location : order[l] <= order'[l],
           SameLocals(Owner)
    PROVE  OwnerInv' /\ EndPos' = EndPos /\ HeadPos' = HeadPos
<1>1. /\ \A l : Last(l)' = Last(l) /\ Memory!Latest(l)' = Memory!Latest(l)
      /\ \A l, i : Memory!Value(l, i)' = Memory!Value(l, i)
    BY DEF Last, Memory!Latest, Memory!Value
<1>2. EndPos' = EndPos /\ HeadPos' = HeadPos /\ OwnTail' = OwnTail
    BY <1>1 DEF EndPos, HeadPos, Reach, OwnTail, SameLocals
<1>3. ValuesFit' /\ HeadCounts'
    BY <1>1 DEF OwnerInv, ValuesFit, HeadCounts, First
<1>4. WithinCapacity' /\ OwnerKnows' /\ DataFirst'
    BY <1>1, <1>2 DEF OwnerInv, WithinCapacity, OwnerKnows, DataFirst, SameLocals, First
<1>5. AllReleased'
    BY <1>1 DEF OwnerInv, AllReleased, Covers, SameLocals
<1>6. HeadOrdered'
    <2>1. Last(HEAD) \in Int /\ order[HEAD] \in Int /\ order'[HEAD] \in Int
          /\ order[HEAD] <= order'[HEAD]
        BY Places DEF Shape
    <2>2. QED
        BY <1>1, <2>1 DEF OwnerInv, HeadOrdered
<1>7. OwnerCall'
    <2>1. (Fenced => order[TAIL] = Last(TAIL))'
        <3>1. /\ order[TAIL] \in Int /\ order'[TAIL] \in 1 .. Last(TAIL)'
              /\ order[TAIL] <= order'[TAIL] /\ Last(TAIL) \in Int
            BY Places DEF Shape
        <3>2. Fenced => order[TAIL] = Last(TAIL)
            BY DEF OwnerInv, OwnerCall
        <3>3. Fenced' <=> Fenced
            BY DEF Fenced, SameLocals
        <3>4. QED
            BY <1>1, <3>1, <3>2, <3>3
    <2>2. SlotOf(tail[Owner])' = SlotOf(tail[Owner]) /\ First' = First
        BY DEF SlotOf, SameLocals, First
    <2>3. Memory!Latest(SlotOf(tail[Owner]))' = Memory!Latest(SlotOf(tail[Owner]))
        BY <1>1, <2>2
    <2>4. QED
        BY <1>2, <2>1, <2>2, <2>3 DEF OwnerInv, OwnerCall, Pushing, Taking, Fenced, Reserving, SameLocals
<1>8. QED
    BY <1>2, <1>3, <1>4, <1>5, <1>6, <1>7 DEF OwnerInv

\* Tail and end are counters, and are one while the owner takes nothing.
LEMMA EndPositions ==
    ASSUME Shape, ValuesFit, CallType
    PROVE  /\ OwnTail \in Index /\ Reach \in Index /\ EndPos \in Int
           /\ OwnTail = Memory!Value(TAIL, Last(TAIL)) /\ Last(TAIL) \in 1 .. Last(TAIL)
           /\ ~Taking => EndPos = Signed(OwnTail)
           /\ Owner \in Thread /\ tail[Owner] \in Index /\ Signed(tail[Owner]) \in Int
<1>1. OwnTail \in Index /\ OwnTail = Memory!Value(TAIL, Last(TAIL)) /\ Last(TAIL) \in 1 .. Last(TAIL)
    BY Places DEF Shape, ValuesFit, OwnTail
<1>2. Owner \in Thread /\ tail[Owner] \in Index /\ Signed(tail[Owner]) \in Int
    BY Places, Words DEF CallType
<1>3. Plus(tail[Owner], 1) \in Index
    <2>1. PICK i \in Int : i = tail[Owner] + 1
        BY <1>2, Words
    <2>2. i % Modulus \in 0 .. Modulus - 1
        BY DequeAssumption
    <2>3. QED
        BY <2>1, <2>2 DEF Plus, Index
<1>4. Reach \in Index
    BY <1>1, <1>3 DEF Reach
<1>5. QED
    BY <1>1, <1>2, <1>4, Words DEF Reach, EndPos, Taking

EndTyped == EndPos \in Int

\* The end is a position,
LEMMA EndType ==
    ASSUME Shape, ValuesFit, CallType
    PROVE  EndTyped
    BY EndPositions DEF EndTyped

\* in the next state too.
LEMMA NextEnd ==
    ASSUME Shape', ValuesFit', CallType'
    PROVE  EndTyped'
    BY EndType, PTL

\* A step of thief t that stores nothing.
ThiefMove(t) ==
    /\ Step(t, {}) /\ history' = history /\ pushed' = pushed /\ taken' = taken
    /\ \A u \in Thread \ {t} : SameLocals(u)
    /\ CallType'

\* A step of a thief that stores nothing moves nothing of the deque.
LEMMA Unmoved ==
    ASSUME IInv, NEW t \in Thief, ThiefMove(t)
    PROVE  /\ Shape /\ Shape' /\ t \in Thread /\ t # Owner
           /\ OwnerInv /\ OwnerInv' /\ EndPos' = EndPos /\ HeadPos' = HeadPos
           /\ EndPos \in Int /\ HeadPos \in Int /\ First \in Int /\ First' = First
           /\ \A l : Last(l)' = Last(l) /\ Memory!Latest(l)' = Memory!Latest(l)
           /\ \A j : TailAt(j)' = TailAt(j) /\ TailView(j)' = TailView(j)
           /\ \A w, q : Covers(w, q)' <=> Covers(w, q)
           /\ Reserving' <=> Reserving
           /\ current'[Owner] = current[Owner]
           /\ \A l \in Location : order[l] <= order'[l]
<1>1. Shape /\ Shape' /\ t \in Thread /\ t # Owner /\ Owner \in Thread
    BY MemoryFacts, NextShape, Places DEF IInv, ThiefMove, Step
<1>2. /\ current'[Owner] = current[Owner] /\ released'[Owner] = released[Owner]
      /\ SameLocals(Owner)
      /\ \A l \in Location : order[l] <= order'[l]
    BY <1>1 DEF ThiefMove, Step
<1>3. OwnerInv /\ ValuesFit /\ CallType /\ HeadCounts
    BY DEF IInv, OwnerInv
<1>4. OwnerInv' /\ EndPos' = EndPos /\ HeadPos' = HeadPos
    BY <1>1, <1>2, <1>3, OwnerKept DEF ThiefMove
<1>5. /\ \A l : Last(l)' = Last(l) /\ Memory!Latest(l)' = Memory!Latest(l)
      /\ \A l, i : Memory!Value(l, i)' = Memory!Value(l, i)
    BY DEF ThiefMove, Last, Memory!Latest, Memory!Value
<1>6. /\ \A j : TailAt(j)' = TailAt(j) /\ TailView(j)' = TailView(j)
      /\ \A w, q : Covers(w, q)' <=> Covers(w, q)
    BY <1>5 DEF ThiefMove, TailAt, TailView, Covers
<1>7. Reserving' <=> Reserving
    BY <1>2 DEF SameLocals, Reserving
<1>8. EndPos \in Int /\ HeadPos \in Int /\ First \in Int /\ First' = First
    BY <1>1, <1>3, EndPositions, Positions DEF First
<1>9. QED
    BY <1>1, <1>2, <1>3, <1>4, <1>5, <1>6, <1>7, <1>8

\* What a thread was given it keeps.
LEMMA PayloadKept ==
    ASSUME Shape, Shape', PayloadVisible, taken' = taken,
           \A u \in Thread : current[u][DATA] <= current'[u][DATA],
           \A u \in Thread : taken[u] \in Int
    PROVE  PayloadVisible'
<1>1. ASSUME NEW u \in Thread, taken'[u] # NoItem PROVE current'[u][DATA] > taken'[u]
    <2>1. current[u][DATA] \in Int /\ current'[u][DATA] \in Int /\ taken[u] \in Int
        BY Places DEF Shape
    <2>2. QED
        BY <1>1, <2>1 DEF PayloadVisible
<1>2. QED
    BY <1>1 DEF PayloadVisible, NoItem

\* No thread forgets.
LEMMA StepViews ==
    ASSUME Shape, Shape', NEW t \in Thread, NEW L, Step(t, L)
    PROVE  \A u \in Thread, l \in Location : current[u][l] <= current'[u][l]
<1>1. ASSUME NEW u \in Thread, NEW l \in Location PROVE current[u][l] <= current'[u][l]
    <2>1. current[u][l] \in Int
        BY DEF Shape
    <2>2. QED
        BY <2>1 DEF Step
<1>2. QED
    BY <1>1

\* A step of a thief that stores nothing is a matter of what it knows itself.
LEMMA ThiefMoves ==
    ASSUME IInv, NEW t \in Thief, ThiefMove(t), ThiefCall(t)'
    PROVE  IInv'
<1>1. /\ Shape /\ Shape' /\ t \in Thread /\ t # Owner
      /\ OwnerInv /\ OwnerInv' /\ EndPos' = EndPos
      /\ EndPos \in Int
      /\ Reserving' <=> Reserving
      /\ current'[Owner] = current[Owner]
    BY Unmoved
<1>2. HeadCounts /\ ValuesFit /\ CallType /\ TailsTrue /\ PayloadVisible
    BY DEF IInv
<1>3. current[Owner][HEAD] \in Int
    BY <1>1, Places DEF Shape
<1>4. NotTaking({})
    BY <1>1, <1>3 DEF NotTaking, ThiefMove, Step
<1>5. EndPos' \in Int
    BY <1>1
<1>6. TailsTrue'
    BY <1>1, <1>2, <1>4, <1>5, TailsKept
<1>7. ASSUME NEW u \in Thief PROVE ThiefCall(u)'
    <2>1. CASE u # t
        <3>1. u \in Thread \ {t} /\ ThiefCall(u)
            BY <2>1, Places DEF IInv
        <3>2. SameThief(u)
            BY <3>1 DEF SameThief, ThiefMove, Step, SameLocals
        <3>3. QED
            BY <1>1, <1>2, <1>4, <1>5, <3>1, <3>2, ThiefKept
    <2>2. QED
        BY <2>1
<1>8. PayloadVisible'
    <2>1. \A u \in Thread : current[u][DATA] <= current'[u][DATA]
        BY <1>1, StepViews, Places DEF ThiefMove
    <2>2. \A u \in Thread : taken[u] \in Int
        BY <1>2 DEF CallType
    <2>3. QED
        BY <1>1, <1>2, <2>1, <2>2, PayloadKept DEF ThiefMove
<1>9. QED
    BY <1>1, <1>6, <1>7, <1>8 DEF IInv, OwnerInv, ThiefMove, Step

-----------------------------------------------------------------------------
(* The thieves                                                             *)

\* What the steps of the thieves use of the invariant.
LEMMA ThiefFacts ==
    ASSUME IInv, NEW t \in Thief
    PROVE  /\ Shape /\ HeadCounts /\ ValuesFit /\ CallType /\ MemoryOK /\ OwnerCall /\ TailsTrue
           /\ ThiefCall(t) /\ t \in Thread /\ t # Owner
           /\ head[t] \in Index /\ Signed(head[t]) \in Int
           /\ HEAD \in Location /\ TAIL \in Location /\ DATA \in Location
    BY MemoryFacts, Places, ThiefPositions DEF IInv

\* A thief whose call has returned knows nothing.
LEMMA IdleThief ==
    ASSUME NEW t \in Thief, pc'[t] = "idle"
    PROVE  ThiefCall(t)'
    BY DEF ThiefCall, Noticed, Looking

\* The head that a thief loads is one the deque has had.
LEMMA StealLoadHeadInv ==
    ASSUME IInv, NEW t \in Thief, StealLoadHead(t)
    PROVE  IInv'
<1>1. PICK i \in Memory!Readable(t, HEAD) :
        /\ pc[t] = "idle"
        /\ calls[t] < MaxSteals
        /\ calls' = [calls EXCEPT ![t] = @ + 1]
        /\ Memory!LoadAcquire(t, HEAD, i)
        /\ head' = Set(head, t, Memory!Value(HEAD, i))
        /\ Goto(t, "steal_fence")
        /\ UNCHANGED <<tail, x, pushed, taken>>
    BY DEF StealLoadHead
<1>2. Shape /\ HeadCounts /\ CallType /\ MemoryOK /\ t \in Thread /\ t # Owner /\ HEAD \in Location
    BY ThiefFacts
<1>3. Step(t, {}) /\ history' = history /\ current'[t][HEAD] = i
    BY <1>1, <1>2, AcquireStep
<1>4. i \in 1 .. Last(HEAD)
    BY <1>2 DEF Memory!Readable, Shape, Last
<1>5. PICK v \in Index : v = Memory!Value(HEAD, i) /\ Signed(v) = First + i - 1
    BY <1>4 DEF IInv, HeadCounts
<1>6. calls' \in [Thread -> 0 .. MaxTakes + MaxSteals]
    <2>1. calls \in [Thread -> 0 .. MaxTakes + MaxSteals] /\ calls[t] \in 0 .. MaxTakes + MaxSteals
        BY <1>2 DEF CallType
    <2>2. calls[t] + 1 \in 0 .. MaxTakes + MaxSteals
        BY <1>1, <2>1, DequeAssumption
    <2>3. QED
        BY <1>1, <2>1, <2>2
<1>7. /\ pc'[t] = "steal_fence" /\ head'[t] = v
      /\ \A u \in Thread \ {t} : SameLocals(u)
      /\ CallType'
    BY <1>1, <1>2, <1>5, <1>6 DEF CallType, Pushing, Taking, Looking, Set, Goto, SameLocals
<1>8. ThiefMove(t)
    BY <1>1, <1>3, <1>7 DEF ThiefMove
<1>9. ThiefCall(t)'
    <2>1. First' = First /\ First \in Int /\ i \in Nat /\ i >= 1
        BY <1>4, Unmoved, <1>8
    <2>2. Signed(head[t])' = First + i - 1
        BY <1>5, <1>7
    <2>3. QED
        BY <1>3, <1>7, <2>1, <2>2 DEF ThiefCall, Noticed, Looking
<1>10. QED
    BY <1>8, <1>9, ThiefMoves

\* After its fence a thief finds no tail of an element that was taken.
LEMMA StealFenceInv ==
    ASSUME IInv, NEW t \in Thief, StealFence(t)
    PROVE  IInv'
<1>1. /\ pc[t] = "steal_fence" /\ Memory!FenceSeqCst(t)
      /\ Goto(t, "steal_tail")
      /\ UNCHANGED <<head, tail, x, pushed, calls, taken>>
    BY DEF StealFence
<1>2. /\ Shape /\ CallType /\ MemoryOK /\ OwnerCall /\ TailsTrue /\ ThiefCall(t)
      /\ t \in Thread /\ t # Owner /\ HEAD \in Location /\ TAIL \in Location
      /\ head[t] \in Index /\ Signed(head[t]) \in Int
    BY ThiefFacts
<1>3. /\ Step(t, {}) /\ history' = history
      /\ \A l \in Location : current'[t][l] = order'[l]
    BY <1>1, <1>2, FenceStep
<1>4. /\ pc'[t] = "steal_tail" /\ head'[t] = head[t]
      /\ \A u \in Thread \ {t} : SameLocals(u)
      /\ CallType'
    BY <1>1, <1>2 DEF CallType, Pushing, Taking, Looking, Goto, SameLocals
<1>5. ThiefMove(t)
    BY <1>1, <1>3, <1>4 DEF ThiefMove
<1>6. /\ Shape' /\ EndPos' = EndPos /\ HeadPos' = HeadPos /\ EndPos \in Int /\ HeadPos \in Int
      /\ First \in Int /\ First' = First /\ OwnerInv'
      /\ \A l : Last(l)' = Last(l)
      /\ \A j : TailAt(j)' = TailAt(j) /\ TailView(j)' = TailView(j)
      /\ \A w, q : Covers(w, q)' <=> Covers(w, q)
      /\ \A l \in Location : order[l] <= order'[l]
    BY <1>5, Unmoved
<1>7. PICK h \in Int : h = Signed(head[t])
    BY <1>2
<1>8. Signed(head[t])' = h
    BY <1>4, <1>7
<1>9. /\ current[t][HEAD] \in Int /\ current'[t][HEAD] \in Int
      /\ current[t][HEAD] <= current'[t][HEAD] /\ current'[t][HEAD] = order'[HEAD]
    BY <1>2, <1>3, <1>6 DEF Shape, Step
<1>10. h \in First .. First + current'[t][HEAD] - 1
    <2>1. h \in First .. First + current[t][HEAD] - 1
        BY <1>1, <1>2, <1>7 DEF ThiefCall
    <2>2. QED
        BY <1>6, <1>7, <1>9, <2>1
<1>11. Reserving' => current'[t][TAIL] = Last(TAIL)'
    <2>1. Reserving' => order'[TAIL] = Last(TAIL)'
        BY <1>6 DEF OwnerInv, OwnerCall, Reserving, Fenced
    <2>2. QED
        BY <1>2, <1>3, <2>1
<1>12. ASSUME h = HeadPos, NEW j \in current'[t][TAIL] .. Last(TAIL)', TailAt(j) > h
       PROVE  h < EndPos /\ Covers(TailView(j), h)
    <2>1. /\ order[TAIL] \in 1 .. Last(TAIL) /\ order[TAIL] <= order'[TAIL]
          /\ current'[t][TAIL] = order'[TAIL] /\ order'[TAIL] \in Int
          /\ Last(TAIL) \in Int /\ Last(TAIL)' = Last(TAIL)
        BY <1>2, <1>3, <1>6 DEF Shape
    <2>2. j \in order[TAIL] .. Last(TAIL) /\ j \in 1 .. Last(TAIL)
        BY <2>1
    <2>3. TailAt(j) <= EndPos /\ \A q \in HeadPos .. TailAt(j) - 1 : Covers(TailView(j), q)
        BY <1>2, <2>2 DEF TailsTrue
    <2>4. TailAt(j) \in Int
        BY <1>2, <2>2, TailRange DEF IInv
    <2>5. QED
        BY <1>6, <1>12, <2>3, <2>4
<1>13. ThiefCall(t)'
    BY <1>4, <1>6, <1>8, <1>9, <1>10, <1>11, <1>12 DEF ThiefCall, Noticed, Looking
<1>14. QED
    BY <1>5, <1>13, ThiefMoves

\* The tail that shows a thief an element hands on the element.
LEMMA StealLoadTailInv ==
    ASSUME IInv, NEW t \in Thief, StealLoadTail(t)
    PROVE  IInv'
<1>1. PICK i \in Memory!Readable(t, TAIL) :
        /\ pc[t] = "steal_tail"
        /\ Memory!LoadAcquire(t, TAIL, i)
        /\ IF Signed(head[t]) < Signed(Memory!Value(TAIL, i))
           THEN Goto(t, "steal_item") /\ UNCHANGED <<head, tail, x>>
           ELSE Done(t)
        /\ UNCHANGED <<pushed, calls, taken>>
    BY DEF StealLoadTail
<1>2. /\ Shape /\ CallType /\ MemoryOK /\ ThiefCall(t) /\ ValuesFit
      /\ t \in Thread /\ t # Owner
      /\ HEAD \in Location /\ TAIL \in Location /\ DATA \in Location
      /\ head[t] \in Index /\ Signed(head[t]) \in Int
    BY ThiefFacts
<1>3. /\ Step(t, {}) /\ history' = history /\ current'[t][TAIL] = i
      /\ \A k \in Location : history[TAIL][i].view[k] <= current'[t][k]
    BY <1>1, <1>2, AcquireStep
<1>4. i \in 1 .. Last(TAIL) /\ i \in current[t][TAIL] .. Last(TAIL)
    BY <1>2 DEF Memory!Readable, Shape, Last
<1>5. TailAt(i) \in Int /\ TailAt(i) = Signed(Memory!Value(TAIL, i))
    BY <1>2, <1>4, TailRange DEF TailAt
<1>6. 0 \in Index /\ NoItem \in 0 .. MaxPushes
    BY DequeAssumption DEF Index, NoItem
<1>7. ASSUME ~(Signed(head[t]) < TailAt(i))
      PROVE  IInv'
    <2>1. Done(t)
        BY <1>1, <1>5, <1>7
    <2>2. /\ pc'[t] = "idle" /\ \A u \in Thread \ {t} : SameLocals(u)
          /\ CallType'
        BY <1>1, <1>2, <1>6, <2>1 DEF CallType, Pushing, Taking, Looking, Goto, Set, Done, SameLocals
    <2>3. ThiefMove(t)
        BY <1>1, <1>3, <2>2 DEF ThiefMove
    <2>4. QED
        BY <2>2, <2>3, IdleThief, ThiefMoves
<1>8. ASSUME Signed(head[t]) < TailAt(i)
      PROVE  IInv'
    <2>1. Goto(t, "steal_item") /\ UNCHANGED <<head, tail, x>>
        BY <1>1, <1>5, <1>8
    <2>2. /\ pc'[t] = "steal_item" /\ head'[t] = head[t]
          /\ \A u \in Thread \ {t} : SameLocals(u)
          /\ CallType'
        BY <1>1, <1>2, <2>1 DEF CallType, Pushing, Taking, Looking, Goto, SameLocals
    <2>3. ThiefMove(t)
        BY <1>1, <1>3, <2>2 DEF ThiefMove
    <2>4. /\ Shape' /\ EndPos' = EndPos /\ HeadPos' = HeadPos
          /\ First \in Int /\ First' = First
          /\ \A l : Last(l)' = Last(l) /\ Memory!Latest(l)' = Memory!Latest(l)
          /\ \A j : TailAt(j)' = TailAt(j)
          /\ \A w, q : Covers(w, q)' <=> Covers(w, q)
          /\ Reserving' <=> Reserving
          /\ current'[Owner] = current[Owner]
          /\ \A l \in Location : order[l] <= order'[l]
        BY <2>3, Unmoved
    <2>5. PICK h \in Int : h = Signed(head[t])
        BY <1>2
    <2>6. Signed(head[t])' = h
        BY <2>2, <2>5
    <2>7. /\ current[t][HEAD] \in Int /\ current'[t][HEAD] \in Int
          /\ current[t][HEAD] <= current'[t][HEAD]
          /\ order[HEAD] \in Int /\ order'[HEAD] \in Int /\ order[HEAD] <= order'[HEAD]
        BY <1>2, <1>3, <2>4 DEF Shape, Step
    <2>8. h \in First .. First + current'[t][HEAD] - 1 /\ h <= First + order'[HEAD] - 1
        <3>1. h \in First .. First + current[t][HEAD] - 1 /\ h <= First + order[HEAD] - 1
            BY <1>1, <1>2, <2>5 DEF ThiefCall, Noticed, Looking
        <3>2. QED
            BY <2>4, <2>5, <2>7, <3>1
    <2>9. Reserving => h <= First + current[Owner][HEAD] - 1 \/ current'[t][TAIL] = Last(TAIL)
        <3>1. Reserving => h <= First + current[Owner][HEAD] - 1 \/ current[t][TAIL] = Last(TAIL)
            BY <1>1, <1>2, <2>5 DEF ThiefCall, Noticed, Looking
        <3>2. current[t][TAIL] = Last(TAIL) => i = Last(TAIL)
            BY <1>2, <1>4 DEF Shape
        <3>3. QED
            BY <1>3, <3>1, <3>2
    <2>10. h < TailAt(current[t][TAIL])'
        <3>1. TailAt(current[t][TAIL])' = TailAt(i)'
            BY <1>3 DEF TailAt
        <3>2. QED
            BY <1>8, <2>4, <2>5, <3>1
    <2>11. ASSUME h = HeadPos
           PROVE  h < EndPos /\ Covers(current'[t], h)
        <3>1. h < EndPos /\ Covers(TailView(i), h)
            BY <1>1, <1>2, <1>4, <1>5, <1>8, <2>5, <2>11 DEF ThiefCall
        <3>2. PICK l \in Location : l = SlotOf(h)
            BY <2>5, PlaceFacts
        <3>3. /\ TailView(i)[l] = Last(l) /\ TailView(i)[DATA] > Memory!Latest(l)
              /\ TailView(i)[l] <= current'[t][l] /\ TailView(i)[DATA] <= current'[t][DATA]
            BY <1>2, <1>3, <3>1, <3>2 DEF Covers, TailView
        <3>4. /\ current'[t][l] \in 1 .. Last(l) /\ Last(l) \in Int
              /\ TailView(i)[DATA] \in Int /\ current'[t][DATA] \in Int
            BY <1>2, <1>4, <2>4 DEF Shape
        <3>5. Memory!Latest(l) \in Int
            BY <1>2 DEF Shape
        <3>6. current'[t][l] = Last(l) /\ current'[t][DATA] > Memory!Latest(l)
            BY <3>3, <3>4, <3>5
        <3>7. QED
            BY <3>1, <3>2, <3>6 DEF Covers
    <2>12. ThiefCall(t)'
        <3>1. (h = HeadPos => h < EndPos /\ Covers(current[t], h))'
            BY <2>4, <2>11 DEF Covers
        <3>2. QED
            BY <2>2, <2>4, <2>6, <2>8, <2>9, <2>10, <3>1 DEF ThiefCall, Noticed, Looking
    <2>13. QED
        BY <2>3, <2>12, ThiefMoves
<1>9. QED
    BY <1>7, <1>8

\* An element found in the place of a position.
LEMMA ElementType ==
    ASSUME Shape, ValuesFit, NEW q \in Int, NEW i \in 1 .. Last(SlotOf(q))
    PROVE  /\ Memory!Value(SlotOf(q), i) \in 0 .. MaxPushes
           /\ i = Last(SlotOf(q)) => Memory!Value(SlotOf(q), i) = Memory!Latest(SlotOf(q))
<1>1. PICK p \in Slot : SlotOf(q) = PlaceOf(p) /\ PlaceOf(p) \in Location
    BY PlaceFacts
<1>2. QED
    BY <1>1 DEF ValuesFit, Shape

\* If the head is still where the thief found it, so is the element.
LEMMA StealLoadItemInv ==
    ASSUME IInv, NEW t \in Thief, StealLoadItem(t)
    PROVE  IInv'
<1>2. /\ Shape /\ CallType /\ MemoryOK /\ ThiefCall(t) /\ ValuesFit
      /\ t \in Thread /\ t # Owner
      /\ HEAD \in Location /\ TAIL \in Location /\ DATA \in Location
      /\ head[t] \in Index /\ Signed(head[t]) \in Int
    BY ThiefFacts
<1>3. PICK h \in Int, l \in Location : h = Signed(head[t]) /\ l = SlotOf(h) /\ l = SlotOf(head[t])
                                       /\ l \notin {HEAD, TAIL, DATA}
    BY <1>2, Words, PlaceFacts
<1>1. PICK i \in Memory!Readable(t, l) :
        /\ pc[t] = "steal_item"
        /\ Memory!LoadRelaxed(t, l, i)
        /\ x' = Set(x, t, Memory!Value(l, i))
        /\ Goto(t, "steal_race")
        /\ UNCHANGED <<head, tail, pushed, calls, taken>>
    BY <1>3 DEF StealLoadItem
<1>4. /\ Step(t, {}) /\ history' = history
      /\ \A k \in Location \ {l} : current'[t][k] = current[t][k]
    BY <1>1, <1>2, RelaxedStep
<1>5. i \in 1 .. Last(l) /\ i \in current[t][l] .. Last(l)
    BY <1>2 DEF Memory!Readable, Shape, Last
<1>6. Memory!Value(l, i) \in 0 .. MaxPushes /\ (i = Last(l) => Memory!Value(l, i) = Memory!Latest(l))
    BY <1>2, <1>3, <1>5, ElementType
<1>7. /\ pc'[t] = "steal_race" /\ head'[t] = head[t] /\ x'[t] = Memory!Value(l, i)
      /\ \A u \in Thread \ {t} : SameLocals(u)
      /\ CallType'
    BY <1>1, <1>2, <1>6 DEF CallType, Pushing, Taking, Looking, Goto, Set, SameLocals
<1>8. ThiefMove(t)
    BY <1>1, <1>4, <1>7 DEF ThiefMove
<1>9. /\ Shape' /\ EndPos' = EndPos /\ HeadPos' = HeadPos
      /\ First \in Int /\ First' = First
      /\ \A k : Last(k)' = Last(k) /\ Memory!Latest(k)' = Memory!Latest(k)
      /\ \A j : TailAt(j)' = TailAt(j)
      /\ Reserving' <=> Reserving
      /\ current'[Owner] = current[Owner]
      /\ \A k \in Location : order[k] <= order'[k]
    BY <1>8, Unmoved
<1>10. Signed(head[t])' = h
    BY <1>3, <1>7
<1>11. /\ current'[t][HEAD] = current[t][HEAD] /\ current'[t][TAIL] = current[t][TAIL]
       /\ current'[t][DATA] = current[t][DATA]
       /\ order[HEAD] \in Int /\ order'[HEAD] \in Int /\ order[HEAD] <= order'[HEAD]
    BY <1>2, <1>3, <1>4, <1>9 DEF Shape
<1>12. /\ h \in First .. First + current'[t][HEAD] - 1 /\ h <= First + order'[HEAD] - 1
       /\ Reserving => h <= First + current[Owner][HEAD] - 1 \/ current'[t][TAIL] = Last(TAIL)
       /\ h < TailAt(current'[t][TAIL])
    <2>1. /\ h \in First .. First + current[t][HEAD] - 1 /\ h <= First + order[HEAD] - 1
          /\ Reserving => h <= First + current[Owner][HEAD] - 1 \/ current[t][TAIL] = Last(TAIL)
          /\ h < TailAt(current[t][TAIL])
        BY <1>1, <1>2, <1>3 DEF ThiefCall, Noticed, Looking
    <2>2. QED
        BY <1>3, <1>9, <1>11, <2>1
<1>13. ASSUME h = HeadPos
       PROVE  h < EndPos /\ x'[t] = Memory!Latest(SlotOf(h)) /\ x'[t] < current'[t][DATA]
    <2>1. h < EndPos /\ Covers(current[t], h)
        BY <1>1, <1>2, <1>3, <1>13 DEF ThiefCall
    <2>2. current[t][l] = Last(l) /\ current[t][DATA] > Memory!Latest(l) /\ Last(l) \in Int
        BY <1>2, <1>3, <2>1 DEF Covers, Shape
    <2>3. i = Last(l)
        BY <1>5, <2>2
    <2>4. QED
        BY <1>3, <1>6, <1>7, <1>11, <2>1, <2>2, <2>3
<1>14. (h < TailAt(current[t][TAIL]))'
    <2>1. TailAt(current[t][TAIL])' = TailAt(current[t][TAIL])
        BY <1>4, <1>11 DEF TailAt, Memory!Value
    <2>2. QED
        BY <1>11, <1>12, <2>1
<1>15. (h = HeadPos => h < EndPos /\ x[t] = Memory!Latest(SlotOf(h)) /\ x[t] < current[t][DATA])'
    BY <1>9, <1>13 DEF SlotOf
<1>16. ThiefCall(t)'
    BY <1>7, <1>9, <1>10, <1>12, <1>14, <1>15 DEF ThiefCall, Noticed, Looking
<1>17. QED
    BY <1>8, <1>16, ThiefMoves

-----------------------------------------------------------------------------
(* The race for an element                                                 *)

\* The compare_exchange of t succeeds while there is an element.
Wins(t) ==
    /\ Memory!SwapSucceeds(t, HEAD, head[t], Plus(head[t], 1))
    /\ HeadPos < EndPos
    /\ EndPos' = EndPos /\ pushed' = pushed
    /\ \A u \in Thread \ {t} : SameLocals(u)
    /\ Reserving' => Reserving
    /\ pc[Owner] # "push_tail" <=> pc'[Owner] # "push_tail"
    /\ pc[Owner] = "push_data" <=> pc'[Owner] = "push_data"
    /\ CallType'

\* Who wins moves the head by one and nothing else.
LEMMA HeadGrows ==
    ASSUME IInv, CountersFit, NEW t \in Thread, Wins(t)
    PROVE  /\ Shape /\ Shape' /\ Step(t, {HEAD}) /\ order' = order /\ released' = released
           /\ MemoryOK' /\ HeadCounts' /\ HeadPos' = HeadPos + 1 /\ HeadPos = Signed(head[t])
           /\ HeadPos \in Int /\ EndPos \in Int /\ First \in Int /\ First' = First
           /\ HeadPos = First + Last(HEAD) - 1
           /\ Last(HEAD)' = Last(HEAD) + 1 /\ current'[t][HEAD] = Last(HEAD)'
           /\ \A l \in Location \ {HEAD} :
                    Last(l)' = Last(l) /\ Memory!Latest(l)' = Memory!Latest(l)
           /\ \A j \in 1 .. Last(TAIL) : TailAt(j)' = TailAt(j) /\ TailView(j)' = TailView(j)
           /\ \A w : \A q \in Int : Covers(w, q)' <=> Covers(w, q)
           /\ Grown({HEAD})
<1>1. Shape /\ MemoryOK /\ HeadCounts /\ ValuesFit /\ CallType /\ WithinCapacity
    BY MemoryFacts DEF IInv
<1>2. /\ Memory!SwapSucceeds(t, HEAD, head[t], Plus(head[t], 1))
      /\ HeadPos < EndPos
    BY DEF Wins
<1>3. Memory!Latest(HEAD) = head[t]
    BY <1>2 DEF Memory!SwapSucceeds
<1>4. /\ HeadPos = First + Last(HEAD) - 1 /\ HeadPos \in Int /\ First \in Int /\ head[t] \in Index
      /\ First' = First
    BY <1>1, <1>3, Positions DEF First
<1>5. HeadPos = Signed(head[t])
    BY <1>3 DEF HeadPos
<1>6. EndPos \in Int /\ pushed \in 0 .. MaxPushes
    BY <1>1, EndPositions DEF CallType
<1>7. HeadPos + 1 < Modulus \div 2
    <2>1. First + MaxPushes < Modulus \div 2 /\ MaxPushes \in Int /\ Modulus \div 2 \in Int
        BY DequeAssumption DEF CountersFit
    <2>2. EndPos <= First + pushed
        BY <1>1 DEF WithinCapacity
    <2>3. QED
        BY <1>2, <1>4, <1>6, <2>1, <2>2
<1>8. PICK v \in Index : v = Plus(head[t], 1) /\ Signed(v) = HeadPos + 1
    <2>1. 0 - Modulus \div 2 <= HeadPos + 1 /\ Modulus \div 2 \in Int /\ 1 <= Modulus /\ 0 - Modulus <= 1
        BY <1>4, <1>5, Words, DequeAssumption
    <2>2. QED
        BY <1>4, <1>5, <1>7, <2>1, Counting
<1>9. /\ StoreStep(t, HEAD, v) /\ released' = released /\ Step(t, {HEAD}) /\ order' = order
      /\ Memory!Latest(HEAD)' = v /\ current'[t][HEAD] = Last(HEAD)'
    <2>1. v \in Nat /\ HEAD \in Location
        BY <1>8, Words, Places
    <2>2. Memory!SwapSucceeds(t, HEAD, head[t], v)
        BY <1>2, <1>8
    <2>3. StoreStep(t, HEAD, v) /\ released' = released
        BY <1>1, <2>1, <2>2, SwapStep
    <2>4. QED
        BY <2>3 DEF StoreStep
<1>10. MemoryOK' /\ Shape' /\ Grown({HEAD})
    BY <1>9, NextShape DEF Step
<1>11. HeadPos' = HeadPos + 1
    BY <1>8, <1>9 DEF HeadPos
<1>12. /\ Last(HEAD)' = Last(HEAD) + 1
       /\ \A l \in Location \ {HEAD} :
                Last(l)' = Last(l) /\ Memory!Latest(l)' = Memory!Latest(l)
       /\ \A l \in Location : \A i \in 1 .. Last(l) : Memory!Value(l, i)' = Memory!Value(l, i)
       /\ \A j \in 1 .. Last(TAIL) : TailAt(j)' = TailAt(j) /\ TailView(j)' = TailView(j)
    BY <1>1, <1>10, Kept, Places
<1>13. \A w : \A q \in Int : Covers(w, q)' <=> Covers(w, q)
    <2>1. \A q \in Int : SlotOf(q) \notin {HEAD}
        BY PlaceFacts
    <2>2. QED
        BY <1>1, <1>10, <2>1, Kept
<1>14. HeadCounts'
    <2>1. ASSUME NEW i \in 1 .. Last(HEAD)'
          PROVE  Memory!Value(HEAD, i)' \in Index /\ Signed(Memory!Value(HEAD, i)') = First + i - 1
        <3>1. Last(HEAD) \in Nat
            BY <1>1, Places DEF Shape
        <3>2. CASE i \in 1 .. Last(HEAD)
            <4>1. Memory!Value(HEAD, i)' = Memory!Value(HEAD, i)
                BY <1>12, <3>2, Places
            <4>2. QED
                BY <1>1, <3>2, <4>1 DEF HeadCounts
        <3>3. CASE i = Last(HEAD) + 1
            <4>1. Memory!Value(HEAD, i)' = Memory!Latest(HEAD)'
                BY <1>10, <1>12, <3>3, Places DEF Shape
            <4>2. QED
                BY <1>4, <1>8, <1>9, <3>1, <3>3, <4>1
        <3>4. QED
            BY <1>12, <3>1, <3>2, <3>3
    <2>2. QED
        BY <1>4, <2>1 DEF HeadCounts, Signed
<1>15. QED
    BY <1>1, <1>4, <1>5, <1>6, <1>9, <1>10, <1>11, <1>12, <1>13, <1>14

\* The winner takes nothing that others count on: they have lost.
LEMMA RaceKept ==
    ASSUME IInv, CountersFit, NEW t \in Thread, Wins(t)
    PROVE  /\ ValuesFit' /\ WithinCapacity' /\ OwnerKnows' /\ DataFirst' /\ AllReleased'
           /\ TailsTrue'
           /\ \A u \in Thief \ {t} : ThiefCall(u)'
<1>1. /\ Shape /\ Shape' /\ Step(t, {HEAD}) /\ order' = order /\ released' = released
      /\ HeadCounts' /\ HeadPos' = HeadPos + 1
      /\ HeadPos \in Int /\ EndPos \in Int /\ First \in Int /\ First' = First
      /\ Last(HEAD)' = Last(HEAD) + 1
      /\ \A l \in Location \ {HEAD} :
                Last(l)' = Last(l) /\ Memory!Latest(l)' = Memory!Latest(l)
      /\ \A j \in 1 .. Last(TAIL) : TailAt(j)' = TailAt(j) /\ TailView(j)' = TailView(j)
      /\ \A w : \A q \in Int : Covers(w, q)' <=> Covers(w, q)
      /\ Grown({HEAD})
    BY HeadGrows
<1>2. /\ ValuesFit /\ WithinCapacity /\ OwnerKnows /\ DataFirst /\ AllReleased /\ TailsTrue
      /\ CallType /\ HeadCounts /\ \A u \in Thief : ThiefCall(u)
    BY DEF IInv
<1>3. /\ HEAD \in Location /\ TAIL \in Location /\ DATA \in Location /\ HEAD # TAIL /\ HEAD # DATA
      /\ Owner \in Thread
      /\ \A p \in Slot : PlaceOf(p) \in Location \ {HEAD} /\ p \in Int /\ SlotOf(p) = PlaceOf(p)
    BY Places, PlaceFacts
<1>4. /\ HeadPos < EndPos /\ EndPos' = EndPos /\ pushed' = pushed
      /\ \A u \in Thread \ {t} : SameLocals(u)
      /\ Reserving' => Reserving
      /\ pc[Owner] # "push_tail" <=> pc'[Owner] # "push_tail"
      /\ pc[Owner] = "push_data" <=> pc'[Owner] = "push_data"
    BY DEF Wins
<1>0. \A u \in Thread, l \in Location : current[u][l] <= current'[u][l]
    BY <1>1, StepViews
<1>5. ValuesFit'
    <2>1. \A l \in Location : \A i \in 1 .. Last(l) : Memory!Value(l, i)' = Memory!Value(l, i)
        BY <1>1, Kept
    <2>2. \A l \in Location \ {HEAD} : 1 .. Last(l)' = 1 .. Last(l)
        BY <1>1
    <2>3. \A j \in 1 .. Last(TAIL)' : Memory!Value(TAIL, j)' \in Index
        BY <1>2, <1>3, <2>1, <2>2 DEF ValuesFit
    <2>4. \A p \in Slot : \A i \in 1 .. Last(PlaceOf(p))' :
                Memory!Value(PlaceOf(p), i)' \in 0 .. MaxPushes
        BY <1>2, <1>3, <2>1, <2>2 DEF ValuesFit
    <2>5. QED
        BY <2>3, <2>4 DEF ValuesFit, PlaceOf
<1>6. WithinCapacity'
    <2>1. Capacity \in Int
        BY DequeAssumption
    <2>2. QED
        BY <1>1, <1>2, <1>4, <2>1 DEF WithinCapacity
<1>7. OwnerKnows'
    <2>1. ASSUME NEW l \in Location \ {HEAD} PROVE current'[Owner][l] = Last(l)'
        <3>1. current[Owner][l] = Last(l) /\ Last(l)' = Last(l)
            BY <1>1, <1>2 DEF OwnerKnows
        <3>2. current'[Owner][l] \in 1 .. Last(l)' /\ current[Owner][l] \in Int
              /\ current[Owner][l] <= current'[Owner][l]
            BY <1>0, <1>1, <1>3 DEF Shape
        <3>3. QED
            BY <3>1, <3>2
    <2>2. QED
        BY <2>1 DEF OwnerKnows
<1>8. DataFirst' /\ AllReleased'
    <2>1. DataFirst'
        BY <1>1, <1>2, <1>3, <1>4 DEF DataFirst, PlaceOf
    <2>2. \A p \in Slot : Covers(released[Owner], p)' <=> Covers(released[Owner], p)
        <3>1. \A p \in Slot : \A w : Covers(w, p)' <=> Covers(w, p)
            BY <1>1, <1>3
        <3>2. QED
            BY <1>1, <3>1 DEF Covers
    <2>3. QED
        BY <1>2, <1>4, <2>1, <2>2 DEF AllReleased
<1>9. TailsTrue'
    <2>1. ASSUME NEW j \in order'[TAIL] .. Last(TAIL)' PROVE Truthful(j)'
        <3>1. j \in order[TAIL] .. Last(TAIL) /\ j \in 1 .. Last(TAIL)
            BY <1>1, <1>3 DEF Shape
        <3>2. /\ TailAt(j)' = TailAt(j) /\ TailView(j)' = TailView(j) /\ TailAt(j) \in Int
            BY <1>1, <1>2, <3>1, TailRange
        <3>3. /\ TailAt(j) <= EndPos
              /\ \A q \in HeadPos .. TailAt(j) - 1 : Covers(TailView(j), q)
            BY <1>2, <3>1 DEF TailsTrue
        <3>4. ASSUME NEW q \in HeadPos + 1 .. TailAt(j) - 1 PROVE Covers(TailView(j), q)'
            <4>1. q \in HeadPos .. TailAt(j) - 1 /\ q \in Int
                BY <1>1, <3>2
            <4>2. QED
                BY <1>1, <3>2, <3>3, <4>1
        <3>5. QED
            BY <1>1, <1>4, <3>2, <3>3, <3>4 DEF Truthful
    <2>2. QED
        BY <2>1 DEF TailsTrue, Truthful
<1>10. ASSUME NEW u \in Thief \ {t} PROVE ThiefCall(u)'
    <2>1. /\ u \in Thread /\ ThiefCall(u) /\ Signed(head[u]) \in Int
          /\ pc[u] # "idle" => Signed(head[u]) <= HeadPos
        BY <1>1, <1>2, ThiefPositions
    <2>2. /\ pc'[u] = pc[u] /\ head'[u] = head[u] /\ x'[u] = x[u] /\ current'[u] = current[u]
        BY <1>1, <1>4, <2>1 DEF SameLocals, Step
    <2>3. PICK h \in Int : h = Signed(head[u])
        BY <2>1
    <2>4. Signed(head[u])' = h
        BY <2>2, <2>3
    <2>5. /\ current[Owner][HEAD] \in Int /\ current'[Owner][HEAD] \in Int
          /\ current[Owner][HEAD] <= current'[Owner][HEAD]
        BY <1>0, <1>1, <1>3 DEF Shape
    <2>6. pc[u] # "idle" => h \in First .. First + current[u][HEAD] - 1
        BY <2>1, <2>3 DEF ThiefCall
    <2>7. Looking(u) => h <= First + order[HEAD] - 1
        BY <2>1, <2>3 DEF ThiefCall
    <2>8. Looking(u) /\ Reserving =>
                h <= First + current'[Owner][HEAD] - 1 \/ current[u][TAIL] = Last(TAIL)
        BY <1>1, <2>1, <2>3, <2>5 DEF ThiefCall, Noticed
    <2>9. pc[u] \in {"steal_item", "steal_race"} => h < TailAt(current[u][TAIL])
        BY <2>1, <2>3 DEF ThiefCall
    <2>10. TailAt(current[u][TAIL])' = TailAt(current[u][TAIL])
        <3>1. PICK j \in 1 .. Last(TAIL) : j = current[u][TAIL]
            BY <1>1, <1>3, <2>1 DEF Shape
        <3>2. TailAt(j)' = TailAt(j)
            BY <1>1
        <3>3. TailAt(current[u][TAIL])' = TailAt(j)'
            BY <2>2, <3>1 DEF TailAt
        <3>4. QED
            BY <3>1, <3>2, <3>3
    <2>11. pc[u] # "idle" => h # HeadPos'
        BY <1>1, <2>1, <2>3
    <2>12. Last(TAIL)' = Last(TAIL) /\ order' = order
        BY <1>1, <1>3
    <2>13. QED
        BY <1>1, <1>4, <2>2, <2>4, <2>6, <2>7, <2>8, <2>9, <2>10, <2>11, <2>12 DEF ThiefCall, Noticed, Looking
<1>11. QED
    BY <1>5, <1>6, <1>7, <1>8, <1>9, <1>10

\* A thief that fails its race returns; what it was last given stays.
LEMMA StealLost ==
    ASSUME IInv, NEW t \in Thief, pc[t] = "steal_race",
           Memory!SwapFails(t, HEAD, head[t]), UNCHANGED taken, Done(t),
           UNCHANGED <<pushed, calls>>
    PROVE  IInv'
<1>1. Shape /\ CallType /\ MemoryOK /\ t \in Thread /\ t # Owner /\ HEAD \in Location
    BY ThiefFacts
<1>2. Step(t, {}) /\ history' = history
    BY <1>1, SwapFailsStep
<1>3. 0 \in Index /\ NoItem \in 0 .. MaxPushes
    BY DequeAssumption DEF Index, NoItem
<1>4. /\ pc'[t] = "idle" /\ \A u \in Thread \ {t} : SameLocals(u)
      /\ CallType'
    BY <1>1, <1>3 DEF CallType, Pushing, Taking, Looking, Goto, Set, Done, SameLocals
<1>5. ThiefMove(t)
    BY <1>2, <1>4 DEF ThiefMove
<1>6. QED
    BY <1>4, <1>5, IdleThief, ThiefMoves

\* A thief that wins was given the oldest element.
LEMMA StealWon ==
    ASSUME IInv, CountersFit, NEW t \in Thief, pc[t] = "steal_race",
           Memory!SwapSucceeds(t, HEAD, head[t], Plus(head[t], 1)),
           taken' = Set(taken, t, x[t]), Done(t), UNCHANGED <<pushed, calls>>
    PROVE  /\ IInv' /\ Wins(t) /\ x[t] = Memory!Latest(SlotOf(HeadPos)) /\ pc'[Owner] = pc[Owner]
<1>1. /\ Shape /\ CallType /\ MemoryOK /\ ThiefCall(t) /\ OwnerCall /\ HeadCounts
      /\ ValuesFit /\ PayloadVisible
      /\ t \in Thread /\ t # Owner /\ Owner \in Thread
      /\ HEAD \in Location /\ TAIL \in Location /\ DATA \in Location
      /\ HEAD # TAIL /\ HEAD # DATA
    BY ThiefFacts, Places DEF IInv
<1>2. HeadPos = Signed(head[t])
    BY DEF Memory!SwapSucceeds, HeadPos
<1>3. /\ HeadPos < EndPos /\ x[t] = Memory!Latest(SlotOf(HeadPos)) /\ x[t] < current[t][DATA]
      /\ HeadPos <= First + order[HEAD] - 1
      /\ HeadPos < TailAt(current[t][TAIL])
      /\ Reserving => HeadPos <= First + current[Owner][HEAD] - 1 \/ current[t][TAIL] = Last(TAIL)
    BY <1>1, <1>2 DEF ThiefCall, Noticed, Looking
<1>4. 0 \in Index /\ NoItem \in 0 .. MaxPushes
    BY DequeAssumption DEF Index, NoItem
<1>5. /\ pc'[t] = "idle" /\ \A u \in Thread \ {t} : SameLocals(u)
      /\ taken'[t] = x[t] /\ \A u \in Thread \ {t} : taken'[u] = taken[u]
      /\ CallType' /\ pushed' = pushed
    BY <1>1, <1>4 DEF CallType, Pushing, Taking, Looking, Goto, Set, Done, SameLocals
<1>6. SameLocals(Owner)
    BY <1>1, <1>5
<1>7. EndPos' = EndPos
    <2>1. Memory!Latest(TAIL)' = Memory!Latest(TAIL)
        <3>1. PICK v \in Nat : v = Plus(head[t], 1)
            BY <1>1, DequeAssumption DEF Plus, CallType, Index
        <3>2. Step(t, {HEAD})
            BY <1>1, <3>1, SwapStep DEF StoreStep
        <3>3. Shape' /\ Grown({HEAD})
            BY <3>2, NextShape DEF Step
        <3>4. QED
            BY <1>1, <3>3, Kept
    <2>2. QED
        BY <1>6, <2>1 DEF EndPos, Reach, OwnTail, SameLocals
<1>8. Wins(t)
    BY <1>1, <1>3, <1>5, <1>6, <1>7 DEF Wins, SameLocals, Reserving
<1>9. /\ Shape' /\ Step(t, {HEAD}) /\ order' = order
      /\ MemoryOK' /\ HeadCounts' /\ HeadPos' = HeadPos + 1
      /\ HeadPos \in Int /\ EndPos \in Int /\ First \in Int /\ First' = First
      /\ HeadPos = First + Last(HEAD) - 1
      /\ Last(HEAD)' = Last(HEAD) + 1
      /\ \A l \in Location \ {HEAD} :
                Last(l)' = Last(l) /\ Memory!Latest(l)' = Memory!Latest(l)
    BY <1>1, <1>8, HeadGrows
<1>10. /\ ValuesFit' /\ WithinCapacity' /\ OwnerKnows' /\ DataFirst' /\ AllReleased'
       /\ TailsTrue'
       /\ \A u \in Thief : ThiefCall(u)'
    BY <1>1, <1>5, <1>8, RaceKept, IdleThief
<1>11. HeadOrdered'
    <2>1. order[HEAD] \in Int /\ Last(HEAD) \in Int
        BY <1>1 DEF Shape
    <2>2. QED
        BY <1>3, <1>9, <2>1 DEF HeadOrdered
<1>12. current'[Owner] = current[Owner] /\ current[Owner][HEAD] \in Int
    BY <1>1, <1>9 DEF Step, Shape
\* Not the element that the owner may take without a race.
<1>13. Reserving => HeadPos + 1 < EndPos \/ EndPos <= First + current[Owner][HEAD]
    <2>1. SUFFICES ASSUME Reserving, HeadPos + 1 >= EndPos
                   PROVE  EndPos <= First + current[Owner][HEAD]
        BY <1>9, <1>12
    <2>2. Signed(OwnTail) = EndPos - 1
        BY <1>1, <2>1 DEF OwnerCall, Taking, Reserving
    <2>3. TailAt(Last(TAIL)) = Signed(OwnTail)
        BY <1>1, EndPositions DEF TailAt
    <2>4. current[t][TAIL] # Last(TAIL)
        BY <1>3, <1>9, <2>1, <2>2, <2>3
    <2>5. QED
        BY <1>3, <1>9, <1>12, <2>1, <2>4
<1>14. OwnerCall'
    <2>1. /\ SlotOf(tail[Owner])' = SlotOf(tail[Owner]) /\ SlotOf(tail[Owner]) \in Location \ {HEAD}
        BY <1>1, <1>6, EndPositions, Words, PlaceFacts DEF SlotOf, SameLocals
    <2>2. Memory!Latest(SlotOf(tail[Owner]))' = Memory!Latest(SlotOf(tail[Owner]))
        BY <1>9, <2>1
    <2>3. OwnTail' = OwnTail /\ Last(TAIL)' = Last(TAIL)
        BY <1>1, <1>9 DEF OwnTail
    <2>4. /\ Pushing' <=> Pushing
          /\ Taking' <=> Taking
          /\ Fenced' <=> Fenced
          /\ Reserving' <=> Reserving
        BY <1>6 DEF Pushing, Taking, Fenced, Reserving, SameLocals
    <2>5. (Pushing =>
            /\ tail[Owner] = OwnTail /\ x[Owner] = pushed /\ pushed >= 1
            /\ EndPos < HeadPos + Capacity /\ EndPos < First + pushed)'
        <3>1. SUFFICES ASSUME Pushing
                       PROVE  /\ tail[Owner] = OwnTail /\ x[Owner] = pushed /\ pushed >= 1
                              /\ EndPos < HeadPos + 1 + Capacity /\ EndPos < First + pushed
            BY <1>5, <1>6, <1>7, <1>9, <2>3, <2>4 DEF SameLocals
        <3>2. QED
            BY <1>1, <1>9, <3>1, DequeAssumption DEF OwnerCall
    <2>6. (Reserving => HeadPos < EndPos \/ EndPos <= First + current[Owner][HEAD])'
        BY <1>7, <1>9, <1>12, <1>13, <2>4
    <2>7. QED
        BY <1>1, <1>6, <1>7, <1>9, <1>12, <2>1, <2>2, <2>3, <2>4, <2>5, <2>6 DEF OwnerCall, SameLocals
<1>15. PayloadVisible'
    <2>1. ASSUME NEW u \in Thread, taken'[u] # NoItem PROVE current'[u][DATA] > taken'[u]
        <3>1. current[u][DATA] <= current'[u][DATA]
              /\ current[u][DATA] \in Int /\ current'[u][DATA] \in Int
            BY <1>1, <1>9, StepViews DEF Shape
        <3>2. taken[u] \in Int /\ x[t] \in Int /\ taken'[u] \in Int
            BY <1>1, <1>5 DEF CallType
        <3>3. CASE u = t
            BY <1>3, <1>5, <3>1, <3>2, <3>3
        <3>4. CASE u # t
            BY <1>1, <1>5, <2>1, <3>1, <3>2, <3>4 DEF PayloadVisible
        <3>5. QED
            BY <3>3, <3>4
    <2>2. QED
        BY <2>1 DEF PayloadVisible, NoItem
<1>16. IInv'
    BY <1>5, <1>9, <1>10, <1>11, <1>14, <1>15 DEF IInv
<1>17. QED
    BY <1>3, <1>6, <1>8, <1>16 DEF SameLocals

\* Either way a steal keeps the invariant.
LEMMA StealRaceInv ==
    ASSUME IInv, CountersFit, NEW t \in Thief, StealRace(t)
    PROVE  IInv'
    BY StealLost, StealWon DEF StealRace

-----------------------------------------------------------------------------
(* The owner                                                               *)

\* What the steps of the owner use of the invariant.
LEMMA OwnerFacts ==
    ASSUME IInv
    PROVE  /\ Shape /\ HeadCounts /\ ValuesFit /\ CallType /\ MemoryOK /\ TailsTrue
           /\ WithinCapacity /\ OwnerCall /\ OwnerKnows /\ DataFirst /\ AllReleased
           /\ HeadOrdered /\ PayloadVisible
           /\ Owner \in Thread /\ Owner \notin Thief /\ Thread \ {Owner} = Thief
           /\ HEAD \in Location /\ TAIL \in Location /\ DATA \in Location
           /\ HEAD # TAIL /\ HEAD # DATA /\ TAIL # DATA
           /\ HeadPos \in Int /\ EndPos \in Int /\ First \in Int
           /\ HeadPos = First + Last(HEAD) - 1
           /\ 0 \in Index /\ NoItem \in 0 .. MaxPushes /\ First' = First
<1>1. Shape /\ HeadCounts /\ ValuesFit /\ CallType
    BY MemoryFacts DEF IInv
<1>2. 0 \in Index /\ NoItem \in 0 .. MaxPushes /\ First' = First
    BY DequeAssumption DEF Index, NoItem, First
<1>3. Owner \in Thread /\ Owner \notin Thief /\ Thread \ {Owner} = Thief
    BY Places DEF Thread
<1>4. QED
    BY <1>1, <1>2, <1>3, Places, Positions, EndPositions DEF IInv

\* A step of the owner that leaves the head alone, as far as the thieves go.
LEMMA OwnerMoves ==
    ASSUME IInv, NEW L, Step(Owner, L), NotTaking(L), EndPos' \in Int,
           \A u \in Thief : SameLocals(u),
           (Reserving' => Reserving /\ TAIL \notin L) \/ \A u \in Thief : Noticed(u)'
    PROVE  TailsTrue' /\ \A u \in Thief : ThiefCall(u)'
<1>1. /\ Shape /\ HeadCounts /\ ValuesFit /\ CallType /\ TailsTrue
      /\ Owner \notin Thief /\ EndPos \in Int
    BY OwnerFacts
<1>2. Shape'
    BY NextShape DEF Step
<1>3. TailsTrue'
    BY <1>1, <1>2, TailsKept
<1>4. ASSUME NEW u \in Thief PROVE ThiefCall(u)'
    <2>1. u \in Thread \ {Owner} /\ ThiefCall(u)
        BY <1>1, Places DEF IInv
    <2>2. SameThief(u)
        BY <2>1 DEF SameThief, SameLocals, Step
    <2>3. QED
        BY <1>1, <1>2, <2>1, <2>2, ThiefKept
<1>5. QED
    BY <1>3, <1>4

\* One that stores nothing.
OwnerLook ==
    /\ Step(Owner, {}) /\ history' = history
    /\ \A u \in Thief : SameLocals(u)
    /\ CallType'

\* A step of the owner that stores nothing moves neither head nor tail.
LEMMA OwnerLooks ==
    ASSUME IInv, OwnerLook
    PROVE  /\ Shape' /\ MemoryOK' /\ ValuesFit' /\ HeadCounts' /\ OwnerKnows' /\ HeadOrdered'
           /\ HeadPos' = HeadPos /\ EndPos' \in Int /\ OwnTail' = OwnTail
           /\ \A l : Last(l)' = Last(l) /\ Memory!Latest(l)' = Memory!Latest(l)
           /\ \A j : TailAt(j)' = TailAt(j) /\ TailView(j)' = TailView(j)
           /\ \A w, q : Covers(w, q)' <=> Covers(w, q)
           /\ \A u \in Thread, l \in Location : current[u][l] <= current'[u][l]
           /\ \A l \in Location : order[l] <= order'[l]
           /\ \A l \in Location \ {HEAD} : current'[Owner][l] = current[Owner][l]
           /\ EndPos <= EndPos' /\ ((Reserving' => Reserving) \/ \A u \in Thief : Noticed(u)') =>
                    TailsTrue' /\ \A u \in Thief : ThiefCall(u)'
<1>1. /\ Shape /\ HeadCounts /\ ValuesFit /\ CallType /\ TailsTrue /\ OwnerKnows /\ HeadOrdered
      /\ HEAD \in Location
      /\ Owner \in Thread /\ Owner \notin Thief /\ EndPos \in Int /\ First' = First
    BY OwnerFacts
<1>2. Shape' /\ MemoryOK' /\ CallType'
    BY NextShape DEF Step, OwnerLook
<1>3. /\ \A l : Last(l)' = Last(l) /\ Memory!Latest(l)' = Memory!Latest(l)
      /\ \A l, i : Memory!Value(l, i)' = Memory!Value(l, i)
    BY DEF OwnerLook, Last, Memory!Latest, Memory!Value
<1>4. /\ \A j : TailAt(j)' = TailAt(j) /\ TailView(j)' = TailView(j)
      /\ \A w, q : Covers(w, q)' <=> Covers(w, q)
      /\ HeadPos' = HeadPos /\ OwnTail' = OwnTail
    BY <1>3 DEF OwnerLook, TailAt, TailView, Covers, HeadPos, OwnTail
<1>5. ValuesFit' /\ HeadCounts'
    BY <1>1, <1>3 DEF ValuesFit, HeadCounts
<1>6. EndPos' \in Int
    BY <1>2, <1>5, NextEnd DEF EndTyped
<1>7. /\ \A u \in Thread, l \in Location : current[u][l] <= current'[u][l]
      /\ \A l \in Location : order[l] <= order'[l]
    BY <1>1, <1>2, StepViews DEF OwnerLook, Step
<1>8. \A l \in Location \ {HEAD} : current'[Owner][l] = current[Owner][l]
    <2>1. ASSUME NEW l \in Location \ {HEAD} PROVE current'[Owner][l] = current[Owner][l]
        <3>1. current[Owner][l] = Last(l) /\ Last(l)' = Last(l)
            BY <1>1, <1>3 DEF OwnerKnows
        <3>2. /\ current'[Owner][l] \in 1 .. Last(l)' /\ current[Owner][l] \in Int
              /\ current[Owner][l] <= current'[Owner][l]
            BY <1>1, <1>2, <1>7 DEF Shape
        <3>3. QED
            BY <3>1, <3>2
    <2>2. QED
        BY <2>1
<1>9. OwnerKnows'
    BY <1>1, <1>3, <1>8 DEF OwnerKnows
<1>10. HeadOrdered'
    <2>1. /\ current[Owner][HEAD] \in Int /\ current'[Owner][HEAD] \in Int
          /\ order[HEAD] \in Int /\ order'[HEAD] \in Int
          /\ current[Owner][HEAD] <= current'[Owner][HEAD] /\ order[HEAD] <= order'[HEAD]
          /\ Last(HEAD) \in Int /\ Last(HEAD)' = Last(HEAD)
        BY <1>1, <1>2, <1>3, <1>7 DEF Shape
    <2>2. QED
        BY <1>1, <2>1 DEF HeadOrdered
<1>11. ASSUME EndPos <= EndPos', (Reserving' => Reserving) \/ \A u \in Thief : Noticed(u)'
       PROVE  TailsTrue' /\ \A u \in Thief : ThiefCall(u)'
    <2>1. NotTaking({})
        BY <1>1, <1>7, <1>11 DEF NotTaking, OwnerLook, Step
    <2>2. QED
        BY <1>6, <1>11, <2>1, OwnerMoves DEF OwnerLook
<1>12. QED
    BY <1>2, <1>3, <1>4, <1>5, <1>6, <1>7, <1>8, <1>9, <1>10, <1>11

\* The owner is given nothing, or what it may read.
LEMMA OwnerGiven ==
    ASSUME Shape, Shape', CallType, PayloadVisible, NEW v \in Int,
           \A u \in Thread : current[u][DATA] <= current'[u][DATA],
           \/ taken' = taken
           \/ taken' = Set(taken, Owner, v) /\ (v = NoItem \/ v < current'[Owner][DATA])
    PROVE  PayloadVisible'
<1>1. ASSUME NEW u \in Thread, taken'[u] # NoItem PROVE current'[u][DATA] > taken'[u]
    <2>1. /\ current[u][DATA] \in Int /\ current'[u][DATA] \in Int /\ taken[u] \in Int
          /\ current[u][DATA] <= current'[u][DATA]
        BY Places DEF Shape, CallType
    <2>2. CASE taken'[u] = taken[u]
        BY <1>1, <2>1, <2>2 DEF PayloadVisible
    <2>3. CASE taken'[u] # taken[u]
        <3>1. u = Owner /\ taken'[u] = v /\ v < current'[Owner][DATA]
            BY <1>1, <2>3 DEF Set, CallType
        <3>2. QED
            BY <2>1, <3>1
    <2>4. QED
        BY <2>2, <2>3
<1>2. QED
    BY <1>1 DEF PayloadVisible, NoItem

\* A deque that is not full has a place for the element.
LEMMA PushLoadHeadInv ==
    ASSUME IInv, PushLoadHead
    PROVE  IInv'
<1>1. PICK i \in Memory!Readable(Owner, HEAD) :
        /\ pc[Owner] = "idle"
        /\ pushed < MaxPushes
        /\ Memory!LoadAcquire(Owner, HEAD, i)
        /\ (OwnTail - Memory!Value(HEAD, i)) % Modulus < Capacity
        /\ pushed' = pushed + 1
        /\ x' = Set(x, Owner, pushed + 1)
        /\ tail' = Set(tail, Owner, OwnTail)
        /\ Goto(Owner, "push_data")
        /\ UNCHANGED <<head, calls, taken>>
    BY DEF PushLoadHead
<1>2. /\ Shape /\ HeadCounts /\ ValuesFit /\ CallType /\ MemoryOK
      /\ WithinCapacity /\ OwnerCall /\ DataFirst /\ AllReleased /\ PayloadVisible
      /\ Owner \in Thread /\ Owner \notin Thief /\ Thread \ {Owner} = Thief
      /\ HEAD \in Location /\ TAIL \in Location /\ DATA \in Location
      /\ HeadPos \in Int /\ EndPos \in Int /\ First \in Int
      /\ HeadPos = First + Last(HEAD) - 1 /\ First' = First
    BY OwnerFacts
<1>3. Step(Owner, {}) /\ history' = history /\ released' = released
    BY <1>1, <1>2, AcquireStep
<1>4. OwnTail \in Index /\ EndPos = Signed(OwnTail)
    BY <1>1, <1>2, EndPositions DEF Taking
<1>5. pushed \in 0 .. MaxPushes /\ pushed + 1 \in 0 .. MaxPushes /\ pushed \in Int
    BY <1>1, <1>2, DequeAssumption DEF CallType
<1>6. /\ \A u \in Thief : SameLocals(u)
      /\ pc'[Owner] = "push_data" /\ tail'[Owner] = OwnTail /\ x'[Owner] = pushed + 1
      /\ CallType'
    BY <1>1, <1>2, <1>4, <1>5 DEF CallType, Pushing, Taking, Looking, Goto, Set, SameLocals
<1>7. OwnerLook
    BY <1>3, <1>6 DEF OwnerLook
<1>8. /\ Shape' /\ MemoryOK' /\ ValuesFit' /\ HeadCounts' /\ OwnerKnows' /\ HeadOrdered'
      /\ HeadPos' = HeadPos /\ OwnTail' = OwnTail
      /\ \A l : Last(l)' = Last(l) /\ Memory!Latest(l)' = Memory!Latest(l)
      /\ \A w, q : Covers(w, q)' <=> Covers(w, q)
      /\ \A u \in Thread, l \in Location : current[u][l] <= current'[u][l]
      /\ EndPos <= EndPos' /\ (Reserving' => Reserving) =>
               TailsTrue' /\ \A u \in Thief : ThiefCall(u)'
    BY <1>7, OwnerLooks
<1>9. EndPos' = EndPos
    BY <1>4, <1>6, <1>8 DEF EndPos, Reach
<1>10. TailsTrue' /\ \A u \in Thief : ThiefCall(u)'
    BY <1>2, <1>6, <1>8, <1>9 DEF Reserving
\* The head that it found is no later than the head.
<1>11. EndPos < HeadPos + Capacity
    <2>1. i \in 1 .. Last(HEAD) /\ Last(HEAD) \in Nat
        BY <1>2 DEF Memory!Readable, Shape, Last
    <2>2. PICK v \in Index : v = Memory!Value(HEAD, i) /\ Signed(v) = First + i - 1
        BY <1>2, <2>1 DEF HeadCounts
    <2>3. Signed(v) <= HeadPos /\ HeadPos <= EndPos /\ Signed(v) \in Int
        BY <1>2, <2>1, <2>2 DEF WithinCapacity
    <2>4. (OwnTail - v) % Modulus = EndPos - Signed(v)
        BY <1>2, <1>4, <2>3, Difference
    <2>5. EndPos - Signed(v) < Capacity /\ Capacity \in Int
        BY <1>1, <2>2, <2>4, DequeAssumption
    <2>6. QED
        BY <1>2, <2>3, <2>5
<1>12. WithinCapacity'
    BY <1>1, <1>2, <1>5, <1>8, <1>9 DEF WithinCapacity
<1>13. OwnerCall'
    <2>1. EndPos < First + pushed' /\ pushed' >= 1
        BY <1>1, <1>2, <1>5 DEF WithinCapacity
    <2>2. EndPos' < First' + pushed' /\ EndPos' < HeadPos' + Capacity
        BY <1>2, <1>8, <1>9, <1>11, <2>1
    <2>3. tail'[Owner] = OwnTail' /\ x'[Owner] = pushed'
        BY <1>1, <1>6, <1>8
    <2>4. QED
        BY <1>6, <2>1, <2>2, <2>3 DEF OwnerCall, Pushing, Taking, Fenced, Reserving
<1>14. DataFirst'
    BY <1>1, <1>2, <1>6, <1>8 DEF DataFirst, PlaceOf
<1>15. AllReleased'
    BY <1>1, <1>2, <1>3, <1>8 DEF AllReleased, Covers
<1>16. PayloadVisible'
    BY <1>1, <1>2, <1>8, OwnerGiven
<1>17. QED
    BY <1>6, <1>8, <1>10, <1>12, <1>13, <1>14, <1>15, <1>16 DEF IInv

\* A full one is left alone.
LEMMA PushFullInv ==
    ASSUME IInv, PushFull
    PROVE  IInv'
<1>1. PICK i \in Memory!Readable(Owner, HEAD) :
        /\ pc[Owner] = "idle"
        /\ Memory!LoadAcquire(Owner, HEAD, i)
        /\ UNCHANGED <<pc, head, tail, x, pushed, calls, taken>>
    BY DEF PushFull, locals
<1>2. /\ Shape /\ HeadCounts /\ ValuesFit /\ CallType /\ MemoryOK
      /\ WithinCapacity /\ OwnerCall /\ DataFirst /\ AllReleased /\ PayloadVisible
      /\ Owner \in Thread /\ Owner \notin Thief /\ Thread \ {Owner} = Thief
      /\ HEAD \in Location /\ TAIL \in Location /\ DATA \in Location
      /\ HeadPos \in Int /\ EndPos \in Int /\ First \in Int /\ First' = First
    BY OwnerFacts
<1>3. Step(Owner, {}) /\ history' = history /\ released' = released
    BY <1>1, <1>2, AcquireStep
<1>4. /\ \A u \in Thief : SameLocals(u)
      /\ pc'[Owner] = "idle"
      /\ CallType'
    BY <1>1, <1>2 DEF CallType, Pushing, Taking, Looking, SameLocals
<1>5. OwnerLook
    BY <1>3, <1>4 DEF OwnerLook
<1>6. /\ Shape' /\ MemoryOK' /\ ValuesFit' /\ HeadCounts' /\ OwnerKnows' /\ HeadOrdered'
      /\ HeadPos' = HeadPos /\ OwnTail' = OwnTail
      /\ \A l : Last(l)' = Last(l) /\ Memory!Latest(l)' = Memory!Latest(l)
      /\ \A w, q : Covers(w, q)' <=> Covers(w, q)
      /\ \A u \in Thread, l \in Location : current[u][l] <= current'[u][l]
      /\ EndPos <= EndPos' /\ (Reserving' => Reserving) =>
               TailsTrue' /\ \A u \in Thief : ThiefCall(u)'
    BY <1>5, OwnerLooks
<1>7. EndPos' = EndPos
    BY <1>1, <1>6 DEF EndPos, Reach
<1>8. TailsTrue' /\ \A u \in Thief : ThiefCall(u)'
    BY <1>1, <1>2, <1>6, <1>7 DEF Reserving
<1>9. WithinCapacity'
    BY <1>1, <1>2, <1>6, <1>7 DEF WithinCapacity
<1>10. OwnerCall'
    BY <1>4 DEF OwnerCall, Pushing, Taking, Fenced, Reserving
<1>11. DataFirst'
    BY <1>1, <1>2, <1>6 DEF DataFirst, PlaceOf
<1>12. AllReleased'
    BY <1>1, <1>2, <1>3, <1>6 DEF AllReleased, Covers
<1>13. PayloadVisible'
    BY <1>1, <1>2, <1>6, OwnerGiven
<1>14. QED
    BY <1>4, <1>6, <1>8, <1>9, <1>10, <1>11, <1>12, <1>13 DEF IInv

\* What the owner knows it may hand on.
LEMMA AllKnown ==
    ASSUME Shape, OwnerKnows, DataFirst, NEW w, NEW p \in Slot,
           \A l \in Location \ {HEAD} : w[l] = current[Owner][l]
    PROVE  Covers(w, p)
<1>1. PlaceOf(p) \in Location \ {HEAD} /\ SlotOf(p) = PlaceOf(p) /\ DATA \in Location \ {HEAD}
    BY Places, PlaceFacts
<1>2. w[PlaceOf(p)] = Last(PlaceOf(p)) /\ w[DATA] = Last(DATA)
    BY <1>1 DEF OwnerKnows
<1>3. Memory!Latest(PlaceOf(p)) < Last(DATA) /\ Memory!Latest(PlaceOf(p)) \in Int /\ Last(DATA) \in Int
    BY <1>1 DEF DataFirst, Shape
<1>4. QED
    BY <1>1, <1>2, <1>3 DEF Covers

\* After its fence the owner knows the head, or the thieves know its tail.
LEMMA TakeFenceInv ==
    ASSUME IInv, TakeFence
    PROVE  IInv'
<1>1. /\ pc[Owner] = "take_fence" /\ Memory!FenceSeqCst(Owner)
      /\ Goto(Owner, "take_head")
      /\ UNCHANGED <<head, tail, x, pushed, calls, taken>>
    BY DEF TakeFence
<1>2. /\ Shape /\ HeadCounts /\ ValuesFit /\ CallType /\ MemoryOK
      /\ WithinCapacity /\ OwnerCall /\ DataFirst /\ AllReleased /\ PayloadVisible
      /\ Owner \in Thread /\ Owner \notin Thief /\ Thread \ {Owner} = Thief
      /\ HEAD \in Location /\ TAIL \in Location /\ DATA \in Location /\ TAIL # HEAD
      /\ HeadPos \in Int /\ EndPos \in Int /\ First \in Int /\ First' = First
      /\ HeadPos = First + Last(HEAD) - 1
    BY OwnerFacts
<1>3. /\ Step(Owner, {}) /\ history' = history
      /\ \A l \in Location : current'[Owner][l] = order'[l] /\ released'[Owner][l] = order'[l]
    BY <1>1, <1>2, FenceStep
<1>4. /\ \A u \in Thief : SameLocals(u)
      /\ pc'[Owner] = "take_head" /\ tail'[Owner] = tail[Owner]
      /\ CallType'
    BY <1>1, <1>2 DEF CallType, Pushing, Taking, Looking, Goto, SameLocals
<1>5. OwnerLook
    BY <1>3, <1>4 DEF OwnerLook
<1>6. /\ Shape' /\ MemoryOK' /\ ValuesFit' /\ HeadCounts' /\ OwnerKnows' /\ HeadOrdered'
      /\ HeadPos' = HeadPos /\ OwnTail' = OwnTail
      /\ \A l : Last(l)' = Last(l) /\ Memory!Latest(l)' = Memory!Latest(l)
      /\ \A w, q : Covers(w, q)' <=> Covers(w, q)
      /\ \A u \in Thread, l \in Location : current[u][l] <= current'[u][l]
      /\ \A l \in Location : order[l] <= order'[l]
      /\ \A l \in Location \ {HEAD} : current'[Owner][l] = current[Owner][l]
      /\ EndPos <= EndPos' /\ ((Reserving' => Reserving) \/ \A u \in Thief : Noticed(u)') =>
               TailsTrue' /\ \A u \in Thief : ThiefCall(u)'
    BY <1>5, OwnerLooks
<1>7. EndPos' = EndPos
    BY <1>1, <1>4, <1>6 DEF EndPos, Reach
<1>8. ASSUME NEW u \in Thief PROVE Noticed(u)'
    <2>1. SUFFICES ASSUME Looking(u) PROVE Signed(head[u]) <= First + current'[Owner][HEAD] - 1
        BY <1>2, <1>4 DEF Noticed, Looking, SameLocals
    <2>2. Signed(head[u]) <= First + order[HEAD] - 1 /\ Signed(head[u]) \in Int
        BY <2>1, ThiefFacts DEF ThiefCall
    <2>3. /\ order[HEAD] \in Int /\ order'[HEAD] \in Int /\ order[HEAD] <= order'[HEAD]
          /\ current'[Owner][HEAD] = order'[HEAD]
        BY <1>2, <1>3, <1>6 DEF Shape
    <2>4. QED
        BY <1>2, <2>2, <2>3
<1>9. TailsTrue' /\ \A u \in Thief : ThiefCall(u)'
    BY <1>2, <1>6, <1>7, <1>8
<1>10. WithinCapacity'
    BY <1>1, <1>2, <1>6, <1>7 DEF WithinCapacity
<1>11. OwnerCall'
    <2>1. order'[TAIL] = Last(TAIL)'
        BY <1>2, <1>3, <1>6 DEF OwnerKnows
    <2>2. HeadPos < EndPos \/ EndPos <= First + current'[Owner][HEAD]
        <3>1. Last(HEAD) - 1 <= current'[Owner][HEAD]
            BY <1>2, <1>3, <1>6 DEF HeadOrdered
        <3>2. HeadPos <= EndPos /\ current'[Owner][HEAD] \in Int /\ Last(HEAD) \in Int
            BY <1>2, <1>6 DEF WithinCapacity, Shape
        <3>3. QED
            BY <1>2, <3>1, <3>2
    <2>3. tail[Owner] = OwnTail /\ Signed(tail[Owner]) = EndPos - 1
        BY <1>1, <1>2 DEF OwnerCall, Taking
    <2>4. QED
        BY <1>2, <1>4, <1>6, <1>7, <2>1, <2>2, <2>3 DEF OwnerCall, Pushing, Signed
<1>12. DataFirst'
    BY <1>1, <1>2, <1>4, <1>6 DEF DataFirst, PlaceOf
<1>13. AllReleased'
    <2>1. \A l \in Location \ {HEAD} : released'[Owner][l] = current[Owner][l]
        BY <1>3, <1>6
    <2>2. \A p \in Slot : Covers(released'[Owner], p)
        BY <1>2, <2>1, AllKnown, OwnerFacts
    <2>3. QED
        BY <1>6, <2>2 DEF AllReleased, Covers
<1>14. PayloadVisible'
    BY <1>1, <1>2, <1>6, OwnerGiven
<1>15. QED
    BY <1>4, <1>6, <1>9, <1>10, <1>11, <1>12, <1>13, <1>14 DEF IInv

\* The head that the owner loads may be one thief behind, not two.
LEMMA TakeLoadHeadInv ==
    ASSUME IInv, TakeLoadHead
    PROVE  IInv'
<1>1. PICK i, h :
        /\ i \in Memory!Readable(Owner, HEAD)
        /\ h = Memory!Value(HEAD, i)
        /\ pc[Owner] = "take_head"
        /\ Memory!LoadRelaxed(Owner, HEAD, i)
        /\ head' = Set(head, Owner, h)
        /\ \/ /\ Signed(h) <= Signed(tail[Owner])
              /\ Goto(Owner, "take_item")
              /\ UNCHANGED taken
           \/ /\ Signed(h) > Signed(tail[Owner])
              /\ Goto(Owner, "restore")
              /\ taken' = Set(taken, Owner, NoItem)
        /\ UNCHANGED <<tail, x, pushed, calls>>
    BY DEF TakeLoadHead
<1>2. /\ Shape /\ HeadCounts /\ ValuesFit /\ CallType /\ MemoryOK
      /\ WithinCapacity /\ OwnerCall /\ DataFirst /\ AllReleased /\ PayloadVisible
      /\ Owner \in Thread /\ Owner \notin Thief /\ Thread \ {Owner} = Thief
      /\ HEAD \in Location /\ TAIL \in Location /\ DATA \in Location /\ TAIL # HEAD
      /\ HeadPos \in Int /\ EndPos \in Int /\ First \in Int /\ First' = First
      /\ NoItem \in 0 .. MaxPushes
    BY OwnerFacts
<1>3. /\ Step(Owner, {}) /\ history' = history /\ order' = order /\ released' = released
      /\ current'[Owner][HEAD] = i
    BY <1>1, <1>2, RelaxedStep
<1>4. i \in 1 .. Last(HEAD)
    BY <1>1, <1>2 DEF Memory!Readable, Shape, Last
<1>5. h \in Index /\ Signed(h) = First + i - 1
    BY <1>1, <1>2, <1>4 DEF HeadCounts
<1>6. /\ \A u \in Thief : SameLocals(u)
      /\ head'[Owner] = h /\ tail'[Owner] = tail[Owner]
      /\ \/ pc'[Owner] = "take_item" /\ Signed(h) <= Signed(tail[Owner])
         \/ pc'[Owner] = "restore"
      /\ CallType'
    BY <1>1, <1>2, <1>5 DEF CallType, Pushing, Taking, Looking, Goto, Set, SameLocals
<1>7. OwnerLook
    BY <1>3, <1>6 DEF OwnerLook
<1>8. /\ Shape' /\ MemoryOK' /\ ValuesFit' /\ HeadCounts' /\ OwnerKnows' /\ HeadOrdered'
      /\ HeadPos' = HeadPos /\ OwnTail' = OwnTail
      /\ \A l : Last(l)' = Last(l) /\ Memory!Latest(l)' = Memory!Latest(l)
      /\ \A w, q : Covers(w, q)' <=> Covers(w, q)
      /\ \A u \in Thread, l \in Location : current[u][l] <= current'[u][l]
      /\ EndPos <= EndPos' /\ ((Reserving' => Reserving) \/ \A u \in Thief : Noticed(u)') =>
               TailsTrue' /\ \A u \in Thief : ThiefCall(u)'
    BY <1>7, OwnerLooks
<1>9. EndPos' = EndPos
    BY <1>1, <1>6, <1>8 DEF EndPos, Reach
<1>10. TailsTrue' /\ \A u \in Thief : ThiefCall(u)'
    BY <1>1, <1>2, <1>8, <1>9 DEF Reserving
<1>11. WithinCapacity'
    BY <1>1, <1>2, <1>8, <1>9 DEF WithinCapacity
<1>12. OwnerCall'
    <2>1. /\ order[TAIL] = Last(TAIL)
          /\ HeadPos < EndPos \/ EndPos <= First + current[Owner][HEAD]
          /\ tail[Owner] = OwnTail /\ Signed(tail[Owner]) = EndPos - 1
        BY <1>1, <1>2 DEF OwnerCall, Fenced, Reserving, Taking
    <2>2. HeadPos < EndPos \/ EndPos <= First + current'[Owner][HEAD]
        <3>1. /\ current[Owner][HEAD] \in Int /\ current'[Owner][HEAD] \in Int
              /\ current[Owner][HEAD] <= current'[Owner][HEAD]
            BY <1>2, <1>8 DEF Shape
        <3>2. QED
            BY <1>2, <2>1, <3>1
    <2>3. QED
        BY <1>2, <1>3, <1>5, <1>6, <1>8, <1>9, <2>1, <2>2
        DEF OwnerCall, Pushing, Reserving, Signed
<1>13. DataFirst' /\ AllReleased'
    <2>1. DataFirst'
        BY <1>1, <1>2, <1>6, <1>8 DEF DataFirst, PlaceOf
    <2>2. QED
        BY <1>1, <1>2, <1>3, <1>8, <2>1 DEF AllReleased, Covers
<1>14. PayloadVisible'
    <2>1. taken' = taken \/ taken' = Set(taken, Owner, NoItem)
        BY <1>1
    <2>2. NoItem \in Int
        BY DEF NoItem
    <2>3. QED
        BY <1>2, <1>8, <2>1, <2>2, OwnerGiven
<1>15. QED
    BY <1>6, <1>8, <1>10, <1>11, <1>12, <1>13, <1>14 DEF IInv

\* The owner finds the latest element at its tail, since it has stored them all.
LEMMA ItemFound ==
    ASSUME IInv, NEW l, l = SlotOf(tail[Owner]), NEW i \in Memory!Readable(Owner, l)
    PROVE  /\ l \in Location \ {HEAD, TAIL, DATA}
           /\ Memory!Value(l, i) = Memory!Latest(l)
           /\ Memory!Latest(l) \in 0 .. MaxPushes
           /\ Memory!Latest(l) < current[Owner][DATA]
           /\ l = SlotOf(Signed(tail[Owner])) /\ Signed(tail[Owner]) \in Int
<1>1. Shape /\ ValuesFit /\ CallType /\ OwnerKnows /\ DataFirst /\ Owner \in Thread /\ DATA # HEAD
      /\ DATA \in Location
    BY OwnerFacts, Places
<1>2. PICK q \in Int : q = Signed(tail[Owner]) /\ l = SlotOf(q)
    BY <1>1, EndPositions, Words
<1>3. PICK p \in Slot : l = PlaceOf(p) /\ l \in Location \ {HEAD, TAIL, DATA}
    BY <1>2, PlaceFacts
<1>4. current[Owner][l] = Last(l) /\ Last(l) \in Nat \ {0}
    BY <1>1, <1>3 DEF OwnerKnows, Shape
<1>5. i = Last(l) /\ i \in 1 .. Last(l)
    BY <1>4 DEF Memory!Readable, Last
<1>6. Memory!Value(l, i) = Memory!Latest(l) /\ Memory!Value(l, i) \in 0 .. MaxPushes
    BY <1>1, <1>2, <1>5, ElementType
<1>7. Memory!Latest(l) < current[Owner][DATA]
    BY <1>1, <1>3 DEF DataFirst, OwnerKnows
<1>8. QED
    BY <1>2, <1>3, <1>6, <1>7

\* The last element, for which the owner must race.
LEMMA TakeToRace ==
    ASSUME IInv, NEW l, l = SlotOf(tail[Owner]), NEW i \in Memory!Readable(Owner, l),
           pc[Owner] = "take_item", Memory!LoadRelaxed(Owner, l, i),
           head[Owner] = tail[Owner], x' = Set(x, Owner, Memory!Value(l, i)),
           Goto(Owner, "take_race"), UNCHANGED <<head, tail, taken>>,
           UNCHANGED <<pushed, calls>>
    PROVE  IInv' /\ EndPos' = EndPos /\ history' = history
<1>2. /\ Shape /\ HeadCounts /\ ValuesFit /\ CallType /\ MemoryOK
      /\ WithinCapacity /\ OwnerCall /\ DataFirst /\ AllReleased /\ PayloadVisible
      /\ Owner \in Thread /\ Owner \notin Thief /\ Thread \ {Owner} = Thief
      /\ HEAD \in Location /\ TAIL \in Location /\ DATA \in Location /\ TAIL # HEAD
      /\ HeadPos \in Int /\ EndPos \in Int /\ First \in Int /\ First' = First
    BY OwnerFacts
<1>1. l \in Location \ {HEAD, TAIL, DATA} /\ Memory!Value(l, i) = Memory!Latest(l)
      /\ Memory!Latest(l) \in 0 .. MaxPushes
    BY ItemFound
<1>3. /\ Step(Owner, {}) /\ history' = history /\ order' = order /\ released' = released
      /\ \A k \in Location \ {l} : current'[Owner][k] = current[Owner][k]
    BY <1>1, <1>2, RelaxedStep
<1>6. /\ \A u \in Thief : SameLocals(u)
      /\ pc'[Owner] = "take_race" /\ tail'[Owner] = tail[Owner] /\ head'[Owner] = head[Owner]
      /\ x'[Owner] = Memory!Latest(l)
      /\ CallType'
    BY <1>1, <1>2 DEF CallType, Pushing, Taking, Looking, Goto, Set, SameLocals
<1>7. OwnerLook
    BY <1>3, <1>6 DEF OwnerLook
<1>8. /\ Shape' /\ MemoryOK' /\ ValuesFit' /\ HeadCounts' /\ OwnerKnows' /\ HeadOrdered'
      /\ HeadPos' = HeadPos /\ OwnTail' = OwnTail
      /\ \A k : Last(k)' = Last(k) /\ Memory!Latest(k)' = Memory!Latest(k)
      /\ \A w, q : Covers(w, q)' <=> Covers(w, q)
      /\ \A u \in Thread, k \in Location : current[u][k] <= current'[u][k]
      /\ EndPos <= EndPos' /\ ((Reserving' => Reserving) \/ \A u \in Thief : Noticed(u)') =>
               TailsTrue' /\ \A u \in Thief : ThiefCall(u)'
    BY <1>7, OwnerLooks
<1>9. EndPos' = EndPos
    BY <1>6, <1>8 DEF EndPos, Reach
<1>10. TailsTrue' /\ \A u \in Thief : ThiefCall(u)'
    BY <1>2, <1>8, <1>9 DEF Reserving
<1>11. WithinCapacity'
    BY <1>2, <1>8, <1>9 DEF WithinCapacity
<1>12. OwnerCall'
    <2>1. /\ order[TAIL] = Last(TAIL)
          /\ tail[Owner] = OwnTail /\ Signed(tail[Owner]) = EndPos - 1
          /\ Signed(head[Owner]) = First + current[Owner][HEAD] - 1
        BY <1>2 DEF OwnerCall, Fenced, Reserving, Taking
    <2>2. current'[Owner][HEAD] = current[Owner][HEAD]
        BY <1>1, <1>2, <1>3
    <2>3. SlotOf(tail[Owner])' = l
        BY <1>6 DEF SlotOf
    <2>4. Memory!Latest(SlotOf(tail[Owner]))' = Memory!Latest(l)'
        BY <2>3 DEF Memory!Latest
    <2>5. Signed(head[Owner])' <= Signed(tail[Owner])'
        BY <1>2, <1>6, <2>1
    <2>6. QED
        BY <1>2, <1>3, <1>6, <1>8, <1>9, <2>1, <2>2, <2>4, <2>5
        DEF OwnerCall, Pushing, Reserving, Signed
<1>13. DataFirst' /\ AllReleased'
    <2>1. DataFirst'
        BY <1>2, <1>6, <1>8 DEF DataFirst, PlaceOf
    <2>2. QED
        BY <1>2, <1>3, <1>8, <2>1 DEF AllReleased, Covers
<1>14. PayloadVisible'
    BY <1>2, <1>8, OwnerGiven
<1>15. QED
    BY <1>3, <1>6, <1>8, <1>9, <1>10, <1>11, <1>12, <1>13, <1>14 DEF IInv

\* Not the last one, which is the owner's: no thief that may still win is there.
LEMMA TakeOne ==
    ASSUME IInv, NEW l, l = SlotOf(tail[Owner]), NEW i \in Memory!Readable(Owner, l),
           pc[Owner] = "take_item", Memory!LoadRelaxed(Owner, l, i),
           head[Owner] # tail[Owner], taken' = Set(taken, Owner, Memory!Value(l, i)),
           Done(Owner), UNCHANGED <<pushed, calls>>
    PROVE  /\ IInv' /\ EndPos' = EndPos - 1 /\ HeadPos < EndPos /\ history' = history
           /\ taken' = Set(taken, Owner, Memory!Latest(SlotOf(EndPos - 1)))
<1>2. /\ Shape /\ HeadCounts /\ ValuesFit /\ CallType /\ MemoryOK /\ TailsTrue
      /\ WithinCapacity /\ OwnerCall /\ DataFirst /\ AllReleased /\ PayloadVisible
      /\ Owner \in Thread /\ Owner \notin Thief /\ Thread \ {Owner} = Thief
      /\ HEAD \in Location /\ TAIL \in Location /\ DATA \in Location /\ TAIL # HEAD
      /\ HeadPos \in Int /\ EndPos \in Int /\ First \in Int /\ First' = First
      /\ 0 \in Index /\ NoItem \in 0 .. MaxPushes
    BY OwnerFacts
<1>1. /\ l \in Location \ {HEAD, TAIL, DATA} /\ Memory!Value(l, i) = Memory!Latest(l)
      /\ Memory!Latest(l) \in 0 .. MaxPushes /\ Memory!Latest(l) < current[Owner][DATA]
      /\ l = SlotOf(Signed(tail[Owner])) /\ Signed(tail[Owner]) \in Int
    BY ItemFound
<1>3. /\ Step(Owner, {}) /\ history' = history /\ order' = order /\ released' = released
      /\ \A k \in Location \ {l} : current'[Owner][k] = current[Owner][k]
    BY <1>1, <1>2, RelaxedStep
<1>4. /\ order[TAIL] = Last(TAIL)
      /\ tail[Owner] = OwnTail /\ Signed(tail[Owner]) = EndPos - 1
      /\ HeadPos < EndPos \/ EndPos <= First + current[Owner][HEAD]
      /\ Signed(head[Owner]) = First + current[Owner][HEAD] - 1
      /\ Signed(head[Owner]) <= Signed(tail[Owner])
    BY <1>2 DEF OwnerCall, Fenced, Reserving, Taking
<1>5. First + current[Owner][HEAD] - 1 < EndPos - 1 /\ current[Owner][HEAD] \in Int
    <2>1. head[Owner] \in Index /\ tail[Owner] \in Index /\ current[Owner][HEAD] \in Int
        BY <1>2 DEF CallType, Shape
    <2>2. Signed(head[Owner]) # Signed(tail[Owner])
        BY <2>1, Words
    <2>3. QED
        BY <1>2, <1>4, <2>1, <2>2
<1>6. HeadPos < EndPos
    BY <1>2, <1>4, <1>5
<1>7. /\ \A u \in Thief : SameLocals(u)
      /\ pc'[Owner] = "idle"
      /\ CallType'
    BY <1>1, <1>2 DEF CallType, Pushing, Taking, Looking, Goto, Set, Done, SameLocals
<1>8. OwnerLook
    BY <1>3, <1>7 DEF OwnerLook
<1>9. /\ Shape' /\ MemoryOK' /\ ValuesFit' /\ HeadCounts' /\ OwnerKnows' /\ HeadOrdered'
      /\ HeadPos' = HeadPos /\ OwnTail' = OwnTail
      /\ \A k : Last(k)' = Last(k) /\ Memory!Latest(k)' = Memory!Latest(k)
      /\ \A j : TailAt(j)' = TailAt(j) /\ TailView(j)' = TailView(j)
      /\ \A w, q : Covers(w, q)' <=> Covers(w, q)
      /\ \A u \in Thread, k \in Location : current[u][k] <= current'[u][k]
    BY <1>8, OwnerLooks
<1>10. EndPos' = EndPos - 1
    BY <1>4, <1>7, <1>9 DEF EndPos, Reach
<1>11. Last(TAIL) \in 1 .. Last(TAIL) /\ TailAt(Last(TAIL)) = EndPos - 1
    BY <1>2, <1>4, EndPositions DEF TailAt
<1>12. TailsTrue'
    <2>1. ASSUME NEW j \in order[TAIL] .. Last(TAIL)
          PROVE  /\ TailAt(j) <= EndPos - 1
                 /\ \A q \in HeadPos .. TailAt(j) - 1 : Covers(TailView(j), q)
        <3>1. j = Last(TAIL)
            BY <1>4, <1>11
        <3>2. QED
            BY <1>2, <1>11, <3>1 DEF TailsTrue
    <2>2. QED
        BY <1>3, <1>9, <1>10, <2>1 DEF TailsTrue
<1>13. ASSUME NEW u \in Thief PROVE ThiefCall(u)'
    <2>1. ThiefCall(u) /\ u \in Thread /\ u # Owner /\ Signed(head[u]) \in Int
        BY ThiefFacts
    <2>2. /\ pc'[u] = pc[u] /\ head'[u] = head[u] /\ x'[u] = x[u] /\ current'[u] = current[u]
        BY <1>3, <1>7, <2>1 DEF SameLocals, Step
    <2>3. PICK h \in Int : h = Signed(head[u])
        BY <2>1
    <2>4. Signed(head[u])' = h
        BY <2>2, <2>3
    <2>5. /\ pc[u] # "idle" => h \in First .. First + current[u][HEAD] - 1
          /\ Looking(u) => h <= First + order[HEAD] - 1
          /\ pc[u] \in {"steal_item", "steal_race"} => h < TailAt(current[u][TAIL])
        BY <2>1, <2>3 DEF ThiefCall
    <2>6. ~Noticed(u)' => FALSE
        BY <1>7 DEF Noticed, Reserving
    <2>7. Looking(u) => h < EndPos - 1 \/ current[u][TAIL] = Last(TAIL)
        <3>1. Looking(u) => h <= First + current[Owner][HEAD] - 1 \/ current[u][TAIL] = Last(TAIL)
            BY <2>1, <2>3 DEF ThiefCall, Noticed, Reserving
        <3>2. QED
            BY <1>2, <1>5, <2>3, <3>1
    <2>8. ASSUME pc[u] = "steal_tail", h = HeadPos, NEW j \in current[u][TAIL] .. Last(TAIL),
                 TailAt(j) > h
          PROVE  h < EndPos - 1 /\ Covers(TailView(j), h)
        <3>1. Covers(TailView(j), h)
            BY <2>1, <2>3, <2>8 DEF ThiefCall
        <3>2. CASE current[u][TAIL] = Last(TAIL)
            <4>1. j = Last(TAIL)
                BY <1>11, <2>8, <3>2
            <4>2. QED
                BY <1>11, <2>8, <3>1, <4>1
        <3>3. QED
            BY <2>7, <2>8, <3>1, <3>2 DEF Looking
    <2>9. pc[u] \in {"steal_item", "steal_race"} => h < EndPos - 1
        BY <1>11, <2>5, <2>7 DEF Looking
    <2>10. pc[u] = "steal_item" /\ h = HeadPos => Covers(current[u], h)
        BY <2>1, <2>3 DEF ThiefCall
    <2>11. pc[u] = "steal_race" /\ h = HeadPos =>
                x[u] = Memory!Latest(SlotOf(h)) /\ x[u] < current[u][DATA]
        BY <2>1, <2>3 DEF ThiefCall
    <2>12. TailAt(current[u][TAIL])' = TailAt(current[u][TAIL])
        BY <1>3, <2>2 DEF TailAt, Memory!Value
    <2>13. Covers(current[u], h)' <=> Covers(current[u], h)
        BY <1>9, <2>2 DEF Covers
    <2>14. (pc[u] = "steal_tail" /\ h = HeadPos =>
                \A j \in current[u][TAIL] .. Last(TAIL) :
                    TailAt(j) > h => h < EndPos /\ Covers(TailView(j), h))'
        BY <1>9, <1>10, <2>2, <2>8
    <2>15. QED
        BY <1>2, <1>3, <1>9, <1>10, <2>2, <2>4, <2>5, <2>6, <2>9, <2>10, <2>11, <2>12, <2>13, <2>14
        DEF ThiefCall, Looking
<1>14. WithinCapacity'
    BY <1>2, <1>6, <1>9, <1>10, DequeAssumption DEF WithinCapacity, CallType
<1>15. OwnerCall'
    BY <1>7 DEF OwnerCall, Pushing, Taking, Fenced, Reserving
<1>16. DataFirst' /\ AllReleased'
    <2>1. DataFirst'
        BY <1>2, <1>7, <1>9 DEF DataFirst, PlaceOf
    <2>2. QED
        BY <1>2, <1>3, <1>9, <2>1 DEF AllReleased, Covers
<1>17. PayloadVisible'
    <2>1. current'[Owner][DATA] = current[Owner][DATA]
        BY <1>1, <1>2, <1>3
    <2>2. QED
        BY <1>1, <1>2, <1>9, <2>1, OwnerGiven
<1>18. IInv'
    BY <1>7, <1>9, <1>12, <1>13, <1>14, <1>15, <1>16, <1>17 DEF IInv
<1>19. QED
    BY <1>1, <1>3, <1>4, <1>6, <1>10, <1>18

\* The owner's race is for the last element.
LEMMA OwnerRaces ==
    ASSUME IInv, pc[Owner] = "take_race"
    PROVE  /\ Signed(head[Owner]) = EndPos - 1
           /\ Signed(head[Owner]) = First + current[Owner][HEAD] - 1
           /\ x[Owner] = Memory!Latest(SlotOf(EndPos - 1))
           /\ x[Owner] < current[Owner][DATA] /\ x[Owner] \in 0 .. MaxPushes
           /\ order[TAIL] = Last(TAIL) /\ tail[Owner] = OwnTail
           /\ Signed(tail[Owner]) = EndPos - 1
<1>1. /\ Shape /\ CallType /\ OwnerCall /\ OwnerKnows /\ DataFirst /\ Owner \in Thread
      /\ DATA \in Location /\ HEAD # DATA /\ ValuesFit
    BY OwnerFacts
<1>2. /\ tail[Owner] = OwnTail /\ Signed(tail[Owner]) = EndPos - 1 /\ order[TAIL] = Last(TAIL)
      /\ head[Owner] = tail[Owner] /\ x[Owner] = Memory!Latest(SlotOf(tail[Owner]))
      /\ Signed(head[Owner]) = First + current[Owner][HEAD] - 1
    BY <1>1 DEF OwnerCall, Taking, Fenced
<1>3. PICK l : l = SlotOf(tail[Owner])
    OBVIOUS
<1>4. l = SlotOf(EndPos - 1)
    BY <1>1, <1>2, <1>3, EndPositions, Words
<1>5. PICK p \in Slot : l = PlaceOf(p) /\ l \in Location
    BY <1>1, <1>4, OwnerFacts, PlaceFacts
<1>6. Memory!Latest(l) < current[Owner][DATA]
    BY <1>1, <1>5 DEF DataFirst, OwnerKnows
<1>7. x[Owner] \in 0 .. MaxPushes
    BY <1>1 DEF CallType
<1>8. QED
    BY <1>2, <1>3, <1>4, <1>6, <1>7

\* Lost: the deque has become empty.
LEMMA TakeLost ==
    ASSUME IInv, pc[Owner] = "take_race", Memory!SwapFails(Owner, HEAD, head[Owner]),
           taken' = Set(taken, Owner, NoItem), Goto(Owner, "restore"),
           UNCHANGED <<head, tail, x, pushed, calls>>
    PROVE  IInv' /\ HeadPos = EndPos /\ EndPos' = EndPos /\ history' = history
<1>2. /\ Shape /\ HeadCounts /\ ValuesFit /\ CallType /\ MemoryOK
      /\ WithinCapacity /\ OwnerCall /\ DataFirst /\ AllReleased /\ PayloadVisible
      /\ Owner \in Thread /\ Owner \notin Thief /\ Thread \ {Owner} = Thief
      /\ HEAD \in Location /\ TAIL \in Location /\ DATA \in Location /\ TAIL # HEAD
      /\ HeadPos \in Int /\ EndPos \in Int /\ First \in Int /\ First' = First
      /\ HeadPos = First + Last(HEAD) - 1
      /\ NoItem \in 0 .. MaxPushes
    BY OwnerFacts
<1>1. /\ Signed(head[Owner]) = EndPos - 1
      /\ Signed(head[Owner]) = First + current[Owner][HEAD] - 1
      /\ order[TAIL] = Last(TAIL) /\ tail[Owner] = OwnTail
      /\ Signed(tail[Owner]) = EndPos - 1
    BY OwnerRaces
<1>3. /\ Step(Owner, {}) /\ history' = history /\ order' = order /\ released' = released
      /\ \E i \in Memory!Readable(Owner, HEAD) : Memory!Value(HEAD, i) # head[Owner]
    BY <1>2, SwapFailsStep
<1>4. HeadPos = EndPos
    <2>1. PICK i \in Memory!Readable(Owner, HEAD) : Memory!Value(HEAD, i) # head[Owner]
        BY <1>3
    <2>2. /\ i \in current[Owner][HEAD] .. Last(HEAD) /\ i \in 1 .. Last(HEAD)
          /\ current[Owner][HEAD] \in 1 .. Last(HEAD)
        BY <1>2 DEF Memory!Readable, Shape, Last
    <2>3. /\ Memory!Value(HEAD, i) \in Index /\ head[Owner] \in Index
          /\ Signed(Memory!Value(HEAD, i)) = First + i - 1
        BY <1>2, <2>2 DEF HeadCounts, CallType
    <2>4. Signed(Memory!Value(HEAD, i)) # Signed(head[Owner])
        BY <2>1, <2>3, Words
    <2>5. i # current[Owner][HEAD]
        BY <1>1, <2>3, <2>4
    <2>6. HeadPos <= EndPos
        BY <1>2 DEF WithinCapacity
    <2>7. Last(HEAD) \in Int
        BY <1>2 DEF Shape
    <2>8. current[Owner][HEAD] < i /\ i <= Last(HEAD) /\ i \in Int /\ current[Owner][HEAD] \in Int
        BY <2>2, <2>5, <2>7
    <2>9. EndPos = First + current[Owner][HEAD]
        BY <1>1, <1>2, <2>8
    <2>10. QED
        BY <1>2, <2>6, <2>7, <2>8, <2>9
<1>6. /\ \A u \in Thief : SameLocals(u)
      /\ pc'[Owner] = "restore" /\ tail'[Owner] = tail[Owner]
      /\ CallType'
    BY <1>2 DEF CallType, Pushing, Taking, Looking, Goto, Set, SameLocals
<1>7. OwnerLook
    BY <1>3, <1>6 DEF OwnerLook
<1>8. /\ Shape' /\ MemoryOK' /\ ValuesFit' /\ HeadCounts' /\ OwnerKnows' /\ HeadOrdered'
      /\ HeadPos' = HeadPos /\ OwnTail' = OwnTail
      /\ \A k : Last(k)' = Last(k) /\ Memory!Latest(k)' = Memory!Latest(k)
      /\ \A w, q : Covers(w, q)' <=> Covers(w, q)
      /\ \A u \in Thread, k \in Location : current[u][k] <= current'[u][k]
      /\ EndPos <= EndPos' /\ ((Reserving' => Reserving) \/ \A u \in Thief : Noticed(u)') =>
               TailsTrue' /\ \A u \in Thief : ThiefCall(u)'
    BY <1>7, OwnerLooks
<1>9. EndPos' = EndPos
    BY <1>6, <1>8 DEF EndPos, Reach
<1>10. TailsTrue' /\ \A u \in Thief : ThiefCall(u)'
    BY <1>2, <1>6, <1>8, <1>9 DEF Reserving
<1>11. WithinCapacity'
    BY <1>2, <1>8, <1>9 DEF WithinCapacity
<1>12. OwnerCall'
    BY <1>1, <1>2, <1>3, <1>6, <1>8, <1>9 DEF OwnerCall, Pushing, Reserving, Signed
<1>13. DataFirst' /\ AllReleased'
    <2>1. DataFirst'
        BY <1>2, <1>6, <1>8 DEF DataFirst, PlaceOf
    <2>2. QED
        BY <1>2, <1>3, <1>8, <2>1 DEF AllReleased, Covers
<1>14. PayloadVisible'
    <2>1. NoItem \in Int
        BY DEF NoItem
    <2>2. QED
        BY <1>2, <1>8, <2>1, OwnerGiven
<1>15. IInv'
    BY <1>6, <1>8, <1>10, <1>11, <1>12, <1>13, <1>14 DEF IInv
<1>16. QED
    BY <1>3, <1>4, <1>9, <1>15

\* Won: the owner was given the only element.
LEMMA TakeWon ==
    ASSUME IInv, CountersFit, pc[Owner] = "take_race",
           Memory!SwapSucceeds(Owner, HEAD, head[Owner], Plus(head[Owner], 1)),
           taken' = Set(taken, Owner, x[Owner]), Goto(Owner, "restore"),
           UNCHANGED <<head, tail, x, pushed, calls>>
    PROVE  IInv' /\ Wins(Owner) /\ HeadPos = EndPos - 1
<1>1. /\ Shape /\ CallType /\ MemoryOK /\ OwnerCall /\ HeadCounts
      /\ ValuesFit /\ PayloadVisible /\ WithinCapacity
      /\ Owner \in Thread /\ Owner \notin Thief /\ Thread \ {Owner} = Thief
      /\ HEAD \in Location /\ TAIL \in Location /\ DATA \in Location
      /\ HEAD # TAIL /\ HEAD # DATA /\ EndPos \in Int
    BY OwnerFacts
<1>2. /\ Signed(head[Owner]) = EndPos - 1
      /\ x[Owner] < current[Owner][DATA] /\ x[Owner] \in 0 .. MaxPushes
      /\ order[TAIL] = Last(TAIL) /\ tail[Owner] = OwnTail
      /\ Signed(tail[Owner]) = EndPos - 1
    BY OwnerRaces
<1>3. HeadPos = EndPos - 1 /\ HeadPos < EndPos
    BY <1>1, <1>2 DEF Memory!SwapSucceeds, HeadPos
<1>5. /\ pc'[Owner] = "restore" /\ tail'[Owner] = tail[Owner]
      /\ \A u \in Thief : SameLocals(u)
      /\ taken'[Owner] = x[Owner] /\ pushed' = pushed
      /\ CallType'
    BY <1>1 DEF CallType, Pushing, Taking, Looking, Goto, Set, SameLocals
<1>7. EndPos' = EndPos
    BY <1>5 DEF EndPos, Reach
<1>8. Wins(Owner)
    BY <1>1, <1>3, <1>5, <1>7 DEF Wins, Reserving
<1>9. /\ Shape' /\ Step(Owner, {HEAD}) /\ order' = order
      /\ MemoryOK' /\ HeadCounts' /\ HeadPos' = HeadPos + 1
      /\ Last(HEAD)' = Last(HEAD) + 1 /\ current'[Owner][HEAD] = Last(HEAD)'
      /\ \A l \in Location \ {HEAD} :
                Last(l)' = Last(l) /\ Memory!Latest(l)' = Memory!Latest(l)
    BY <1>1, <1>8, HeadGrows
<1>10. /\ ValuesFit' /\ WithinCapacity' /\ OwnerKnows' /\ DataFirst' /\ AllReleased'
       /\ TailsTrue'
       /\ \A u \in Thief : ThiefCall(u)'
    BY <1>1, <1>8, RaceKept
<1>11. HeadOrdered'
    <2>1. Last(HEAD)' \in Int
        BY <1>1, <1>9 DEF Shape
    <2>2. QED
        BY <1>9, <2>1 DEF HeadOrdered
<1>12. OwnerCall'
    <2>1. OwnTail' = OwnTail /\ Last(TAIL)' = Last(TAIL)
        BY <1>1, <1>9 DEF OwnTail
    <2>2. QED
        BY <1>1, <1>2, <1>5, <1>7, <1>9, <2>1 DEF OwnerCall, Pushing, Reserving, Signed
<1>13. PayloadVisible'
    <2>1. \A u \in Thread, k \in Location : current[u][k] <= current'[u][k]
        BY <1>1, <1>9, StepViews
    <2>2. x[Owner] < current'[Owner][DATA] /\ x[Owner] \in Int
        <3>1. /\ current[Owner][DATA] <= current'[Owner][DATA]
              /\ current[Owner][DATA] \in Int /\ current'[Owner][DATA] \in Int
            BY <1>1, <1>9, <2>1 DEF Shape
        <3>2. QED
            BY <1>2, <3>1
    <2>3. QED
        BY <1>1, <1>9, <2>1, <2>2, OwnerGiven
<1>14. IInv'
    BY <1>5, <1>9, <1>10, <1>11, <1>12, <1>13 DEF IInv
<1>15. QED
    BY <1>3, <1>8, <1>14

\* With or without a race ahead, the load of the element keeps the invariant,
LEMMA TakeLoadItemInv ==
    ASSUME IInv, TakeLoadItem
    PROVE  IInv'
    BY TakeToRace, TakeOne DEF TakeLoadItem

\* and the race does.
LEMMA TakeRaceInv ==
    ASSUME IInv, CountersFit, TakeRace
    PROVE  IInv'
    BY TakeWon, TakeLost DEF TakeRace

-----------------------------------------------------------------------------
(* What the owner stores                                                   *)

OwnerStore(l, v) ==
    /\ StoreStep(Owner, l, v)
    /\ \A k \in Location \ {l} : current'[Owner][k] = current[Owner][k]
    /\ \A u \in Thief : SameLocals(u)
    /\ CallType' /\ taken' = taken
    /\ l = TAIL => v \in Index
    /\ \A p \in Slot : l = PlaceOf(p) => v \in 0 .. MaxPushes
    /\ ~Reserving'

\* A store of the owner to one of its locations, short of what it means.
LEMMA OwnerStores ==
    ASSUME IInv, NEW l \in Location \ {HEAD}, NEW v, OwnerStore(l, v)
    PROVE  /\ Shape' /\ MemoryOK' /\ ValuesFit' /\ HeadCounts' /\ OwnerKnows' /\ HeadOrdered'
           /\ HeadPos' = HeadPos /\ EndPos' \in Int /\ PayloadVisible'
           /\ Last(l)' = Last(l) + 1 /\ Memory!Latest(l)' = v
           /\ \A k \in Location \ {l} :
                    Last(k)' = Last(k) /\ Memory!Latest(k)' = Memory!Latest(k)
           /\ \A j \in 1 .. Last(TAIL) : TailAt(j)' = TailAt(j) /\ TailView(j)' = TailView(j)
           /\ \A w : \A q \in Int : SlotOf(q) # l => (Covers(w, q)' <=> Covers(w, q))
           /\ order' = order
           /\ /\ EndPos <= EndPos' /\ \A q \in HeadPos .. EndPos - 1 : SlotOf(q) # l
              /\ l = TAIL => Truthful(Last(TAIL))'
              => TailsTrue' /\ \A u \in Thief : ThiefCall(u)'
<1>1. /\ Shape /\ HeadCounts /\ ValuesFit /\ CallType /\ OwnerKnows /\ HeadOrdered /\ PayloadVisible
      /\ HEAD \in Location /\ TAIL \in Location /\ DATA \in Location /\ HEAD # TAIL
      /\ Owner \in Thread /\ Owner \notin Thief /\ EndPos \in Int /\ First' = First
    BY OwnerFacts
<1>2. /\ StoreStep(Owner, l, v) /\ Step(Owner, {l}) /\ order' = order
      /\ Memory!Latest(l)' = v /\ current'[Owner][l] = Last(l)'
    BY DEF OwnerStore, StoreStep
<1>3. Shape' /\ MemoryOK' /\ CallType' /\ Grown({l})
    BY <1>2, NextShape DEF Step, OwnerStore
<1>4. /\ \A k \in Location : \A i \in 1 .. Last(k) : Memory!Value(k, i)' = Memory!Value(k, i)
      /\ Last(l)' = Last(l) + 1
      /\ \A k \in Location \ {l} :
               Last(k)' = Last(k) /\ Memory!Latest(k)' = Memory!Latest(k)
      /\ \A j \in 1 .. Last(TAIL) : TailAt(j)' = TailAt(j) /\ TailView(j)' = TailView(j)
      /\ \A w : \A q \in Int : SlotOf(q) # l => (Covers(w, q)' <=> Covers(w, q))
    BY <1>1, <1>3, Kept
<1>5. ValuesFit'
    <2>1. ASSUME NEW k \in Location, NEW i \in 1 .. Last(k)'
          PROVE  \/ i \in 1 .. Last(k) /\ Memory!Value(k, i)' = Memory!Value(k, i)
                 \/ k = l /\ Memory!Value(k, i)' = v
        <3>1. Last(k) \in Nat
            BY <1>1 DEF Shape
        <3>2. CASE i \in 1 .. Last(k)
            BY <1>4, <3>2
        <3>3. CASE i \notin 1 .. Last(k)
            <4>1. k = l /\ i = Last(l)'
                BY <1>4, <2>1, <3>1, <3>3
            <4>2. Memory!Value(l, i)' = Memory!Latest(l)'
                BY <1>3, <4>1 DEF Shape
            <4>3. QED
                BY <1>2, <4>1, <4>2
        <3>4. QED
            BY <3>2, <3>3
    <2>2. \A j \in 1 .. Last(TAIL)' : Memory!Value(TAIL, j)' \in Index
        BY <1>1, <2>1 DEF ValuesFit, OwnerStore
    <2>3. ASSUME NEW p \in Slot, NEW i \in 1 .. Last(PlaceOf(p))'
          PROVE  Memory!Value(PlaceOf(p), i)' \in 0 .. MaxPushes
        <3>1. PlaceOf(p) \in Location
            BY Places
        <3>2. QED
            BY <1>1, <2>1, <3>1 DEF ValuesFit, OwnerStore
    <2>4. QED
        BY <2>2, <2>3 DEF ValuesFit, PlaceOf
<1>6. HeadCounts' /\ HeadPos' = HeadPos
    <2>1. 1 .. Last(HEAD)' = 1 .. Last(HEAD) /\ HeadPos' = HeadPos
        BY <1>1, <1>4 DEF HeadPos
    <2>2. QED
        BY <1>1, <1>4, <2>1 DEF HeadCounts
<1>7. EndPos' \in Int
    BY <1>3, <1>5, NextEnd DEF EndTyped
<1>8. OwnerKnows'
    BY <1>1, <1>2, <1>4 DEF OwnerKnows, OwnerStore
<1>9. HeadOrdered'
    BY <1>1, <1>2, <1>4 DEF HeadOrdered, OwnerStore
<1>10. \A u \in Thread, k \in Location : current[u][k] <= current'[u][k]
    BY <1>1, <1>2, <1>3, StepViews
<1>11. PayloadVisible'
    BY <1>1, <1>3, <1>10, OwnerGiven DEF OwnerStore
<1>12. ASSUME EndPos <= EndPos', \A q \in HeadPos .. EndPos - 1 : SlotOf(q) # l,
              l = TAIL => Truthful(Last(TAIL))'
       PROVE  TailsTrue' /\ \A u \in Thief : ThiefCall(u)'
    <2>1. NotTaking({l})
        BY <1>1, <1>2, <1>3, <1>10, <1>12 DEF NotTaking, Step
    <2>2. QED
        BY <1>2, <1>7, <2>1, OwnerMoves DEF OwnerStore
<1>13. QED
    BY <1>2, <1>3, <1>4, <1>5, <1>6, <1>7, <1>8, <1>9, <1>11, <1>12

\* A tail stored with what w covers shows every element.
LEMMA NewTail ==
    ASSUME IInv, NEW v \in Index, OwnerStore(TAIL, v), Signed(v) <= EndPos',
           NEW w, \A k \in Location : w[k] \in Nat,
           \A p \in Slot : Covers(w, p),
           \A k \in Location : w[k] <= history'[TAIL][Len(history'[TAIL])].view[k]
    PROVE  Truthful(Last(TAIL))' /\ TailAt(Last(TAIL))' = Signed(v)
<1>1. /\ TAIL \in Location \ {HEAD} /\ DATA \in Location /\ Shape /\ HeadPos \in Int
    BY OwnerFacts
<1>2. /\ Shape' /\ HeadPos' = HeadPos /\ Memory!Latest(TAIL)' = v
      /\ \A k \in Location \ {TAIL} :
               Last(k)' = Last(k) /\ Memory!Latest(k)' = Memory!Latest(k)
    BY <1>1, OwnerStores
<1>3. TailAt(Last(TAIL))' = Signed(v) /\ Signed(v) \in Int
    <2>1. Memory!Value(TAIL, Last(TAIL))' = v
        BY <1>1, <1>2 DEF Shape
    <2>2. QED
        BY <2>1, Words DEF TailAt
<1>4. PICK z : z = TailView(Last(TAIL))'
    OBVIOUS
<1>5. /\ \A k \in Location : z[k] \in 1 .. Last(k)'
      /\ \A k \in Location : w[k] <= z[k]
    <2>1. Last(TAIL)' \in 1 .. Last(TAIL)'
        BY <1>1, <1>2 DEF Shape
    <2>2. \A k \in Location : z[k] \in 1 .. Last(k)'
        BY <1>2, <1>4, <2>1 DEF Shape
    <2>3. z = history'[TAIL][Len(history'[TAIL])].view
        BY <1>4 DEF TailView, Last
    <2>4. QED
        BY <2>2, <2>3
<1>6. ASSUME NEW q \in Int PROVE Covers(z, q)'
    <2>1. PICK p \in Slot : SlotOf(q) = PlaceOf(p) /\ SlotOf(p) = PlaceOf(p)
        BY PlaceFacts
    <2>2. PICK l \in Location \ {TAIL} : l = SlotOf(q)
        BY PlaceFacts
    <2>3. w[l] = Last(l) /\ w[DATA] > Memory!Latest(l)
        BY <2>1, <2>2 DEF Covers
    <2>4. /\ z[l] \in 1 .. Last(l) /\ w[l] <= z[l] /\ w[DATA] <= z[DATA]
          /\ z[DATA] \in Int /\ w[DATA] \in Int /\ Last(l) \in Int /\ Memory!Latest(l) \in Int
        BY <1>1, <1>2, <1>5, <2>2 DEF Shape
    <2>5. z[l] = Last(l)' /\ z[DATA] > Memory!Latest(l)'
        BY <1>2, <2>2, <2>3, <2>4
    <2>6. QED
        BY <2>2, <2>5 DEF Covers, SlotOf
<1>7. (\A q \in HeadPos .. TailAt(Last(TAIL)) - 1 : Covers(TailView(Last(TAIL)), q))'
    <2>1. ASSUME NEW q \in HeadPos' .. TailAt(Last(TAIL))' - 1
          PROVE  Covers(TailView(Last(TAIL)), q)'
        <3>1. q \in Int
            BY <1>1, <1>2, <1>3
        <3>2. QED
            BY <1>4, <1>6, <3>1 DEF Covers
    <2>2. QED
        BY <2>1
<1>8. QED
    BY <1>3, <1>7 DEF Truthful

\* What the item stands for is written before anyone can find the item.
LEMMA WriteDataInv ==
    ASSUME IInv, WriteData
    PROVE  /\ IInv' /\ HeadPos' = HeadPos /\ EndPos' = EndPos
           /\ \A q \in HeadPos .. EndPos - 1 : Memory!Latest(SlotOf(q))' = Memory!Latest(SlotOf(q))
<1>1. /\ pc[Owner] = "push_data" /\ Memory!Access(Owner, DATA, x[Owner])
      /\ Goto(Owner, "push_item")
      /\ UNCHANGED <<head, tail, x, pushed, calls, taken>>
    BY DEF WriteData
<1>2. /\ Shape /\ ValuesFit /\ CallType /\ MemoryOK
      /\ WithinCapacity /\ OwnerCall /\ DataFirst /\ AllReleased
      /\ Owner \in Thread /\ Owner \notin Thief /\ Thread \ {Owner} = Thief
      /\ TAIL \in Location /\ DATA \in Location /\ TAIL # DATA /\ DATA # HEAD
      /\ HeadPos \in Int /\ EndPos \in Int /\ First \in Int /\ First' = First
    BY OwnerFacts
<1>3. x[Owner] \in Nat
    BY <1>2 DEF CallType
<1>4. /\ StoreStep(Owner, DATA, x[Owner]) /\ released' = released
      /\ \A k \in Location \ {DATA} : current'[Owner][k] = current[Owner][k]
    BY <1>1, <1>2, <1>3, PlainStep
<1>5. /\ \A u \in Thief : SameLocals(u)
      /\ pc'[Owner] = "push_item" /\ tail'[Owner] = tail[Owner] /\ x'[Owner] = x[Owner]
      /\ CallType'
    BY <1>1, <1>2 DEF CallType, Pushing, Taking, Looking, Goto, SameLocals
<1>6. OwnerStore(DATA, x[Owner])
    BY <1>1, <1>2, <1>4, <1>5, Places DEF OwnerStore, Reserving
<1>7. /\ Shape' /\ MemoryOK' /\ ValuesFit' /\ HeadCounts' /\ OwnerKnows' /\ HeadOrdered'
      /\ HeadPos' = HeadPos /\ PayloadVisible'
      /\ Last(DATA)' = Last(DATA) + 1
      /\ \A k \in Location \ {DATA} :
               Last(k)' = Last(k) /\ Memory!Latest(k)' = Memory!Latest(k)
      /\ \A w : \A q \in Int : SlotOf(q) # DATA => (Covers(w, q)' <=> Covers(w, q))
      /\ /\ EndPos <= EndPos' /\ \A q \in HeadPos .. EndPos - 1 : SlotOf(q) # DATA
         /\ DATA = TAIL => Truthful(Last(TAIL))'
         => TailsTrue' /\ \A u \in Thief : ThiefCall(u)'
    BY <1>2, <1>6, OwnerStores
<1>8. OwnTail' = OwnTail /\ EndPos' = EndPos
    BY <1>1, <1>2, <1>5, <1>7 DEF EndPos, Reach, OwnTail
<1>9. TailsTrue' /\ \A u \in Thief : ThiefCall(u)'
    <2>1. \A q \in HeadPos .. EndPos - 1 : SlotOf(q) # DATA
        BY <1>2, PlaceFacts
    <2>2. QED
        BY <1>2, <1>7, <1>8, <2>1
<1>10. WithinCapacity'
    BY <1>1, <1>2, <1>7, <1>8 DEF WithinCapacity
<1>11. OwnerCall'
    BY <1>1, <1>2, <1>5, <1>7, <1>8 DEF OwnerCall, Pushing, Taking, Fenced, Reserving
<1>12. DataFirst'
    <2>1. /\ Last(DATA) = pushed /\ pushed \in Int
          /\ \A p \in Slot : Memory!Latest(PlaceOf(p)) < Last(DATA)
        BY <1>1, <1>2 DEF DataFirst, CallType
    <2>2. ASSUME NEW p \in Slot PROVE Memory!Latest(PlaceOf(p))' < Last(DATA)'
        <3>1. PlaceOf(p) \in Location \ {DATA} /\ Memory!Latest(PlaceOf(p)) \in Int
            BY <1>2, Places DEF Shape
        <3>2. QED
            BY <1>7, <2>1, <3>1
    <2>3. QED
        BY <1>1, <1>5, <1>7, <2>1, <2>2 DEF DataFirst, PlaceOf
<1>13. AllReleased'
    <2>1. \A p \in Slot : SlotOf(p) # DATA /\ p \in Int
        BY PlaceFacts
    <2>2. \A p \in Slot : Covers(released[Owner], p)
        BY <1>1, <1>2 DEF AllReleased
    <2>3. QED
        BY <1>4, <1>7, <2>1, <2>2 DEF AllReleased, Covers
<1>14. IInv'
    BY <1>5, <1>7, <1>9, <1>10, <1>11, <1>12, <1>13 DEF IInv
<1>15. ASSUME NEW q \in HeadPos .. EndPos - 1
       PROVE  Memory!Latest(SlotOf(q))' = Memory!Latest(SlotOf(q))
    <2>1. SlotOf(q) \in Location \ {DATA}
        BY <1>2, PlaceFacts
    <2>2. QED
        BY <1>7, <2>1
<1>16. QED
    BY <1>7, <1>8, <1>14, <1>15

\* The item is stored where there is no element.
LEMMA PushStoreItemInv ==
    ASSUME IInv, PushStoreItem
    PROVE  /\ IInv' /\ HeadPos' = HeadPos /\ EndPos' = EndPos
           /\ \A q \in HeadPos .. EndPos - 1 : Memory!Latest(SlotOf(q))' = Memory!Latest(SlotOf(q))
<1>2. /\ Shape /\ ValuesFit /\ CallType /\ MemoryOK
      /\ WithinCapacity /\ OwnerCall /\ DataFirst
      /\ Owner \in Thread /\ Owner \notin Thief /\ Thread \ {Owner} = Thief
      /\ TAIL \in Location /\ DATA \in Location /\ TAIL # DATA /\ DATA # HEAD
      /\ HeadPos \in Int /\ EndPos \in Int /\ First \in Int /\ First' = First
    BY OwnerFacts
<1>3. PICK l : l = SlotOf(tail[Owner])
    OBVIOUS
<1>1. /\ pc[Owner] = "push_item" /\ Memory!StoreRelaxed(Owner, l, x[Owner])
      /\ Goto(Owner, "push_tail")
      /\ UNCHANGED <<head, tail, x, pushed, calls, taken>>
    BY <1>3 DEF PushStoreItem
<1>4. /\ tail[Owner] = OwnTail /\ EndPos = Signed(tail[Owner]) /\ x[Owner] = pushed
      /\ EndPos < HeadPos + Capacity /\ EndPos < First + pushed /\ pushed >= 1
      /\ x[Owner] \in 0 .. MaxPushes /\ x[Owner] \in Nat
    BY <1>1, <1>2, EndPositions DEF OwnerCall, Pushing, Taking, CallType
<1>5. l = SlotOf(EndPos) /\ l \in Location \ {HEAD, TAIL, DATA}
    BY <1>2, <1>3, <1>4, EndPositions, Words, PlaceFacts
<1>6. /\ StoreStep(Owner, l, x[Owner]) /\ released' = released
      /\ \A k \in Location \ {l} : current'[Owner][k] = current[Owner][k]
    BY <1>1, <1>2, <1>4, <1>5, StoreRelaxedStep
<1>7. /\ \A u \in Thief : SameLocals(u)
      /\ pc'[Owner] = "push_tail" /\ tail'[Owner] = tail[Owner] /\ x'[Owner] = x[Owner]
      /\ CallType'
    BY <1>1, <1>2 DEF CallType, Pushing, Taking, Looking, Goto, SameLocals
<1>8. OwnerStore(l, x[Owner])
    BY <1>1, <1>2, <1>4, <1>5, <1>6, <1>7 DEF OwnerStore, Reserving
<1>9. /\ Shape' /\ MemoryOK' /\ ValuesFit' /\ HeadCounts' /\ OwnerKnows' /\ HeadOrdered'
      /\ HeadPos' = HeadPos /\ PayloadVisible'
      /\ Memory!Latest(l)' = x[Owner]
      /\ \A k \in Location \ {l} :
               Last(k)' = Last(k) /\ Memory!Latest(k)' = Memory!Latest(k)
      /\ /\ EndPos <= EndPos' /\ \A q \in HeadPos .. EndPos - 1 : SlotOf(q) # l
         /\ l = TAIL => Truthful(Last(TAIL))'
         => TailsTrue' /\ \A u \in Thief : ThiefCall(u)'
    BY <1>5, <1>8, OwnerStores
<1>10. OwnTail' = OwnTail /\ EndPos' = EndPos
    BY <1>1, <1>2, <1>5, <1>7, <1>9 DEF EndPos, Reach, OwnTail
\* The place of the next element is that of none in the deque.
<1>11. ASSUME NEW q \in HeadPos .. EndPos - 1 PROVE SlotOf(q) # l
    <2>1. q \in Int /\ q < EndPos /\ EndPos < q + Capacity /\ Capacity \in Int
        BY <1>2, <1>4, DequeAssumption
    <2>2. QED
        BY <1>2, <1>5, <2>1, PlaceFacts
<1>12. TailsTrue' /\ \A u \in Thief : ThiefCall(u)'
    BY <1>2, <1>5, <1>9, <1>10, <1>11
<1>13. WithinCapacity'
    BY <1>1, <1>2, <1>9, <1>10 DEF WithinCapacity
<1>14. OwnerCall'
    <2>1. SlotOf(tail[Owner])' = l
        BY <1>3, <1>7 DEF SlotOf
    <2>2. Memory!Latest(SlotOf(tail[Owner]))' = x'[Owner]
        BY <1>7, <1>9, <2>1 DEF Memory!Latest
    <2>3. QED
        BY <1>1, <1>2, <1>4, <1>7, <1>9, <1>10, <2>2 DEF OwnerCall, Pushing, Taking, Fenced, Reserving
<1>15. DataFirst'
    <2>1. /\ Last(DATA) = pushed + 1 /\ Last(DATA)' = Last(DATA) /\ pushed \in Int
          /\ \A p \in Slot : Memory!Latest(PlaceOf(p)) < Last(DATA)
        BY <1>1, <1>2, <1>5, <1>9 DEF DataFirst, CallType
    <2>2. ASSUME NEW p \in Slot PROVE Memory!Latest(PlaceOf(p))' < Last(DATA)'
        <3>1. PlaceOf(p) \in Location
            BY Places
        <3>2. CASE PlaceOf(p) = l
            BY <1>4, <1>9, <2>1, <3>2
        <3>3. CASE PlaceOf(p) # l
            BY <1>9, <2>1, <3>1, <3>3
        <3>4. QED
            BY <3>2, <3>3
    <2>3. QED
        BY <1>1, <1>7, <2>1, <2>2 DEF DataFirst, PlaceOf
<1>16. AllReleased'
    BY <1>7 DEF AllReleased
<1>17. IInv'
    BY <1>7, <1>9, <1>12, <1>13, <1>14, <1>15, <1>16 DEF IInv
<1>18. ASSUME NEW q \in HeadPos .. EndPos - 1
       PROVE  Memory!Latest(SlotOf(q))' = Memory!Latest(SlotOf(q))
    <2>1. SlotOf(q) \in Location \ {l}
        BY <1>2, <1>11, PlaceFacts
    <2>2. QED
        BY <1>9, <2>1
<1>19. QED
    BY <1>9, <1>10, <1>17, <1>18

\* The tail's store adds the element, and hands it on.
LEMMA PushStoreTailInv ==
    ASSUME IInv, CountersFit, PushStoreTail
    PROVE  /\ IInv' /\ HeadPos' = HeadPos /\ EndPos' = EndPos + 1
           /\ \A k \in Location \ {TAIL} : Memory!Latest(k)' = Memory!Latest(k)
<1>1. /\ pc[Owner] = "push_tail"
      /\ Memory!FenceReleaseStore(Owner, TAIL, Plus(tail[Owner], 1))
      /\ Done(Owner)
      /\ UNCHANGED <<pushed, calls, taken>>
    BY DEF PushStoreTail
<1>2. /\ Shape /\ ValuesFit /\ CallType /\ MemoryOK
      /\ WithinCapacity /\ OwnerCall /\ OwnerKnows /\ DataFirst
      /\ Owner \in Thread /\ Owner \notin Thief /\ Thread \ {Owner} = Thief
      /\ TAIL \in Location \ {HEAD} /\ DATA \in Location /\ TAIL # DATA /\ DATA # HEAD
      /\ HeadPos \in Int /\ EndPos \in Int /\ First \in Int /\ First' = First
      /\ 0 \in Index /\ NoItem \in 0 .. MaxPushes
    BY OwnerFacts
<1>3. /\ EndPos = Signed(tail[Owner]) /\ tail[Owner] \in Index
      /\ EndPos < HeadPos + Capacity /\ EndPos < First + pushed
      /\ pushed \in 0 .. MaxPushes
    BY <1>1, <1>2, EndPositions DEF OwnerCall, Pushing, Taking, CallType
<1>4. PICK v \in Index : v = Plus(tail[Owner], 1) /\ Signed(v) = EndPos + 1
    <2>1. EndPos + 1 < Modulus \div 2
        <3>1. First + MaxPushes < Modulus \div 2 /\ MaxPushes \in Int /\ Modulus \div 2 \in Int
            BY DequeAssumption DEF CountersFit
        <3>2. QED
            BY <1>2, <1>3, <3>1
    <2>2. 0 - Modulus \div 2 <= EndPos + 1 /\ 1 <= Modulus /\ 0 - Modulus <= 1
        BY <1>2, <1>3, Words, DequeAssumption
    <2>3. QED
        BY <1>3, <2>1, <2>2, Counting
<1>5. /\ StoreStep(Owner, TAIL, v) /\ released'[Owner] = current[Owner]
      /\ \A k \in Location \ {TAIL} : current'[Owner][k] = current[Owner][k]
      /\ \A k \in Location : current[Owner][k] <= history'[TAIL][Len(history'[TAIL])].view[k]
    <2>1. v \in Nat
        BY <1>4, Words
    <2>2. QED
        BY <1>1, <1>2, <1>4, <2>1, StoreReleaseStep
<1>6. /\ \A u \in Thief : SameLocals(u)
      /\ pc'[Owner] = "idle"
      /\ CallType'
    BY <1>1, <1>2 DEF CallType, Pushing, Taking, Looking, Goto, Set, Done, SameLocals
<1>7. OwnerStore(TAIL, v)
    BY <1>1, <1>2, <1>4, <1>5, <1>6, Places DEF OwnerStore, Reserving
<1>8. /\ Shape' /\ MemoryOK' /\ ValuesFit' /\ HeadCounts' /\ OwnerKnows' /\ HeadOrdered'
      /\ HeadPos' = HeadPos /\ PayloadVisible' /\ Memory!Latest(TAIL)' = v
      /\ \A k \in Location \ {TAIL} :
               Last(k)' = Last(k) /\ Memory!Latest(k)' = Memory!Latest(k)
      /\ \A w : \A q \in Int : SlotOf(q) # TAIL => (Covers(w, q)' <=> Covers(w, q))
      /\ /\ EndPos <= EndPos' /\ \A q \in HeadPos .. EndPos - 1 : SlotOf(q) # TAIL
         /\ TAIL = TAIL => Truthful(Last(TAIL))'
         => TailsTrue' /\ \A u \in Thief : ThiefCall(u)'
    BY <1>2, <1>7, OwnerStores
<1>9. EndPos' = EndPos + 1
    BY <1>4, <1>6, <1>8 DEF EndPos, Reach, OwnTail
<1>10. \A p \in Slot : Covers(current[Owner], p)
    BY <1>2, AllKnown
<1>11. Truthful(Last(TAIL))'
    <2>1. \A k \in Location : current[Owner][k] \in Nat
        BY <1>2 DEF Shape
    <2>2. Signed(v) <= EndPos'
        BY <1>2, <1>4, <1>9
    <2>3. QED
        BY <1>5, <1>7, <1>10, <2>1, <2>2, NewTail
<1>12. TailsTrue' /\ \A u \in Thief : ThiefCall(u)'
    <2>1. \A q \in HeadPos .. EndPos - 1 : SlotOf(q) # TAIL
        BY <1>2, PlaceFacts
    <2>2. EndPos <= EndPos'
        BY <1>2, <1>9
    <2>3. QED
        BY <1>8, <1>11, <2>1, <2>2
<1>13. WithinCapacity'
    BY <1>1, <1>2, <1>3, <1>8, <1>9, DequeAssumption DEF WithinCapacity
<1>14. OwnerCall'
    BY <1>6 DEF OwnerCall, Pushing, Taking, Fenced, Reserving
<1>15. DataFirst'
    BY <1>1, <1>2, <1>6, <1>8, Places DEF DataFirst, PlaceOf
<1>16. AllReleased'
    <2>1. \A p \in Slot : SlotOf(p) # TAIL /\ p \in Int
        BY PlaceFacts
    <2>2. QED
        BY <1>5, <1>8, <1>10, <2>1 DEF AllReleased, Covers
<1>17. IInv'
    BY <1>6, <1>8, <1>12, <1>13, <1>14, <1>15, <1>16 DEF IInv
<1>18. QED
    BY <1>8, <1>9, <1>17

\* The owner's reservation hands on no less than the tail before.
LEMMA TakeStoreTailInv ==
    ASSUME IInv, CountersFit, TakeStoreTail
    PROVE  /\ IInv' /\ HeadPos' = HeadPos /\ EndPos' = EndPos
           /\ \A k \in Location \ {TAIL} : Memory!Latest(k)' = Memory!Latest(k)
<1>1. /\ pc[Owner] = "idle"
      /\ calls[Owner] < MaxTakes
      /\ calls' = [calls EXCEPT ![Owner] = @ + 1]
      /\ tail' = Set(tail, Owner, Plus(OwnTail, -1))
      /\ Memory!StoreRelaxed(Owner, TAIL, Plus(OwnTail, -1))
      /\ Goto(Owner, "take_fence")
      /\ UNCHANGED <<head, x, pushed, taken>>
    BY DEF TakeStoreTail
<1>2. /\ Shape /\ ValuesFit /\ CallType /\ MemoryOK
      /\ WithinCapacity /\ OwnerCall /\ DataFirst /\ AllReleased
      /\ Owner \in Thread /\ Owner \notin Thief /\ Thread \ {Owner} = Thief
      /\ HEAD \in Location
      /\ TAIL \in Location \ {HEAD} /\ DATA \in Location /\ TAIL # DATA /\ DATA # HEAD
      /\ HeadPos \in Int /\ EndPos \in Int /\ First \in Int /\ First' = First
      /\ HeadPos = First + Last(HEAD) - 1
    BY OwnerFacts
<1>3. EndPos = Signed(OwnTail) /\ OwnTail \in Index
    BY <1>1, <1>2, EndPositions DEF Taking
<1>4. PICK v \in Index : v = Plus(OwnTail, -1) /\ Signed(v) = EndPos - 1
    <2>1. 0 - Modulus \div 2 <= EndPos + (-1)
        <3>1. Last(HEAD) \in Nat \ {0} /\ HeadPos <= EndPos
            BY <1>2 DEF Shape, WithinCapacity
        <3>2. First - 1 >= 0 - Modulus \div 2 /\ Modulus \div 2 \in Int
            BY DequeAssumption DEF CountersFit
        <3>3. QED
            BY <1>2, <3>1, <3>2
    <2>2. EndPos + (-1) < Modulus \div 2 /\ -1 <= Modulus /\ 0 - Modulus <= -1
        BY <1>2, <1>3, Words, DequeAssumption
    <2>3. QED
        BY <1>2, <1>3, <2>1, <2>2, Counting
<1>5. Plus(v, 1) \in Index /\ Signed(Plus(v, 1)) = EndPos
    <2>1. /\ 0 - Modulus \div 2 <= EndPos - 1 + 1 /\ EndPos - 1 + 1 < Modulus \div 2
          /\ 1 <= Modulus /\ 0 - Modulus <= 1
        BY <1>2, <1>3, Words, DequeAssumption
    <2>2. QED
        BY <1>2, <1>4, <2>1, Counting
<1>6. /\ StoreStep(Owner, TAIL, v) /\ released' = released
      /\ \A k \in Location \ {TAIL} : current'[Owner][k] = current[Owner][k]
      /\ \A k \in Location : released[Owner][k] <= history'[TAIL][Len(history'[TAIL])].view[k]
    <2>1. v \in Nat
        BY <1>4, Words
    <2>2. QED
        BY <1>1, <1>2, <1>4, <2>1, StoreRelaxedStep
<1>7. calls' \in [Thread -> 0 .. MaxTakes + MaxSteals]
    <2>1. calls \in [Thread -> 0 .. MaxTakes + MaxSteals]
          /\ calls[Owner] \in 0 .. MaxTakes + MaxSteals
        BY <1>2 DEF CallType
    <2>2. calls[Owner] + 1 \in 0 .. MaxTakes + MaxSteals
        BY <1>1, <2>1, DequeAssumption
    <2>3. QED
        BY <1>1, <2>1, <2>2
<1>8. /\ \A u \in Thief : SameLocals(u)
      /\ pc'[Owner] = "take_fence" /\ tail'[Owner] = v
      /\ CallType'
    BY <1>1, <1>2, <1>4, <1>7 DEF CallType, Pushing, Taking, Looking, Goto, Set, SameLocals
<1>9. OwnerStore(TAIL, v)
    BY <1>1, <1>2, <1>4, <1>6, <1>8, Places DEF OwnerStore, Reserving
<1>10. /\ Shape' /\ MemoryOK' /\ ValuesFit' /\ HeadCounts' /\ OwnerKnows' /\ HeadOrdered'
       /\ HeadPos' = HeadPos /\ PayloadVisible' /\ Memory!Latest(TAIL)' = v
       /\ \A k \in Location \ {TAIL} :
                Last(k)' = Last(k) /\ Memory!Latest(k)' = Memory!Latest(k)
       /\ \A w : \A q \in Int : SlotOf(q) # TAIL => (Covers(w, q)' <=> Covers(w, q))
       /\ /\ EndPos <= EndPos' /\ \A q \in HeadPos .. EndPos - 1 : SlotOf(q) # TAIL
          /\ TAIL = TAIL => Truthful(Last(TAIL))'
          => TailsTrue' /\ \A u \in Thief : ThiefCall(u)'
    BY <1>2, <1>9, OwnerStores
<1>11. EndPos' = EndPos
    BY <1>5, <1>8 DEF EndPos, Reach, Plus, Signed
<1>12. \A p \in Slot : Covers(released[Owner], p)
    BY <1>1, <1>2 DEF AllReleased
<1>13. Truthful(Last(TAIL))'
    <2>1. \A k \in Location : released[Owner][k] \in Nat
        BY <1>2 DEF Shape
    <2>2. Signed(v) <= EndPos'
        BY <1>2, <1>4, <1>11
    <2>3. QED
        BY <1>6, <1>9, <1>12, <2>1, <2>2, NewTail
<1>14. TailsTrue' /\ \A u \in Thief : ThiefCall(u)'
    <2>1. \A q \in HeadPos .. EndPos - 1 : SlotOf(q) # TAIL
        BY <1>2, PlaceFacts
    <2>2. EndPos <= EndPos'
        BY <1>2, <1>11
    <2>3. QED
        BY <1>10, <1>13, <2>1, <2>2
<1>15. WithinCapacity'
    BY <1>1, <1>2, <1>10, <1>11 DEF WithinCapacity
<1>16. OwnerCall'
    <2>1. tail'[Owner] = OwnTail' /\ Signed(tail'[Owner]) = EndPos' - 1
        BY <1>4, <1>8, <1>10, <1>11 DEF OwnTail
    <2>2. QED
        BY <1>8, <2>1 DEF OwnerCall, Pushing, Taking, Fenced, Reserving, Signed
<1>17. DataFirst'
    BY <1>1, <1>2, <1>8, <1>10, Places DEF DataFirst, PlaceOf
<1>18. AllReleased'
    <2>1. \A p \in Slot : SlotOf(p) # TAIL /\ p \in Int
        BY PlaceFacts
    <2>2. QED
        BY <1>6, <1>10, <1>12, <2>1 DEF AllReleased, Covers
<1>19. IInv'
    BY <1>8, <1>10, <1>14, <1>15, <1>16, <1>17, <1>18 DEF IInv
<1>20. QED
    BY <1>10, <1>11, <1>19

\* The tail put back shows no element that is not there.
LEMMA RestoreTailInv ==
    ASSUME IInv, RestoreTail
    PROVE  /\ IInv' /\ HeadPos' = HeadPos /\ EndPos' = EndPos
           /\ \A k \in Location \ {TAIL} : Memory!Latest(k)' = Memory!Latest(k)
<1>1. /\ pc[Owner] = "restore"
      /\ Memory!StoreRelaxed(Owner, TAIL, Plus(tail[Owner], 1))
      /\ Done(Owner)
      /\ UNCHANGED <<pushed, calls, taken>>
    BY DEF RestoreTail
<1>2. /\ Shape /\ ValuesFit /\ CallType /\ MemoryOK
      /\ WithinCapacity /\ DataFirst /\ AllReleased
      /\ Owner \in Thread /\ Owner \notin Thief /\ Thread \ {Owner} = Thief
      /\ TAIL \in Location \ {HEAD} /\ DATA \in Location /\ TAIL # DATA /\ DATA # HEAD
      /\ HeadPos \in Int /\ EndPos \in Int /\ First \in Int /\ First' = First
      /\ 0 \in Index /\ NoItem \in 0 .. MaxPushes
    BY OwnerFacts
<1>3. PICK v \in Index : v = Plus(tail[Owner], 1) /\ Signed(v) = EndPos
    BY <1>1, <1>2, EndPositions DEF EndPos, Reach
<1>4. /\ StoreStep(Owner, TAIL, v) /\ released' = released
      /\ \A k \in Location \ {TAIL} : current'[Owner][k] = current[Owner][k]
      /\ \A k \in Location : released[Owner][k] <= history'[TAIL][Len(history'[TAIL])].view[k]
    <2>1. v \in Nat
        BY <1>3, Words
    <2>2. QED
        BY <1>1, <1>2, <1>3, <2>1, StoreRelaxedStep
<1>5. /\ \A u \in Thief : SameLocals(u)
      /\ pc'[Owner] = "idle"
      /\ CallType'
    BY <1>1, <1>2 DEF CallType, Pushing, Taking, Looking, Goto, Set, Done, SameLocals
<1>6. OwnerStore(TAIL, v)
    BY <1>1, <1>2, <1>3, <1>4, <1>5, Places DEF OwnerStore, Reserving
<1>7. /\ Shape' /\ MemoryOK' /\ ValuesFit' /\ HeadCounts' /\ OwnerKnows' /\ HeadOrdered'
      /\ HeadPos' = HeadPos /\ PayloadVisible' /\ Memory!Latest(TAIL)' = v
      /\ \A k \in Location \ {TAIL} :
               Last(k)' = Last(k) /\ Memory!Latest(k)' = Memory!Latest(k)
      /\ \A w : \A q \in Int : SlotOf(q) # TAIL => (Covers(w, q)' <=> Covers(w, q))
      /\ /\ EndPos <= EndPos' /\ \A q \in HeadPos .. EndPos - 1 : SlotOf(q) # TAIL
         /\ TAIL = TAIL => Truthful(Last(TAIL))'
         => TailsTrue' /\ \A u \in Thief : ThiefCall(u)'
    BY <1>2, <1>6, OwnerStores
<1>8. EndPos' = EndPos
    BY <1>3, <1>5, <1>7 DEF EndPos, Reach, OwnTail, Signed
<1>9. \A p \in Slot : Covers(released[Owner], p)
    BY <1>1, <1>2 DEF AllReleased
<1>10. Truthful(Last(TAIL))'
    <2>1. \A k \in Location : released[Owner][k] \in Nat
        BY <1>2 DEF Shape
    <2>2. Signed(v) <= EndPos'
        BY <1>2, <1>3, <1>8
    <2>3. QED
        BY <1>4, <1>6, <1>9, <2>1, <2>2, NewTail
<1>11. TailsTrue' /\ \A u \in Thief : ThiefCall(u)'
    <2>1. \A q \in HeadPos .. EndPos - 1 : SlotOf(q) # TAIL
        BY <1>2, PlaceFacts
    <2>2. EndPos <= EndPos'
        BY <1>2, <1>8
    <2>3. QED
        BY <1>7, <1>10, <2>1, <2>2
<1>12. WithinCapacity'
    BY <1>1, <1>2, <1>7, <1>8 DEF WithinCapacity
<1>13. OwnerCall'
    BY <1>5 DEF OwnerCall, Pushing, Taking, Fenced, Reserving
<1>14. DataFirst'
    BY <1>1, <1>2, <1>5, <1>7, Places DEF DataFirst, PlaceOf
<1>15. AllReleased'
    <2>1. \A p \in Slot : SlotOf(p) # TAIL /\ p \in Int
        BY PlaceFacts
    <2>2. QED
        BY <1>4, <1>7, <1>9, <2>1 DEF AllReleased, Covers
<1>16. IInv'
    BY <1>5, <1>7, <1>11, <1>12, <1>13, <1>14, <1>15 DEF IInv
<1>17. QED
    BY <1>7, <1>8, <1>16

-----------------------------------------------------------------------------
(* The invariant                                                           *)

\* The deque is empty at first.
LEMMA InitInv ==
    ASSUME Init
    PROVE  IInv /\ HeadPos = EndPos
<1>1. /\ pc = [t \in Thread |-> "idle"]
      /\ head = [t \in Thread |-> 0] /\ tail = [t \in Thread |-> 0]
      /\ x = [t \in Thread |-> NoItem]
      /\ pushed = 0 /\ calls = [t \in Thread |-> 0] /\ taken = [t \in Thread |-> NoItem]
    BY DEF Init
<1>2. /\ MemoryOK /\ Shape
      /\ \A l \in Location : Last(l) = 1
      /\ \A l \in Location \ {HEAD, TAIL} : Memory!Latest(l) = 0
      /\ Memory!Latest(HEAD) = Start /\ Memory!Latest(TAIL) = Start
    BY InitMemory, MemoryFacts
<1>3. /\ HEAD \in Location /\ TAIL \in Location /\ DATA \in Location
      /\ Owner \in Thread /\ Thief \subseteq Thread /\ Owner \notin Thief
      /\ HEAD # TAIL /\ HEAD # DATA /\ TAIL # DATA
      /\ \A p \in Slot : PlaceOf(p) \in Location \ {HEAD, TAIL, DATA} /\ SlotOf(p) = PlaceOf(p)
    BY Places, PlaceFacts
<1>4. /\ First \in Int /\ Start \in Index /\ 0 \in Index /\ NoItem = 0 /\ MaxPushes \in Nat
      /\ MaxTakes \in Nat /\ MaxSteals \in Nat /\ Capacity \in Nat
    BY Words, DequeAssumption DEF First, Index, NoItem
<1>5. CallType
    BY <1>1, <1>3, <1>4 DEF CallType
<1>6. HeadPos = First /\ EndPos = First
    BY <1>1, <1>2, <1>3 DEF HeadPos, EndPos, Reach, OwnTail, First
<1>7. /\ \A l \in Location \ {HEAD, TAIL} : Memory!Value(l, 1) = 0
      /\ Memory!Value(HEAD, 1) = Start /\ Memory!Value(TAIL, 1) = Start
    BY <1>2, <1>3 DEF Shape
<1>8. ValuesFit /\ HeadCounts
    <2>1. \A l \in Location : 1 .. Last(l) = {1}
        BY <1>2
    <2>2. ValuesFit
        BY <1>3, <1>4, <1>7, <2>1 DEF ValuesFit
    <2>3. HeadCounts
        BY <1>3, <1>4, <1>7, <2>1 DEF HeadCounts, First
    <2>4. QED
        BY <2>2, <2>3
<1>9. WithinCapacity /\ OwnerCall
    BY <1>1, <1>3, <1>4, <1>6
    DEF WithinCapacity, OwnerCall, Pushing, Taking, Fenced, Reserving
<1>10. /\ \A t \in Thread, l \in Location : current[t][l] = 1 /\ released[t][l] = 1
       /\ \A l \in Location : order[l] = 1
    BY <1>2 DEF Shape
<1>11. OwnerKnows /\ HeadOrdered
    BY <1>2, <1>3, <1>10 DEF OwnerKnows, HeadOrdered
<1>12. DataFirst /\ AllReleased
    BY <1>1, <1>2, <1>3, <1>10 DEF DataFirst, AllReleased, Covers
<1>13. TailsTrue
    <2>1. TailAt(1) = First
        BY <1>7 DEF TailAt, First
    <2>2. order[TAIL] .. Last(TAIL) = {1}
        BY <1>2, <1>3, <1>10
    <2>3. HeadPos .. TailAt(1) - 1 = {}
        BY <1>4, <1>6, <2>1
    <2>4. QED
        BY <1>4, <1>6, <2>1, <2>2, <2>3 DEF TailsTrue
<1>14. ASSUME NEW t \in Thief PROVE ThiefCall(t)
    BY <1>1, <1>3 DEF ThiefCall, Noticed, Looking
<1>15. PayloadVisible
    BY <1>1 DEF PayloadVisible
<1>16. QED
    BY <1>2, <1>5, <1>6, <1>8, <1>9, <1>11, <1>12, <1>13, <1>14, <1>15 DEF IInv

\* The invariant is about the variables.
LEMMA StutterInv ==
    ASSUME IInv, UNCHANGED vars
    PROVE  IInv'
<1>1. /\ history' = history /\ current' = current /\ acquired' = acquired
      /\ released' = released /\ order' = order
      /\ pc' = pc /\ head' = head /\ tail' = tail /\ x' = x
      /\ pushed' = pushed /\ calls' = calls /\ taken' = taken
    BY DEF vars, locals, Memory!memory
<1>2. /\ Shape /\ MemoryOK /\ CallType /\ PayloadVisible /\ TailsTrue /\ OwnerInv
      /\ \A t \in Thief : ThiefCall(t)
    BY OwnerFacts DEF IInv, OwnerInv
<1>3. MemoryOK'
    BY <1>1, <1>2 DEF MemoryOK, Facts!MemoryInv, Facts!Histories, Facts!ViewsType,
                      Facts!MessagesKnown, Facts!ThreadViews, Facts!KnownIn, Facts!AtMost
<1>4. Shape'
    BY <1>3, NextShape
<1>5. /\ \A l : Last(l)' = Last(l) /\ Memory!Latest(l)' = Memory!Latest(l)
      /\ \A l, i : Memory!Value(l, i)' = Memory!Value(l, i)
    BY <1>1 DEF Last, Memory!Latest, Memory!Value
<1>6. OwnerInv' /\ EndPos' = EndPos /\ HeadPos' = HeadPos
    <2>1. \A l \in Location : order[l] <= order'[l]
        BY <1>1, <1>2 DEF Shape
    <2>2. QED
        BY <1>1, <1>2, <1>4, <2>1, OwnerKept DEF SameLocals
<1>7. /\ \A j : TailAt(j)' = TailAt(j) /\ TailView(j)' = TailView(j)
      /\ \A w, q : Covers(w, q)' <=> Covers(w, q)
    BY <1>1, <1>5 DEF TailAt, TailView, Covers
<1>8. CallType' /\ PayloadVisible'
    BY <1>1, <1>2 DEF CallType, Pushing, Taking, Looking, PayloadVisible
<1>9. TailsTrue'
    BY <1>1, <1>2, <1>5, <1>6, <1>7 DEF TailsTrue
<1>10. ASSUME NEW t \in Thief PROVE ThiefCall(t)'
    <2>1. ThiefCall(t)
        BY <1>2
    <2>2. First' = First /\ TailAt(current[t][TAIL])' = TailAt(current[t][TAIL])
          /\ Signed(head[t])' = Signed(head[t])
          /\ (Reserving' <=> Reserving)
          /\ Memory!Latest(SlotOf(Signed(head[t])))' = Memory!Latest(SlotOf(Signed(head[t])))
        BY <1>1 DEF First, TailAt, Memory!Value, Signed, Reserving, Memory!Latest, SlotOf
    <2>3. QED
        BY <1>1, <1>5, <1>6, <1>7, <2>1, <2>2 DEF ThiefCall, Noticed, Looking
<1>11. QED
    BY <1>3, <1>6, <1>8, <1>9, <1>10 DEF IInv, OwnerInv

\* As long as its counters fit, every step of the deque keeps the invariant.
LEMMA NextInv ==
    ASSUME IInv, CountersFit, [Next]_vars
    PROVE  IInv'
<1>1. CASE PushLoadHead
    BY <1>1, PushLoadHeadInv
<1>2. CASE PushFull
    BY <1>2, PushFullInv
<1>3. CASE WriteData
    BY <1>3, WriteDataInv
<1>4. CASE PushStoreItem
    BY <1>4, PushStoreItemInv
<1>5. CASE PushStoreTail
    BY <1>5, PushStoreTailInv
<1>6. CASE TakeStoreTail
    BY <1>6, TakeStoreTailInv
<1>7. CASE TakeFence
    BY <1>7, TakeFenceInv
<1>8. CASE TakeLoadHead
    BY <1>8, TakeLoadHeadInv
<1>9. CASE TakeLoadItem
    BY <1>9, TakeLoadItemInv
<1>10. CASE TakeRace
    BY <1>10, TakeRaceInv
<1>11. CASE RestoreTail
    BY <1>11, RestoreTailInv
<1>12. ASSUME NEW t \in Thief, Steal(t) PROVE IInv'
    <2>1. CASE StealLoadHead(t)
        BY <2>1, StealLoadHeadInv
    <2>2. CASE StealFence(t)
        BY <2>2, StealFenceInv
    <2>3. CASE StealLoadTail(t)
        BY <2>3, StealLoadTailInv
    <2>4. CASE StealLoadItem(t)
        BY <2>4, StealLoadItemInv
    <2>5. CASE StealRace(t)
        BY <2>5, StealRaceInv
    <2>6. QED
        BY <1>12, <2>1, <2>2, <2>3, <2>4, <2>5 DEF Steal
<1>13. CASE UNCHANGED vars
    BY <1>13, StutterInv
<1>14. QED
    BY <1>1, <1>2, <1>3, <1>4, <1>5, <1>6, <1>7, <1>8, <1>9, <1>10, <1>11, <1>12, <1>13
    DEF Next, Push, Take

\* So the invariant always holds.
LEMMA Invariance ==
    ASSUME CountersFit
    PROVE  Spec => []IInv
<1>1. Init => IInv
    BY InitInv
<1>2. IInv /\ [Next]_vars => IInv'
    BY NextInv
<1>3. QED
    BY <1>1, <1>2, PTL DEF Spec

-----------------------------------------------------------------------------
(* What the deque holds                                                    *)

Elements == [k \in 1 .. EndPos - HeadPos |-> Memory!Latest(SlotOf(HeadPos + k - 1))]

QueueKnown ==
    /\ Queue = Elements
    /\ HeadPos \in Int /\ EndPos \in Int
    /\ EndPos - HeadPos \in 0 .. Capacity
    /\ \A q \in Int : Memory!Latest(SlotOf(q)) \in 0 .. MaxPushes

\* The abstract queue, in positions.
LEMMA QueueElements ==
    ASSUME IInv
    PROVE  QueueKnown
<1>1. /\ Shape /\ HeadCounts /\ ValuesFit /\ CallType /\ WithinCapacity
      /\ HeadPos \in Int /\ EndPos \in Int
    BY OwnerFacts
<1>2. PICK first \in Index : first = Memory!Latest(HEAD) /\ HeadPos = Signed(first)
    BY <1>1, Positions DEF HeadPos
<1>3. Reach \in Index /\ EndPos = Signed(Reach)
    BY <1>1, EndPositions DEF EndPos
<1>4. EndPos - HeadPos \in 0 .. Capacity
    BY <1>1, DequeAssumption DEF WithinCapacity
<1>5. (Reach - first) % Modulus = EndPos - HeadPos
    BY <1>1, <1>2, <1>3, Difference DEF WithinCapacity
<1>6. ASSUME NEW k \in 1 .. EndPos - HeadPos
      PROVE  SlotOf(Plus(first, k - 1)) = SlotOf(HeadPos + k - 1)
    <2>1. PICK n \in Int : n = k - 1 /\ HeadPos + n < EndPos /\ n >= 0
        BY <1>1
    <2>2. /\ 0 - Modulus \div 2 <= HeadPos + n /\ HeadPos + n < Modulus \div 2
          /\ 0 - Modulus <= n /\ n <= Modulus
        <3>1. /\ 0 - Modulus \div 2 <= HeadPos /\ EndPos < Modulus \div 2
              /\ Modulus = 2 * (Modulus \div 2) /\ Modulus \in Nat /\ Modulus \div 2 \in Int
            BY <1>2, <1>3, Words, DequeAssumption
        <3>2. QED
            BY <1>1, <2>1, <3>1
    <2>3. Plus(first, n) \in Index /\ Signed(Plus(first, n)) = HeadPos + n
        BY <1>2, <2>2, Counting
    <2>4. HeadPos + n = HeadPos + k - 1
        BY <1>1, <2>1
    <2>5. QED
        BY <2>1, <2>3, <2>4, Words
<1>7. Queue = Elements
    BY <1>2, <1>5, <1>6 DEF Queue, Elements
<1>8. ASSUME NEW q \in Int PROVE Memory!Latest(SlotOf(q)) \in 0 .. MaxPushes
    <2>1. Last(SlotOf(q)) \in 1 .. Last(SlotOf(q))
        BY <1>1, PlaceFacts DEF Shape
    <2>2. QED
        BY <1>1, <2>1, ElementType
<1>9. QED
    BY <1>1, <1>4, <1>7, <1>8 DEF QueueKnown

\* QueueElements of the next state.
LEMMA NextQueueElements ==
    ASSUME IInv'
    PROVE  QueueKnown'
    BY QueueElements, PTL

QueueShape ==
    /\ Queue \in Seq(0 .. MaxPushes) /\ Len(Queue) = EndPos - HeadPos
    /\ \A k \in 1 .. EndPos - HeadPos : Queue[k] = Memory!Latest(SlotOf(HeadPos + k - 1))
    /\ Queue = << >> <=> EndPos = HeadPos

\* A function of 1 .. n is a sequence of length n.
LEMMA FunctionIsSequence ==
    ASSUME NEW S, NEW n \in Nat, NEW f \in [1 .. n -> S]
    PROVE  f \in Seq(S) /\ Len(f) = n
    OBVIOUS

\* The queue's length and elements.
LEMMA ElementsFacts ==
    ASSUME QueueKnown
    PROVE  QueueShape
<1>1. PICK n \in Nat : n = EndPos - HeadPos
    BY DEF QueueKnown
<1>2. \A k \in 1 .. n : Memory!Latest(SlotOf(HeadPos + k - 1)) \in 0 .. MaxPushes
    BY <1>1 DEF QueueKnown
<1>3. Queue = [k \in 1 .. n |-> Memory!Latest(SlotOf(HeadPos + k - 1))]
    BY <1>1 DEF QueueKnown, Elements
<1>4. Queue \in Seq(0 .. MaxPushes) /\ Len(Queue) = n
    <2>1. Queue \in [1 .. n -> 0 .. MaxPushes]
        BY <1>2, <1>3
    <2>2. QED
        BY <2>1, FunctionIsSequence
<1>5. Queue = << >> <=> n = 0
    BY <1>4, EmptySeq
<1>6. \A k \in 1 .. n : Queue[k] = Memory!Latest(SlotOf(HeadPos + k - 1))
    BY <1>3
<1>7. EndPos = HeadPos <=> n = 0
    BY <1>1 DEF QueueKnown
<1>8. QED
    BY <1>1, <1>4, <1>5, <1>6, <1>7 DEF QueueShape

\* ElementsFacts of the next state.
LEMMA NextElementsFacts ==
    ASSUME QueueKnown'
    PROVE  QueueShape'
    BY ElementsFacts, PTL

\* Nothing that the deque holds changes.
LEMMA QueueStays ==
    ASSUME QueueKnown, QueueKnown', HeadPos' = HeadPos, EndPos' = EndPos,
           \A q \in HeadPos .. EndPos - 1 : Memory!Latest(SlotOf(q))' = Memory!Latest(SlotOf(q))
    PROVE  Queue' = Queue
<1>1. PICK h \in Int, n \in Int : h = HeadPos /\ n = EndPos - HeadPos
    BY DEF QueueKnown
<1>2. Queue = [k \in 1 .. n |-> Memory!Latest(SlotOf(h + k - 1))]
    BY <1>1 DEF QueueKnown, Elements
<1>3. Queue' = [k \in 1 .. n |-> Memory!Latest(SlotOf(h + k - 1))']
    BY <1>1 DEF QueueKnown, Elements, SlotOf
<1>4. ASSUME NEW k \in 1 .. n
      PROVE  Memory!Latest(SlotOf(h + k - 1))' = Memory!Latest(SlotOf(h + k - 1))
    <2>1. PICK q \in HeadPos .. EndPos - 1 : q = h + k - 1
        BY <1>1 DEF QueueKnown
    <2>2. QED
        BY <2>1 DEF SlotOf
<1>5. QED
    BY <1>2, <1>3, <1>4

\* Nothing is stored and the end does not move.
LEMMA QueueSame ==
    ASSUME history' = history, Reach' = Reach
    PROVE  Queue' = Queue
    BY DEF Queue, Memory!Latest, SlotOf, Plus

\* How the queue changes when an end of it moves and its elements stay.
LEMMA QueueMoves ==
    ASSUME QueueKnown, QueueKnown',
           \A q \in Int : Memory!Latest(SlotOf(q))' = Memory!Latest(SlotOf(q))
    PROVE  /\ HeadPos' = HeadPos /\ EndPos' = EndPos + 1 =>
                    Queue' = Append(Queue, Memory!Latest(SlotOf(EndPos)))
           /\ HeadPos' = HeadPos /\ EndPos' = EndPos - 1 /\ HeadPos < EndPos =>
                    /\ Queue' = SubSeq(Queue, 1, Len(Queue) - 1)
                    /\ Queue[Len(Queue)] = Memory!Latest(SlotOf(EndPos - 1))
           /\ HeadPos' = HeadPos + 1 /\ EndPos' = EndPos /\ HeadPos < EndPos =>
                    /\ Queue' = Tail(Queue)
                    /\ Head(Queue) = Memory!Latest(SlotOf(HeadPos))
<1>1. PICK h \in Int, e \in Int : h = HeadPos /\ e = EndPos
    BY DEF QueueKnown
<1>2. PICK S : S = 0 .. MaxPushes
    OBVIOUS
<1>3. PICK v : v = [q \in Int |-> Memory!Latest(SlotOf(q))]
    OBVIOUS
<1>4. /\ Queue \in Seq(S) /\ Len(Queue) = e - h /\ e - h \in Nat
      /\ \A k \in 1 .. e - h : Queue[k] = v[h + k - 1]
      /\ \A q \in Int : v[q] \in S
    <2>1. QueueShape
        BY ElementsFacts
    <2>2. \A k \in 1 .. e - h : v[h + k - 1] = Memory!Latest(SlotOf(h + k - 1))
        BY <1>1, <1>3
    <2>3. \A q \in Int : v[q] \in S
        BY <1>2, <1>3 DEF QueueKnown
    <2>4. e - h \in Nat
        BY <1>1, DequeAssumption DEF QueueKnown
    <2>5. /\ Queue \in Seq(S) /\ Len(Queue) = e - h
          /\ \A k \in 1 .. e - h : Queue[k] = Memory!Latest(SlotOf(h + k - 1))
        BY <1>1, <1>2, <2>1 DEF QueueShape
    <2>6. QED
        BY <2>2, <2>3, <2>4, <2>5
<1>5. PICK g \in Int, f \in Int : g = HeadPos' /\ f = EndPos'
    BY DEF QueueKnown
<1>6. PICK r : r = Queue'
    OBVIOUS
<1>7. /\ r \in Seq(S) /\ Len(r) = f - g /\ f - g \in Nat
      /\ \A k \in 1 .. f - g : r[k] = v[g + k - 1]
    <2>1. QueueShape'
        BY NextElementsFacts
    <2>2. ASSUME NEW k \in 1 .. f - g PROVE r[k] = v[g + k - 1]
        <3>1. r[k] = Memory!Latest(SlotOf(g + k - 1))'
            BY <1>5, <1>6, <2>1 DEF QueueShape, SlotOf
        <3>2. PICK q \in Int : q = g + k - 1
            <4>1. k \in Int /\ g \in Int
                OBVIOUS
            <4>2. QED
                BY <4>1
        <3>3. Memory!Latest(SlotOf(q))' = Memory!Latest(SlotOf(q))
            OBVIOUS
        <3>4. QED
            BY <1>3, <3>1, <3>2, <3>3 DEF SlotOf
    <2>3. r \in Seq(S) /\ Len(r) = f - g
        BY <1>2, <1>5, <1>6, <2>1 DEF QueueShape
    <2>4. Len(r) \in Nat
        BY <2>3, LenProperties
    <2>5. QED
        BY <2>2, <2>3, <2>4
<1>8. ASSUME g = h, f = e + 1 PROVE r = Append(Queue, v[e])
    <2>1. v[e] \in S
        BY <1>4
    <2>2. /\ Append(Queue, v[e]) \in Seq(S) /\ Len(Append(Queue, v[e])) = e - h + 1
          /\ \A k \in 1 .. e - h : Append(Queue, v[e])[k] = Queue[k]
          /\ Append(Queue, v[e])[e - h + 1] = v[e]
        BY <1>4, <2>1, AppendProperties
    <2>3. ASSUME NEW k \in 1 .. Len(r) PROVE r[k] = Append(Queue, v[e])[k]
        <3>1. k \in 1 .. f - g /\ f - g = e - h + 1
            BY <1>7, <1>8
        <3>2. r[k] = v[h + k - 1]
            BY <1>7, <1>8, <3>1
        <3>3. CASE k \in 1 .. e - h
            BY <1>4, <2>2, <3>2, <3>3
        <3>4. CASE k = e - h + 1
            <4>1. h + k - 1 = e
                BY <1>1, <3>1, <3>4
            <4>2. QED
                BY <2>2, <3>2, <3>4, <4>1
        <3>5. QED
            BY <1>4, <3>1, <3>3, <3>4
    <2>4. Len(r) = Len(Append(Queue, v[e]))
        BY <1>7, <1>8, <2>2
    <2>5. QED
        BY <1>7, <2>2, <2>3, <2>4, SeqEqual
<1>9. ASSUME g = h, f = e - 1, h < e
      PROVE  r = SubSeq(Queue, 1, Len(Queue) - 1) /\ Queue[Len(Queue)] = v[e - 1]
    <2>1. PICK n \in Nat : n = e - h - 1 /\ Len(Queue) = n + 1
        BY <1>4, <1>9
    <2>2. \A k \in 1 .. n : Queue[k] \in S
        BY <1>4, <2>1, ElementOfSeq
    <2>3. /\ SubSeq(Queue, 1, n) \in Seq(S) /\ Len(SubSeq(Queue, 1, n)) = n
          /\ \A k \in 1 .. n : SubSeq(Queue, 1, n)[k] = Queue[k]
        <3>1. n - 1 + 1 = n /\ (IF 1 <= n THEN n - 1 + 1 ELSE 0) = n
            BY <2>1
        <3>2. /\ SubSeq(Queue, 1, n) \in Seq(S)
              /\ Len(SubSeq(Queue, 1, n)) = (IF 1 <= n THEN n - 1 + 1 ELSE 0)
              /\ \A k \in 1 .. n - 1 + 1 : SubSeq(Queue, 1, n)[k] = Queue[1 + k - 1]
            BY <2>1, <2>2, SubSeqProperties
        <3>3. QED
            BY <3>1, <3>2
    <2>4. \A k \in 1 .. n : r[k] = Queue[k]
        BY <1>4, <1>7, <1>9, <2>1
    <2>5. Len(r) = n
        BY <1>7, <1>9, <2>1
    <2>6. r = SubSeq(Queue, 1, n)
        BY <1>7, <2>3, <2>4, <2>5, SeqEqual
    <2>7. Queue[n + 1] = v[e - 1]
        <3>1. n + 1 \in 1 .. e - h /\ h + (n + 1) - 1 = e - 1
            BY <2>1
        <3>2. QED
            BY <1>4, <3>1
    <2>8. QED
        BY <2>1, <2>6, <2>7
<1>10. ASSUME g = h + 1, f = e, h < e
       PROVE  r = Tail(Queue) /\ Head(Queue) = v[h]
    <2>1. PICK n \in Nat : n = e - h - 1 /\ Len(Queue) = n + 1
        BY <1>4, <1>10
    <2>2. Queue # << >>
        BY <2>1, EmptySeq
    <2>3. /\ Tail(Queue) \in Seq(S) /\ Len(Tail(Queue)) = n
          /\ \A k \in 1 .. n : Tail(Queue)[k] = Queue[k + 1]
        BY <1>4, <2>1, <2>2, HeadTailProperties
    <2>4. ASSUME NEW k \in 1 .. n PROVE r[k] = Tail(Queue)[k]
        <3>1. k \in 1 .. f - g /\ k + 1 \in 1 .. e - h
            BY <1>10, <2>1
        <3>2. r[k] = v[g + k - 1] /\ Queue[k + 1] = v[h + (k + 1) - 1]
            BY <1>4, <1>7, <3>1
        <3>3. g + k - 1 = h + (k + 1) - 1
            BY <1>10
        <3>4. QED
            BY <2>3, <3>2, <3>3
    <2>5. Len(r) = n
        BY <1>7, <1>10, <2>1
    <2>6. r = Tail(Queue)
        BY <1>7, <2>3, <2>4, <2>5, SeqEqual
    <2>7. Head(Queue) = Queue[1] /\ Queue[1] = v[h]
        <3>1. 1 \in 1 .. e - h /\ h + 1 - 1 = h
            BY <2>1
        <3>2. Head(Queue) = Queue[1]
            BY <1>4, <2>2
        <3>3. QED
            BY <1>4, <3>1, <3>2
    <2>8. QED
        BY <2>6, <2>7
<1>11. v[e] = Memory!Latest(SlotOf(EndPos)) /\ v[e - 1] = Memory!Latest(SlotOf(EndPos - 1))
       /\ v[h] = Memory!Latest(SlotOf(HeadPos))
    BY <1>1, <1>3
<1>12. QED
    BY <1>1, <1>5, <1>6, <1>8, <1>9, <1>10, <1>11

-----------------------------------------------------------------------------
(* The work deque                                                          *)

\* Nothing that a user of the deque can tell has changed.
Quiet == Queue' = Queue /\ taken' = taken /\ Answers' = Answers

\* A call of take_tail is answered by one step, and no other step answers one.
LEMMA AnswerSteps ==
    ASSUME IInv
    PROVE  /\ Push \/ TakeStoreTail \/ TakeFence \/ RestoreTail => Answers' = Answers
           /\ \A t \in Thief : Steal(t) => Answers' = Answers
           /\ TakeLoadHead /\ pc'[Owner] = "take_item" => Answers' = Answers
           /\ TakeLoadHead /\ pc'[Owner] = "restore" => Answers' = Answers + 1
           /\ TakeLoadItem /\ pc'[Owner] = "take_race" => Answers' = Answers
           /\ TakeLoadItem /\ pc'[Owner] = "idle" => Answers' = Answers + 1
           /\ TakeRace => Answers' = Answers + 1
<1>1. /\ CallType /\ Owner \in Thread /\ calls[Owner] \in Int
      /\ calls \in [Thread -> 0 .. MaxTakes + MaxSteals] /\ DOMAIN pc = Thread
    BY OwnerFacts DEF CallType
<1>2. \A t \in Thief : t \in Thread /\ t # Owner
    BY DequeAssumption DEF Thread
<1>3. ASSUME Push PROVE Answers' = Answers
    <2>1. calls' = calls /\ pc[Owner] \notin Undecided /\ pc'[Owner] \notin Undecided
        BY <1>1, <1>3 DEF Push, PushLoadHead, PushFull, WriteData, PushStoreItem,
                          PushStoreTail, Goto, Done, Undecided, locals
    <2>2. QED
        BY <2>1 DEF Answers
<1>4. ASSUME TakeStoreTail PROVE Answers' = Answers
    BY <1>1, <1>4 DEF TakeStoreTail, Goto, Answers, Undecided
<1>5. ASSUME TakeFence PROVE Answers' = Answers
    BY <1>1, <1>5 DEF TakeFence, Goto, Answers, Undecided
<1>6. ASSUME RestoreTail PROVE Answers' = Answers
    BY <1>1, <1>6 DEF RestoreTail, Goto, Done, Answers, Undecided
<1>7. ASSUME NEW t \in Thief, Steal(t) PROVE Answers' = Answers
    <2>1. calls'[Owner] = calls[Owner] /\ pc'[Owner] = pc[Owner]
        BY <1>1, <1>2, <1>7 DEF Steal, StealLoadHead, StealFence, StealLoadTail,
                                StealLoadItem, StealRace, Goto, Done
    <2>2. QED
        BY <2>1 DEF Answers
<1>8. /\ TakeLoadHead /\ pc'[Owner] = "take_item" => Answers' = Answers
      /\ TakeLoadHead /\ pc'[Owner] = "restore" => Answers' = Answers + 1
    BY <1>1 DEF TakeLoadHead, Answers, Undecided
<1>9. /\ TakeLoadItem /\ pc'[Owner] = "take_race" => Answers' = Answers
      /\ TakeLoadItem /\ pc'[Owner] = "idle" => Answers' = Answers + 1
    BY <1>1 DEF TakeLoadItem, Answers, Undecided
<1>10. TakeRace => Answers' = Answers + 1
    BY <1>1 DEF TakeRace, Goto, Answers, Undecided
<1>11. Push \/ TakeStoreTail \/ TakeFence \/ RestoreTail => Answers' = Answers
    BY <1>3, <1>4, <1>5, <1>6
<1>12. QED
    BY <1>7, <1>8, <1>9, <1>10, <1>11

\* push_tail adds its element with the store of the tail, and not before.
LEMMA PushSteps ==
    ASSUME IInv, CountersFit
    PROVE  /\ PushLoadHead \/ PushFull \/ WriteData \/ PushStoreItem => Quiet
           /\ PushStoreTail => Abstract!PushTail(pushed) /\ pushed \in Item
<1>1. /\ Shape /\ CallType /\ OwnerCall /\ ValuesFit /\ Owner \in Thread /\ HeadPos \in Int /\ EndPos \in Int
    BY OwnerFacts
<1>2. QueueKnown
    BY QueueElements
<1>3. CASE PushLoadHead
    <2>1. /\ history' = history /\ taken' = taken
          /\ pc[Owner] = "idle" /\ pc'[Owner] = "push_data"
        BY <1>1, <1>3 DEF PushLoadHead, Memory!LoadAcquire, Goto, CallType
    <2>2. Reach' = Reach
        BY <2>1 DEF Reach, OwnTail, Memory!Latest
    <2>3. QED
        BY <1>3, <2>1, <2>2, QueueSame, AnswerSteps
            DEF Push, Quiet, PushLoadHead, PushFull, WriteData, PushStoreItem,
                PushStoreTail, Goto, CallType
<1>4. CASE PushFull
    <2>1. history' = history /\ taken' = taken /\ pc' = pc /\ tail' = tail
        BY <1>4 DEF PushFull, Memory!LoadAcquire, locals
    <2>2. Reach' = Reach
        BY <2>1 DEF Reach, OwnTail, Memory!Latest, Plus
    <2>3. pc[Owner] = "idle"
        BY <1>4 DEF PushFull
    <2>4. QED
        BY <2>1, <2>2, <2>3, QueueSame, AnswerSteps DEF Push, Quiet, PushStoreTail
<1>5. CASE WriteData
    <2>1. /\ IInv' /\ HeadPos' = HeadPos /\ EndPos' = EndPos
          /\ \A q \in HeadPos .. EndPos - 1 : Memory!Latest(SlotOf(q))' = Memory!Latest(SlotOf(q))
        BY <1>5, WriteDataInv
    <2>2. Queue' = Queue
        BY <1>2, <2>1, NextQueueElements, QueueStays
    <2>3. QED
        BY <1>5, <2>2, AnswerSteps DEF Push, Quiet, WriteData, PushStoreTail
<1>6. CASE PushStoreItem
    <2>1. /\ IInv' /\ HeadPos' = HeadPos /\ EndPos' = EndPos
          /\ \A q \in HeadPos .. EndPos - 1 : Memory!Latest(SlotOf(q))' = Memory!Latest(SlotOf(q))
        BY <1>6, PushStoreItemInv
    <2>2. Queue' = Queue
        BY <1>2, <2>1, NextQueueElements, QueueStays
    <2>3. QED
        BY <1>6, <2>2, AnswerSteps DEF Push, Quiet, PushStoreItem, PushStoreTail
<1>7. CASE PushStoreTail
    <2>1. /\ IInv' /\ HeadPos' = HeadPos /\ EndPos' = EndPos + 1
          /\ \A k \in Location \ {TAIL} : Memory!Latest(k)' = Memory!Latest(k)
        BY <1>7, PushStoreTailInv
    <2>2. \A q \in Int : Memory!Latest(SlotOf(q))' = Memory!Latest(SlotOf(q))
        BY <2>1, PlaceFacts DEF SlotOf
    <2>3. Queue' = Append(Queue, Memory!Latest(SlotOf(EndPos)))
        BY <1>2, <2>1, <2>2, NextQueueElements, QueueMoves
    <2>4. pc[Owner] = "push_tail" /\ taken' = taken
        BY <1>7 DEF PushStoreTail
    <2>5. /\ tail[Owner] = OwnTail /\ x[Owner] = pushed /\ pushed >= 1
          /\ EndPos < HeadPos + Capacity
          /\ Memory!Latest(SlotOf(tail[Owner])) = pushed
          /\ EndPos = Signed(tail[Owner]) /\ tail[Owner] \in Index
        BY <1>1, <2>4, EndPositions DEF OwnerCall, Pushing, Taking
    <2>6. Memory!Latest(SlotOf(EndPos)) = pushed
        BY <2>5, Words
    <2>7. Len(Queue) < Capacity
        <3>1. Len(Queue) = EndPos - HeadPos /\ Capacity \in Int
            BY <1>2, ElementsFacts, DequeAssumption DEF QueueShape
        <3>2. QED
            BY <1>1, <2>5, <3>1
    <2>8. pushed \in Item
        BY <1>1, <2>5 DEF CallType, Item
    <2>9. Abstract!PushTail(pushed)
        BY <1>7, <2>3, <2>4, <2>6, <2>7, AnswerSteps DEF Abstract!PushTail, Push
    <2>10. ~PushLoadHead /\ ~PushFull /\ ~WriteData /\ ~PushStoreItem
        BY <2>4 DEF PushLoadHead, PushFull, WriteData, PushStoreItem
    <2>11. QED
        BY <2>8, <2>9, <2>10
<1>8. QED
    BY <1>3, <1>4, <1>5, <1>6, <1>7

\* take_tail takes, or finds the deque empty, at the step that decides it.
LEMMA TakeSteps ==
    ASSUME IInv, CountersFit, Take
    PROVE  Quiet \/ Abstract!TakeTail \/ Abstract!TakeTailEmpty
<1>1. /\ Shape /\ CallType /\ OwnerCall /\ HeadCounts /\ WithinCapacity
      /\ Owner \in Thread /\ HEAD \in Location /\ HeadPos \in Int /\ EndPos \in Int
      /\ First \in Int /\ HeadPos = First + Last(HEAD) - 1
    BY OwnerFacts
<1>2. QueueKnown /\ QueueShape
    BY QueueElements, ElementsFacts
<1>3. CASE TakeStoreTail
    <2>1. /\ IInv' /\ HeadPos' = HeadPos /\ EndPos' = EndPos
          /\ \A k \in Location \ {TAIL} : Memory!Latest(k)' = Memory!Latest(k)
        BY <1>3, TakeStoreTailInv
    <2>2. \A q \in Int : Memory!Latest(SlotOf(q))' = Memory!Latest(SlotOf(q))
        BY <2>1, PlaceFacts DEF SlotOf
    <2>3. Queue' = Queue
        BY <1>1, <1>2, <2>1, <2>2, NextQueueElements, QueueStays
    <2>4. QED
        BY <1>3, <2>3, AnswerSteps DEF Quiet, TakeStoreTail
<1>4. CASE TakeFence
    <2>1. /\ history' = history /\ taken' = taken /\ tail' = tail
          /\ pc[Owner] = "take_fence" /\ pc'[Owner] = "take_head"
        BY <1>1, <1>4 DEF TakeFence, Memory!FenceSeqCst, Goto, CallType
    <2>2. Reach' = Reach
        BY <2>1 DEF Reach, Plus
    <2>3. QED
        BY <1>4, <2>1, <2>2, QueueSame, AnswerSteps DEF Quiet
<1>5. CASE TakeLoadHead
    <2>1. PICK i, h :
            /\ i \in Memory!Readable(Owner, HEAD)
            /\ h = Memory!Value(HEAD, i)
            /\ pc[Owner] = "take_head"
            /\ Memory!LoadRelaxed(Owner, HEAD, i)
            /\ \/ /\ Signed(h) <= Signed(tail[Owner])
                  /\ Goto(Owner, "take_item")
                  /\ UNCHANGED taken
               \/ /\ Signed(h) > Signed(tail[Owner])
                  /\ Goto(Owner, "restore")
                  /\ taken' = Set(taken, Owner, NoItem)
            /\ UNCHANGED <<tail, x, pushed, calls>>
        BY <1>5 DEF TakeLoadHead
    <2>2. history' = history /\ tail' = tail /\ pc'[Owner] \in {"take_item", "restore"}
        BY <1>1, <2>1 DEF Memory!LoadRelaxed, Goto, CallType
    <2>3. Reach' = Reach
        BY <2>1, <2>2 DEF Reach, Plus
    <2>4. Queue' = Queue
        BY <2>2, <2>3, QueueSame
    <2>5. CASE Goto(Owner, "take_item") /\ UNCHANGED taken
        <3>1. pc'[Owner] = "take_item"
            BY <1>1, <2>5 DEF Goto, CallType
        <3>2. QED
            BY <1>5, <2>4, <2>5, <3>1, AnswerSteps DEF Quiet
    <2>6. CASE /\ Signed(h) > Signed(tail[Owner]) /\ Goto(Owner, "restore")
               /\ taken' = Set(taken, Owner, NoItem)
        <3>1. i \in 1 .. Last(HEAD) /\ Last(HEAD) \in Nat
            BY <1>1, <2>1 DEF Shape, Memory!Readable, Last
        <3>2. Signed(h) = First + i - 1
            BY <1>1, <2>1, <3>1 DEF HeadCounts
        <3>3. Signed(tail[Owner]) = EndPos - 1
            BY <1>1, <2>1 DEF OwnerCall, Taking
        <3>4. HeadPos = EndPos
            BY <1>1, <2>6, <3>1, <3>2, <3>3 DEF WithinCapacity
        <3>5. Queue = << >>
            BY <1>2, <3>4 DEF QueueShape
        <3>6. Answers' = Answers + 1
            BY <1>1, <1>5, <2>6, AnswerSteps DEF Goto, CallType
        <3>7. QED
            BY <2>4, <2>6, <3>5, <3>6 DEF Abstract!TakeTailEmpty, Set
    <2>7. QED
        BY <2>1, <2>5, <2>6
<1>6. CASE TakeLoadItem
    <2>0. PICK l : l = SlotOf(tail[Owner])
        OBVIOUS
    <2>1. PICK i \in Memory!Readable(Owner, l) :
            /\ pc[Owner] = "take_item"
            /\ Memory!LoadRelaxed(Owner, l, i)
            /\ \/ /\ head[Owner] = tail[Owner]
                  /\ x' = Set(x, Owner, Memory!Value(l, i))
                  /\ Goto(Owner, "take_race")
                  /\ UNCHANGED <<head, tail, taken>>
               \/ /\ head[Owner] # tail[Owner]
                  /\ taken' = Set(taken, Owner, Memory!Value(l, i))
                  /\ Done(Owner)
            /\ UNCHANGED <<pushed, calls>>
        BY <1>6, <2>0 DEF TakeLoadItem
    <2>2. CASE head[Owner] = tail[Owner]
        <3>1. history' = history /\ pc'[Owner] = "take_race" /\ tail' = tail /\ taken' = taken
            BY <1>1, <2>1, <2>2 DEF Memory!LoadRelaxed, Goto, CallType
        <3>2. Reach' = Reach
            BY <2>1, <3>1 DEF Reach, Plus
        <3>3. QED
            BY <1>6, <3>1, <3>2, QueueSame, AnswerSteps DEF Quiet
    <2>3. CASE head[Owner] # tail[Owner]
        <3>1. /\ IInv' /\ EndPos' = EndPos - 1 /\ HeadPos < EndPos /\ history' = history
              /\ taken' = Set(taken, Owner, Memory!Latest(SlotOf(EndPos - 1)))
            BY <2>0, <2>1, <2>3, TakeOne
        <3>2. HeadPos' = HeadPos /\ \A q \in Int : Memory!Latest(SlotOf(q))' = Memory!Latest(SlotOf(q))
            BY <3>1 DEF HeadPos, Signed, Memory!Latest, SlotOf
        <3>3. /\ Queue' = SubSeq(Queue, 1, Len(Queue) - 1)
              /\ Queue[Len(Queue)] = Memory!Latest(SlotOf(EndPos - 1))
            BY <1>2, <3>1, <3>2, NextQueueElements, QueueMoves
        <3>4. Queue # << >>
            BY <1>1, <1>2, <3>1 DEF QueueShape
        <3>5. Answers' = Answers + 1
            BY <1>1, <1>6, <2>1, <2>3, AnswerSteps DEF Done, Goto, CallType
        <3>6. QED
            BY <3>1, <3>3, <3>4, <3>5 DEF Abstract!TakeTail, Set
    <2>4. QED
        BY <2>2, <2>3
<1>7. CASE TakeRace
    <2>1. CASE /\ Memory!SwapSucceeds(Owner, HEAD, head[Owner], Plus(head[Owner], 1))
               /\ taken' = Set(taken, Owner, x[Owner])
        <3>1. IInv' /\ Wins(Owner) /\ HeadPos = EndPos - 1
            BY <1>7, <2>1, TakeWon DEF TakeRace
        <3>2. x[Owner] = Memory!Latest(SlotOf(HeadPos))
            BY <1>7, <3>1, OwnerRaces DEF TakeRace
        <3>3. /\ HeadPos' = HeadPos + 1 /\ EndPos' = EndPos /\ HeadPos < EndPos
              /\ \A k \in Location \ {HEAD} : Memory!Latest(k)' = Memory!Latest(k)
            BY <1>1, <3>1, HeadGrows DEF Wins
        <3>4. \A q \in Int : Memory!Latest(SlotOf(q))' = Memory!Latest(SlotOf(q))
            BY <3>3, PlaceFacts DEF SlotOf
        <3>5. Queue' = Tail(Queue) /\ Head(Queue) = Memory!Latest(SlotOf(HeadPos))
            BY <1>2, <3>1, <3>3, <3>4, NextQueueElements, QueueMoves
        <3>6. Queue \in Seq(0 .. MaxPushes) /\ Len(Queue) = 1 /\ Queue # << >>
            BY <1>1, <1>2, <3>1, <3>3 DEF QueueShape
        <3>7. Queue' = SubSeq(Queue, 1, Len(Queue) - 1) /\ Queue[Len(Queue)] = Head(Queue)
            BY <3>5, <3>6
        <3>8. QED
            BY <1>7, <2>1, <3>2, <3>5, <3>6, <3>7, AnswerSteps DEF Abstract!TakeTail, Set
    <2>2. CASE Memory!SwapFails(Owner, HEAD, head[Owner]) /\ taken' = Set(taken, Owner, NoItem)
        <3>1. HeadPos = EndPos /\ history' = history
            BY <1>7, <2>2, TakeLost DEF TakeRace
        <3>2. pc[Owner] = "take_race" /\ pc'[Owner] = "restore" /\ tail' = tail
            BY <1>1, <1>7 DEF TakeRace, Goto, CallType
        <3>3. Reach' = Reach
            BY <3>2 DEF Reach, Plus
        <3>4. Queue' = Queue /\ Queue = << >>
            BY <1>2, <3>1, <3>3, QueueSame DEF QueueShape
        <3>5. QED
            BY <1>7, <2>2, <3>4, AnswerSteps DEF Abstract!TakeTailEmpty, Set
    <2>3. QED
        BY <1>7, <2>1, <2>2 DEF TakeRace
<1>8. CASE RestoreTail
    <2>1. /\ IInv' /\ HeadPos' = HeadPos /\ EndPos' = EndPos
          /\ \A k \in Location \ {TAIL} : Memory!Latest(k)' = Memory!Latest(k)
        BY <1>8, RestoreTailInv
    <2>2. \A q \in Int : Memory!Latest(SlotOf(q))' = Memory!Latest(SlotOf(q))
        BY <2>1, PlaceFacts DEF SlotOf
    <2>3. Queue' = Queue
        BY <1>1, <1>2, <2>1, <2>2, NextQueueElements, QueueStays
    <2>4. QED
        BY <1>8, <2>3, AnswerSteps DEF Quiet, RestoreTail
<1>9. QED
    BY <1>3, <1>4, <1>5, <1>6, <1>7, <1>8 DEF Take

\* take_head takes with the compare_exchange that succeeds.
LEMMA StealSteps ==
    ASSUME IInv, CountersFit, NEW t \in Thief, Steal(t)
    PROVE  Quiet \/ Abstract!TakeHead(t)
<1>1. CallType /\ t \in Thread /\ t # Owner /\ Owner \in Thread
    BY ThiefFacts, Places
<1>2. QueueKnown /\ QueueShape
    BY QueueElements, ElementsFacts
<1>3. ASSUME history' = history, pc'[Owner] = pc[Owner], tail'[Owner] = tail[Owner],
             taken' = taken
      PROVE  Quiet
    <2>1. Reach' = Reach
        BY <1>3 DEF Reach, OwnTail, Memory!Latest, Plus
    <2>2. QED
        BY <1>3, <2>1, QueueSame, AnswerSteps DEF Quiet
<1>4. CASE StealLoadHead(t)
    <2>1. history' = history /\ pc'[Owner] = pc[Owner] /\ tail' = tail /\ taken' = taken
        BY <1>1, <1>4 DEF StealLoadHead, Memory!LoadAcquire, Goto, CallType
    <2>2. QED
        BY <1>3, <2>1
<1>5. CASE StealFence(t)
    <2>1. history' = history /\ pc'[Owner] = pc[Owner] /\ tail' = tail /\ taken' = taken
        BY <1>1, <1>5 DEF StealFence, Memory!FenceSeqCst, Goto, CallType
    <2>2. QED
        BY <1>3, <2>1
<1>6. CASE StealLoadTail(t)
    <2>1. /\ history' = history /\ pc'[Owner] = pc[Owner] /\ tail'[Owner] = tail[Owner]
          /\ taken' = taken
        BY <1>1, <1>6 DEF StealLoadTail, Memory!LoadAcquire, Goto, Done, Set, CallType
    <2>2. QED
        BY <1>3, <2>1
<1>7. CASE StealLoadItem(t)
    <2>1. history' = history /\ pc'[Owner] = pc[Owner] /\ tail' = tail /\ taken' = taken
        BY <1>1, <1>7 DEF StealLoadItem, Memory!LoadRelaxed, Goto, CallType
    <2>2. QED
        BY <1>3, <2>1
<1>8. CASE StealRace(t)
    <2>1. pc[t] = "steal_race" /\ Done(t) /\ UNCHANGED <<pushed, calls>>
        BY <1>8 DEF StealRace
    <2>2. CASE /\ Memory!SwapSucceeds(t, HEAD, head[t], Plus(head[t], 1))
               /\ taken' = Set(taken, t, x[t])
        <3>1. IInv' /\ Wins(t) /\ x[t] = Memory!Latest(SlotOf(HeadPos))
            BY <2>1, <2>2, StealWon
        <3>2. /\ HeadPos' = HeadPos + 1 /\ EndPos' = EndPos /\ HeadPos < EndPos
              /\ \A k \in Location \ {HEAD} : Memory!Latest(k)' = Memory!Latest(k)
            BY <1>1, <3>1, HeadGrows DEF Wins
        <3>3. \A q \in Int : Memory!Latest(SlotOf(q))' = Memory!Latest(SlotOf(q))
            BY <3>2, PlaceFacts DEF SlotOf
        <3>4. Queue' = Tail(Queue) /\ Head(Queue) = Memory!Latest(SlotOf(HeadPos))
            BY <1>2, <3>1, <3>2, <3>3, NextQueueElements, QueueMoves
        <3>5. Queue # << >>
            BY <1>2, <3>2 DEF QueueShape, QueueKnown
        <3>6. QED
            BY <2>2, <3>1, <3>4, <3>5, AnswerSteps DEF Abstract!TakeHead, Set
    <2>3. CASE Memory!SwapFails(t, HEAD, head[t]) /\ UNCHANGED taken
        <3>1. /\ history' = history /\ pc'[Owner] = pc[Owner] /\ tail'[Owner] = tail[Owner]
            BY <1>1, <2>1, <2>3
            DEF Memory!SwapFails, Memory!LoadRelaxed, Goto, Done, Set, CallType
        <3>2. QED
            BY <1>3, <2>3, <3>1
    <2>4. QED
        BY <1>8, <2>2, <2>3 DEF StealRace
<1>9. QED
    BY <1>4, <1>5, <1>6, <1>7, <1>8 DEF Steal

\* Every step of the deque is one of the abstract deque, or none.
LEMMA StepImplements ==
    ASSUME IInv, CountersFit, [Next]_vars
    PROVE  [Abstract!Next]_(Abstract!vars)
<1>1. CASE Push
    <2>1. Quiet \/ (Abstract!PushTail(pushed) /\ pushed \in Item)
        BY <1>1, PushSteps DEF Push
    <2>2. QED
        BY <2>1 DEF Quiet, Abstract!Next, Abstract!vars
<1>2. CASE Take
    <2>1. Quiet \/ Abstract!TakeTail \/ Abstract!TakeTailEmpty
        BY <1>2, TakeSteps
    <2>2. QED
        BY <2>1 DEF Quiet, Abstract!Next, Abstract!vars
<1>3. ASSUME NEW t \in Thief, Steal(t) PROVE [Abstract!Next]_(Abstract!vars)
    <2>1. Quiet \/ Abstract!TakeHead(t)
        BY <1>3, StealSteps
    <2>2. QED
        BY <2>1 DEF Quiet, Abstract!Next, Abstract!vars
<1>4. CASE UNCHANGED vars
    <2>1. /\ history' = history /\ pc' = pc /\ tail' = tail /\ taken' = taken
          /\ calls' = calls
        BY <1>4 DEF vars, locals, Memory!memory
    <2>2. Reach' = Reach
        BY <2>1 DEF Reach, OwnTail, Memory!Latest, Plus
    <2>3. Answers' = Answers
        BY <2>1 DEF Answers
    <2>4. QED
        BY <2>1, <2>2, <2>3, QueueSame DEF Abstract!vars
<1>5. QED
    BY <1>1, <1>2, <1>3, <1>4 DEF Next

\* And it begins as that does.
LEMMA InitImplements ==
    ASSUME Init
    PROVE  Abstract!Init
<1>1. Queue = << >>
    BY InitInv, QueueElements, ElementsFacts DEF QueueShape
<1>2. Answers = 0
    BY DEF Init, Answers, Undecided, Thread
<1>3. QED
    BY <1>1, <1>2 DEF Init, Abstract!Init, Thread

-----------------------------------------------------------------------------
\* Whatever the threads do, the calls' variables have their types, and every
\* view of every thread is of messages there are.
THEOREM TypeCorrect ==
    ASSUME CountersFit
    PROVE  Spec => []TypeOK
<1>1. IInv => TypeOK
    <2>1. SUFFICES ASSUME IInv PROVE TypeOK
        OBVIOUS
    <2>2. Memory!MemoryTypeOK
        <3>1. Facts!MemoryTypeOK
            BY <2>1, Facts!MemoryInvType DEF IInv, MemoryOK
        <3>2. QED
            BY <3>1 DEF Facts!MemoryTypeOK, Memory!MemoryTypeOK, Facts!View, Memory!View
    <2>3. Item \union {NoItem} = 0 .. MaxPushes
        BY DequeAssumption DEF Item, NoItem
    <2>4. /\ CallType
          /\ {head, tail} \subseteq [Thread -> Index]
          /\ {x, taken} \subseteq [Thread -> Item \union {NoItem}]
        BY <2>1, <2>3 DEF IInv, CallType
    <2>5. QED
        BY <2>2, <2>4 DEF CallType, TypeOK
<1>2. QED
    BY <1>1, Invariance, PTL

\* Whoever has taken an item, the owner or a thief, may read what its owner
\* wrote before it pushed the item: the relaxed loads of take_tail and
\* take_head, with the fences and the acquire of the tail, are enough for it.
THEOREM PayloadIsVisible ==
    ASSUME CountersFit
    PROVE  Spec => []PayloadVisible
<1>1. IInv => PayloadVisible
    BY DEF IInv
<1>2. QED
    BY <1>1, Invariance, PTL

\* push_tail, take_tail and take_head are those of a double-ended queue of at
\* most Capacity elements: the store of the tail adds the element, the decision
\* of take_tail and the compare_exchange that succeeds take it, and no other
\* step changes what the deque holds.
THEOREM DequeIsWorkDeque ==
    ASSUME CountersFit
    PROVE  Spec => ImplementsDeque
<1>1. Init => Abstract!Init
    BY InitImplements
<1>2. IInv /\ [Next]_vars => [Abstract!Next]_(Abstract!vars)
    BY StepImplements
<1>3. QED
    BY <1>1, <1>2, Invariance, PTL DEF Spec, ImplementsDeque, Abstract!Spec
=============================================================================
