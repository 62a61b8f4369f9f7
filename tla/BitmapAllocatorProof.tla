------------------------ MODULE BitmapAllocatorProof ------------------------
(***************************************************************************)
(* What BitmapAllocator promises, for any threads, any number of words and *)
(* of bits in one, and any number of calls, as long as free can name every *)
(* slot.                                                                   *)
(***************************************************************************)
EXTENDS BitmapAllocator, WellFoundedInduction, TLAPS

Facts == INSTANCE C11MemoryProof

\* free takes an index of 32 bits.
IndexFits == Words * Bits <= IndexRange

MemoryOK == Facts!MemoryInv(SUBSET Bit)

\* h has the slot s, or is freeing it.
Has(h, s) == holder[s] = h \/ freeing[h] = s

\* What h knows of a slot that it has: its bit is set in all versions of its
\* word that h may still find, and h is ordered after all accesses to it.
Kept(h, s) ==
    /\ \A i \in Memory!Readable(h, WORD(s \div Bits)) :
        s % Bits \in Memory!Value(WORD(s \div Bits), i)
    /\ Memory!Ordered(h, CONTENTS(s))

LatestMessage(l) == history[l][Len(history[l])]

\* Whoever acquires the word of s is ordered after all accesses to s.
Handed(s) ==
    LatestMessage(WORD(s \div Bits)).view[CONTENTS(s)] = Len(history[CONTENTS(s)])

CallType ==
    /\ pc \in [Thread -> {"idle", "scan", "take", "use", "clear_load", "clear"}]
    /\ word \in [Thread -> 0 .. Words]
    /\ bit \in [Thread -> Bit]
    /\ old \in [Thread -> SUBSET Bit]
    /\ holder \in [Slot -> Thread \union {Nobody}]
    /\ freeing \in [Thread -> Slot \union {NoSlot}]
    /\ given \in [Thread -> Slot \union {NoSlot}]
    /\ spare \in [Thread -> SUBSET Slot]
    /\ calls \in [Thread -> 0 .. MaxCalls]

CallOK(t) ==
    /\ pc[t] \in {"idle", "use"} => word[t] = 0
    /\ pc[t] = "take" => word[t] < Words /\ bit[t] \notin old[t]
    /\ pc[t] = "use" => given[t] \in Slot /\ holder[given[t]] = t
    /\ pc[t] \in {"clear_load", "clear"} <=> freeing[t] # NoSlot
    /\ freeing[t] # NoSlot =>
            /\ holder[freeing[t]] = Nobody
            /\ word[t] = freeing[t] \div Bits
            /\ bit[t] = freeing[t] % Bits
    /\ pc[t] = "clear" => bit[t] \in old[t]

\* Two threads never free one slot.
FreedOnce == \A t, u \in Thread : freeing[t] = freeing[u] => t = u \/ freeing[t] = NoSlot

SlotsKept == \A h \in Thread, s \in Slot : Has(h, s) => Kept(h, s)

SlotsHanded == \A s \in Slot \ Used : Handed(s)

\* The slots that a call of alloc ought to find are still free, and ahead of it.
SparesAhead ==
    \A t \in Thread : pc[t] \in {"scan", "take"} =>
        \A s \in spare[t] : SeemsFree(t, s) /\ s \div Bits >= word[t]

IInv ==
    /\ MemoryOK
    /\ CallType
    /\ \A t \in Thread : CallOK(t)
    /\ FreedOnce
    /\ BitmapIsExact
    /\ SlotsKept
    /\ SlotsHanded
    /\ SparesAhead
    /\ raced = FALSE

-----------------------------------------------------------------------------
(* Slots, words and locations                                              *)

LEMMA SlotFacts ==
    ASSUME NEW s \in Slot
    PROVE  /\ s \div Bits \in 0 .. Words - 1 /\ s % Bits \in Bit
           /\ (s \div Bits) * Bits + (s % Bits) = s
           /\ WORD(s \div Bits) \in Location /\ CONTENTS(s) \in Location
<1>1. s \div Bits \in 0 .. Words - 1 /\ s % Bits \in Bit
    BY BitmapAssumption, SMT DEF Slot, Bit
<1>2. (s \div Bits) * Bits + (s % Bits) = s
    BY BitmapAssumption, SMT DEF Slot
<1>3. QED
    BY <1>1, <1>2 DEF Location

LEMMA SlotOf ==
    ASSUME NEW k \in 0 .. Words - 1, NEW b \in Bit
    PROVE  /\ k * Bits + b \in Slot
           /\ (k * Bits + b) \div Bits = k /\ (k * Bits + b) % Bits = b
<1>1. k * Bits + b \in Slot
    BY BitmapAssumption, SMT DEF Slot, Bit
<1>2. (k * Bits + b) \div Bits = k /\ (k * Bits + b) % Bits = b
    BY BitmapAssumption, SMT DEF Bit
<1>3. QED
    BY <1>1, <1>2

LEMMA LocationFacts ==
    /\ \A j, k : WORD(j) = WORD(k) <=> j = k
    /\ \A r, s : CONTENTS(r) = CONTENTS(s) <=> r = s
    /\ \A k, s : WORD(k) # CONTENTS(s)
    /\ \A k \in 0 .. Words - 1 : WORD(k) \in Location
    /\ \A s \in Slot : CONTENTS(s) \in Location
    BY DEF WORD, CONTENTS, Location

LEMMA SentinelFacts ==
    Nobody \notin Thread /\ NoSlot \notin Slot
    BY BitmapAssumption DEF Slot

-----------------------------------------------------------------------------
(* The memory                                                              *)

\* No step of t takes anything from what t or another thread knows.
ViewsGrow == \A u \in Thread : \A l \in Location : current[u][l] <= current'[u][l]

LEMMA MemoryFacts ==
    ASSUME MemoryOK
    PROVE  /\ Memory!MemoryTypeOK
           /\ \A l \in Location : \A i \in 1 .. Len(history[l]) : Memory!Value(l, i) \in SUBSET Bit
           /\ \A l \in Location : Memory!Latest(l) \in SUBSET Bit
           /\ \A l \in Location : Len(history[l]) \in Nat \ {0}
           /\ \A u \in Thread, l \in Location : current[u][l] \in 1 .. Len(history[l])
           /\ \A l, k \in Location : LatestMessage(l).view[k] \in 1 .. Len(history[k])
<1>1. /\ Facts!MemoryTypeOK
      /\ \A l \in Location : \A i \in 1 .. Len(history[l]) : Facts!Value(l, i) \in SUBSET Bit
      /\ \A l \in Location : Facts!Latest(l) \in SUBSET Bit
    BY Facts!MemoryInvType DEF MemoryOK
<1>2. /\ Memory!MemoryTypeOK <=> Facts!MemoryTypeOK
      /\ \A l, i : Memory!Value(l, i) = Facts!Value(l, i)
      /\ \A l : Memory!Latest(l) = Facts!Latest(l)
    BY DEF Memory!MemoryTypeOK, Facts!MemoryTypeOK, Memory!Value, Facts!Value,
           Memory!Latest, Facts!Latest, Memory!View, Facts!View
<1>3. /\ \A l \in Location : Len(history[l]) \in Nat \ {0}
      /\ \A u \in Thread, l \in Location : current[u][l] \in 1 .. Len(history[l])
    <2>1. \A l \in Location : Len(history[l]) \in Nat \ {0}
        BY DEF MemoryOK, Facts!MemoryInv, Facts!Histories, Facts!KnownIn,
               Facts!ViewsType, Facts!View
    <2>2. QED
        BY <1>1, <2>1 DEF Facts!MemoryTypeOK
<1>4. ASSUME NEW l \in Location, NEW k \in Location
      PROVE  LatestMessage(l).view[k] \in 1 .. Len(history[k])
    <2>1. Len(history[l]) \in 1 .. Len(history[l])
        BY <1>3
    <2>2. QED
        BY <2>1 DEF LatestMessage, MemoryOK, Facts!MemoryInv, Facts!MessagesKnown, Facts!KnownIn
<1>5. QED
    BY <1>1, <1>2, <1>3, <1>4

LEMMA LoadMemory ==
    ASSUME MemoryOK, NEW t \in Thread, NEW l \in Location,
           NEW i \in Memory!Readable(t, l), Memory!LoadRelaxed(t, l, i)
    PROVE  MemoryOK' /\ ViewsGrow /\ history' = history /\ current'[t][l] = i
<1>1. i \in Facts!Readable(t, l) /\ Facts!LoadRelaxed(t, l, i)
    BY DEF Memory!Readable, Facts!Readable, Memory!LoadRelaxed, Facts!LoadRelaxed,
           Memory!Join, Facts!Join
<1>2. /\ Facts!MemoryInv(SUBSET Bit)' /\ Facts!StepOf(t) /\ history' = history
      /\ current'[t] = [current[t] EXCEPT ![l] = i]
    BY <1>1, Facts!LoadRelaxedInv DEF MemoryOK
<1>3. QED
    BY <1>2 DEF MemoryOK, Facts!StepOf, Facts!AtMost, ViewsGrow, Facts!MemoryInv,
                Facts!ViewsType, Facts!View

LEMMA SwapFailsMemory ==
    ASSUME MemoryOK, NEW t \in Thread, NEW l \in Location, NEW x,
           Memory!SwapFails(t, l, x)
    PROVE  MemoryOK' /\ ViewsGrow /\ history' = history
<1>1. Facts!SwapFails(t, l, x)
    BY DEF Memory!SwapFails, Facts!SwapFails, Memory!Readable, Facts!Readable,
           Memory!LoadRelaxed, Facts!LoadRelaxed, Memory!Join, Facts!Join,
           Memory!Value, Facts!Value
<1>2. Facts!MemoryInv(SUBSET Bit)' /\ Facts!StepOf(t) /\ history' = history
    BY <1>1, Facts!SwapFailsInv DEF MemoryOK
<1>3. QED
    BY <1>2 DEF MemoryOK, Facts!StepOf, Facts!AtMost, ViewsGrow

LEMMA ToldMemory ==
    ASSUME MemoryOK, NEW t \in Thread, NEW u \in Thread, Memory!Told(t, u)
    PROVE  /\ MemoryOK' /\ ViewsGrow /\ history' = history
           /\ \A l \in Location : current[u][l] <= current'[t][l]
<1>1. Facts!Told(t, u)
    BY DEF Memory!Told, Facts!Told, Memory!Join, Facts!Join
<1>2. /\ Facts!MemoryInv(SUBSET Bit)' /\ Facts!StepOf(t) /\ history' = history
      /\ Facts!AtMost(current[u], current'[t])
    BY <1>1, Facts!ToldInv DEF MemoryOK
<1>3. QED
    BY <1>2 DEF MemoryOK, Facts!StepOf, Facts!AtMost, ViewsGrow

\* A new message in l, the others as they were.
Grown(l) ==
    /\ \A k \in Location \ {l} : history'[k] = history[k]
    /\ Len(history'[l]) = Len(history[l]) + 1
    /\ \A i \in 1 .. Len(history[l]) : history'[l][i] = history[l][i]

LEMMA AccessMemory ==
    ASSUME MemoryOK, NEW t \in Thread, NEW l \in Location, Memory!Access(t, l, {})
    PROVE  MemoryOK' /\ ViewsGrow /\ Grown(l) /\ current'[t][l] = Len(history'[l])
<1>1. Facts!Access(t, l, {})
    BY DEF Memory!Access, Facts!Access, Memory!Put, Facts!Put
<1>2. /\ Facts!MemoryInv(SUBSET Bit)' /\ Facts!StepOf(t) /\ Facts!Stored(l, {})
      /\ current'[t] = [current[t] EXCEPT ![l] = Len(history'[l])]
    <2>1. {} \in SUBSET Bit
        OBVIOUS
    <2>2. QED
        BY <1>1, <2>1, Facts!AccessInv DEF MemoryOK
<1>3. current[t] \in [Location -> Nat]
    BY DEF MemoryOK, Facts!MemoryInv, Facts!ViewsType, Facts!View
<1>4. QED
    BY <1>2, <1>3 DEF MemoryOK, Facts!StepOf, Facts!AtMost, Facts!Extends, Facts!Stored,
                      ViewsGrow, Grown

\* A compare_exchange that succeeds: the new message hands on what the one it
\* replaces did, and what its thread knows, which is as much.
LEMMA SwapMemory ==
    ASSUME MemoryOK, NEW t \in Thread, NEW l \in Location, NEW x, NEW y \in SUBSET Bit,
           Memory!SwapSucceeds(t, l, x, y)
    PROVE  /\ MemoryOK' /\ ViewsGrow /\ Grown(l) /\ current'[t][l] = Len(history'[l])
           /\ Memory!Latest(l) = x /\ Memory!Latest(l)' = y
           /\ \A k \in Location :
                /\ LatestMessage(l).view[k] <= LatestMessage(l)'.view[k]
                /\ current'[t][k] <= LatestMessage(l)'.view[k]
                /\ LatestMessage(l).view[k] <= current'[t][k]
<1>1. Facts!SwapSucceeds(t, l, x, y)
    BY DEF Memory!SwapSucceeds, Facts!SwapSucceeds, Memory!Update, Facts!Update,
           Memory!Latest, Facts!Latest, Memory!Join, Facts!Join
<1>2. /\ Facts!MemoryInv(SUBSET Bit)' /\ Facts!StepOf(t) /\ Facts!Stored(l, y)
      /\ Facts!Latest(l) = x /\ Facts!Latest(l)' = y
      /\ Facts!AtMost(history[l][Len(history[l])].view, history'[l][Len(history'[l])].view)
      /\ Facts!AtMost(current'[t], history'[l][Len(history'[l])].view)
      /\ Facts!AtMost(history[l][Len(history[l])].view, current'[t])
      /\ current'[t][l] = Len(history'[l])
    BY <1>1, Facts!SwapSucceedsInv DEF MemoryOK
<1>3. Memory!Latest(l) = x /\ Memory!Latest(l)' = y
    BY <1>2 DEF Memory!Latest, Facts!Latest
<1>4. Grown(l) /\ ViewsGrow
    BY <1>2 DEF Facts!StepOf, Facts!AtMost, Facts!Extends, Facts!Stored, ViewsGrow, Grown
<1>5. QED
    BY <1>2, <1>3, <1>4 DEF MemoryOK, Facts!AtMost, LatestMessage

LEMMA InitMemory ==
    ASSUME Memory!MemoryInit([l \in Location |-> {}])
    PROVE  /\ MemoryOK
           /\ \A l \in Location : Memory!Latest(l) = {} /\ Len(history[l]) = 1
<1>1. Facts!MemoryInit([l \in Location |-> {}])
    BY DEF Memory!MemoryInit, Facts!MemoryInit
<1>2. [l \in Location |-> {}] \in [Location -> SUBSET Bit]
    OBVIOUS
<1>3. Facts!MemoryInv(SUBSET Bit)
    BY <1>1, <1>2, Facts!InitialMemory
<1>4. \A l \in Location : Memory!Latest(l) = {} /\ Len(history[l]) = 1
    BY DEF Memory!MemoryInit, Memory!Latest
<1>5. QED
    BY <1>3, <1>4 DEF MemoryOK
-----------------------------------------------------------------------------
(* What a step of the memory does to slots                                 *)

\* Memory in which nothing new was stored.
LEMMA QuietMemory ==
    ASSUME MemoryOK, MemoryOK', history' = history, ViewsGrow,
           NEW h \in Thread, NEW s \in Slot
    PROVE  /\ IsSet(s)' <=> IsSet(s)
           /\ Kept(h, s) => Kept(h, s)'
           /\ SeemsFree(h, s) => SeemsFree(h, s)'
           /\ Handed(s)' <=> Handed(s)
<1>1. WORD(s \div Bits) \in Location /\ CONTENTS(s) \in Location
    BY SlotFacts
<1>2. \A l \in Location : /\ current[h][l] <= current'[h][l]
                          /\ current[h][l] \in 1 .. Len(history[l])
                          /\ current'[h][l] \in 1 .. Len(history[l])
                          /\ Len(history[l]) \in Nat
    <2>1. \A l \in Location : current[h][l] \in 1 .. Len(history[l]) /\ Len(history[l]) \in Nat
        BY MemoryFacts
    <2>2. (\A u \in Thread, l \in Location : current[u][l] \in 1 .. Len(history[l]))'
        BY MemoryFacts, PTL
    <2>3. QED
        BY <2>1, <2>2 DEF ViewsGrow
<1>3. \A l \in Location : Memory!Readable(h, l)' \subseteq Memory!Readable(h, l)
    BY <1>2 DEF Memory!Readable
<1>4. \A l \in Location : Memory!Ordered(h, l) => Memory!Ordered(h, l)'
    BY <1>2 DEF Memory!Ordered
<1>5. /\ IsSet(s)' <=> IsSet(s)
      /\ Handed(s)' <=> Handed(s)
    BY DEF IsSet, Memory!Latest, Handed, LatestMessage
<1>6. \A l, i : Memory!Value(l, i)' = Memory!Value(l, i)
    BY DEF Memory!Value
<1>7. Kept(h, s) => Kept(h, s)'
    BY <1>1, <1>3, <1>4, <1>6 DEF Kept
<1>8. SeemsFree(h, s) => SeemsFree(h, s)'
    BY <1>1, <1>3, <1>6 DEF SeemsFree
<1>9. QED
    BY <1>5, <1>7, <1>8
LEMMA MemoryFactsNext ==
    ASSUME MemoryOK'
    PROVE  /\ \A l \in Location : Len(history'[l]) \in Nat \ {0}
           /\ \A u \in Thread, l \in Location : current'[u][l] \in 1 .. Len(history'[l])
           /\ \A l, k \in Location : LatestMessage(l)'.view[k] \in 1 .. Len(history'[k])
<1>1. (/\ \A l \in Location : Len(history[l]) \in Nat \ {0}
       /\ \A u \in Thread, l \in Location : current[u][l] \in 1 .. Len(history[l])
       /\ \A l, k \in Location : LatestMessage(l).view[k] \in 1 .. Len(history[k]))'
    BY MemoryFacts, PTL
<1>2. QED
    BY <1>1

\* What is readable after a step was readable before, or is new.
LEMMA GrownReadable ==
    ASSUME MemoryOK, MemoryOK', ViewsGrow, NEW l \in Location, Grown(l),
           NEW h \in Thread, NEW k \in Location, NEW i \in Memory!Readable(h, k)'
    PROVE  \/ /\ i \in Memory!Readable(h, k)
              /\ Memory!Value(k, i)' = Memory!Value(k, i)
           \/ k = l /\ i = Len(history'[l]) /\ Memory!Value(k, i)' = Memory!Latest(l)'
<1>1. /\ current[h][k] \in 1 .. Len(history[k]) /\ Len(history[k]) \in Nat
      /\ current'[h][k] \in 1 .. Len(history'[k]) /\ Len(history'[k]) \in Nat
      /\ current[h][k] <= current'[h][k]
    BY MemoryFacts, MemoryFactsNext DEF ViewsGrow
<1>2. i \in current'[h][k] .. Len(history'[k])
    BY DEF Memory!Readable
<1>3. CASE k = l /\ i = Len(history'[l])
    BY <1>3 DEF Memory!Value, Memory!Latest
<1>4. CASE ~(k = l /\ i = Len(history'[l]))
    <2>1. i \in current[h][k] .. Len(history[k]) /\ history'[k][i] = history[k][i]
        BY <1>1, <1>2, <1>4 DEF Grown
    <2>2. QED
        BY <2>1 DEF Memory!Readable, Memory!Value
<1>5. QED
    BY <1>3, <1>4

\* An access to the contents of the slot r.
LEMMA AccessSlots ==
    ASSUME MemoryOK, NEW t \in Thread, NEW r \in Slot,
           Memory!Access(t, CONTENTS(r), {}),
           NEW h \in Thread, NEW s \in Slot
    PROVE  /\ MemoryOK'
           /\ IsSet(s)' <=> IsSet(s)
           /\ SeemsFree(h, s) => SeemsFree(h, s)'
           /\ s # r => (Kept(h, s) => Kept(h, s)') /\ (Handed(s) => Handed(s)')
           /\ Kept(t, r) => Kept(t, r)'
<1>1. /\ WORD(s \div Bits) \in Location /\ CONTENTS(s) \in Location
      /\ CONTENTS(r) \in Location /\ WORD(r \div Bits) \in Location
    BY SlotFacts
<1>2. /\ MemoryOK' /\ ViewsGrow /\ Grown(CONTENTS(r))
      /\ current'[t][CONTENTS(r)] = Len(history'[CONTENTS(r)])
    BY <1>1, AccessMemory
<1>3. ASSUME NEW q \in Slot
      PROVE  /\ history'[WORD(q \div Bits)] = history[WORD(q \div Bits)]
             /\ \A u \in Thread : \A i \in Memory!Readable(u, WORD(q \div Bits))' :
                    /\ i \in Memory!Readable(u, WORD(q \div Bits))
                    /\ Memory!Value(WORD(q \div Bits), i)' = Memory!Value(WORD(q \div Bits), i)
    <2>1. WORD(q \div Bits) \in Location /\ WORD(q \div Bits) # CONTENTS(r)
        BY SlotFacts, LocationFacts
    <2>2. QED
        BY <1>1, <1>2, <2>1, GrownReadable DEF Grown
<1>4. (IsSet(s)' <=> IsSet(s)) /\ (SeemsFree(h, s) => SeemsFree(h, s)')
    BY <1>3 DEF IsSet, Memory!Latest, SeemsFree
<1>5. ASSUME s # r
      PROVE  (Kept(h, s) => Kept(h, s)') /\ (Handed(s) => Handed(s)')
    <2>1. CONTENTS(s) # CONTENTS(r)
        BY <1>5, LocationFacts
    <2>2. history'[CONTENTS(s)] = history[CONTENTS(s)]
        BY <1>1, <1>2, <2>1 DEF Grown
    <2>3. Handed(s) => Handed(s)'
        BY <1>3, <2>2 DEF Handed, LatestMessage
    <2>4. Memory!Ordered(h, CONTENTS(s)) => Memory!Ordered(h, CONTENTS(s))'
        <3>1. /\ current[h][CONTENTS(s)] <= current'[h][CONTENTS(s)]
              /\ current'[h][CONTENTS(s)] \in 1 .. Len(history'[CONTENTS(s)])
              /\ Len(history'[CONTENTS(s)]) \in Nat
            BY <1>1, <1>2, MemoryFactsNext DEF ViewsGrow
        <3>2. QED
            BY <2>2, <3>1 DEF Memory!Ordered
    <2>5. Kept(h, s) => Kept(h, s)'
        BY <1>3, <2>4 DEF Kept
    <2>6. QED
        BY <2>3, <2>5
<1>6. Kept(t, r) => Kept(t, r)'
    BY <1>2, <1>3 DEF Kept, Memory!Ordered
<1>7. QED
    BY <1>2, <1>4, <1>5, <1>6

\* A compare_exchange of the word k.
LEMMA SwapSlots ==
    ASSUME MemoryOK, NEW t \in Thread, NEW k \in 0 .. Words - 1, NEW x,
           NEW y \in SUBSET Bit, Memory!SwapSucceeds(t, WORD(k), x, y),
           NEW h \in Thread, NEW s \in Slot
    PROVE  /\ MemoryOK' /\ Memory!Latest(WORD(k)) = x
           /\ s \div Bits # k => (IsSet(s)' <=> IsSet(s))
           /\ s \div Bits = k => (IsSet(s) <=> s % Bits \in x)
           /\ s \div Bits = k => (IsSet(s)' <=> s % Bits \in y)
           /\ Kept(h, s) /\ IsSet(s)' => Kept(h, s)'
           /\ SeemsFree(h, s) /\ ~IsSet(s)' => SeemsFree(h, s)'
           /\ Handed(s) => Handed(s)'
           /\ s \div Bits = k /\ Handed(s) /\ IsSet(s)' => Kept(t, s)'
           /\ s \div Bits = k /\ Kept(t, s) => Handed(s)'
<1> DEFINE W == WORD(s \div Bits)
           C == CONTENTS(s)
<1>1. W \in Location /\ C \in Location /\ WORD(k) \in Location /\ C # WORD(k)
    BY SlotFacts, LocationFacts
<1>2. /\ MemoryOK' /\ ViewsGrow /\ Grown(WORD(k))
      /\ current'[t][WORD(k)] = Len(history'[WORD(k)])
      /\ Memory!Latest(WORD(k)) = x /\ Memory!Latest(WORD(k))' = y
      /\ \A l \in Location :
            /\ LatestMessage(WORD(k)).view[l] <= LatestMessage(WORD(k))'.view[l]
            /\ current'[t][l] <= LatestMessage(WORD(k))'.view[l]
            /\ LatestMessage(WORD(k)).view[l] <= current'[t][l]
    BY <1>1, SwapMemory
<1>3. s \div Bits = k <=> W = WORD(k)
    BY LocationFacts
<1>4. /\ s \div Bits # k => (IsSet(s)' <=> IsSet(s))
      /\ s \div Bits = k => (IsSet(s) <=> s % Bits \in x)
      /\ s \div Bits = k => (IsSet(s)' <=> s % Bits \in y)
    BY <1>1, <1>2, <1>3 DEF IsSet, Grown, Memory!Latest
<1>5. history'[C] = history[C]
    BY <1>1, <1>2 DEF Grown
<1>6. /\ \A u \in Thread : /\ current[u][C] <= current'[u][C]
                            /\ current[u][C] \in 1 .. Len(history[C])
                            /\ current'[u][C] \in 1 .. Len(history[C])
      /\ LatestMessage(W).view[C] \in 1 .. Len(history[C])
      /\ LatestMessage(W)'.view[C] \in 1 .. Len(history[C])
      /\ Len(history[C]) \in Nat
    BY <1>1, <1>2, <1>5, MemoryFacts, MemoryFactsNext DEF ViewsGrow
<1>7. \A i \in Memory!Readable(h, W)' :
        \/ i \in Memory!Readable(h, W) /\ Memory!Value(W, i)' = Memory!Value(W, i)
        \/ Memory!Value(W, i)' = Memory!Latest(W)'
    BY <1>1, <1>2, GrownReadable
<1>8. Kept(h, s) /\ IsSet(s)' => Kept(h, s)'
    <2>1. Memory!Ordered(h, C) => Memory!Ordered(h, C)'
        BY <1>5, <1>6 DEF Memory!Ordered
    <2>2. QED
        BY <1>7, <2>1 DEF Kept, IsSet
<1>9. SeemsFree(h, s) /\ ~IsSet(s)' => SeemsFree(h, s)'
    BY <1>7 DEF SeemsFree, IsSet
<1>10. Handed(s) => Handed(s)'
    <2>1. CASE W = WORD(k)
        <3>1. LatestMessage(W).view[C] <= LatestMessage(W)'.view[C]
            BY <1>1, <1>2, <2>1
        <3>2. QED
            BY <1>5, <1>6, <3>1 DEF Handed
    <2>2. CASE W # WORD(k)
        BY <1>1, <1>2, <1>5, <2>2 DEF Grown, Handed, LatestMessage
    <2>3. QED
        BY <2>1, <2>2
<1>11. ASSUME s \div Bits = k, Handed(s), IsSet(s)' PROVE Kept(t, s)'
    <2>1. W = WORD(k)
        BY <1>3, <1>11
    <2>2. Memory!Ordered(t, C)'
        BY <1>1, <1>2, <1>5, <1>6, <1>11, <2>1 DEF Handed, Memory!Ordered
    <2>3. \A i \in Memory!Readable(t, W)' : i = Len(history'[W])
        BY <1>1, <1>2, <2>1, MemoryFactsNext DEF Memory!Readable
    <2>4. QED
        BY <1>11, <2>2, <2>3 DEF Kept, IsSet, Memory!Value, Memory!Latest
<1>12. ASSUME s \div Bits = k, Kept(t, s) PROVE Handed(s)'
    <2>1. W = WORD(k) /\ current[t][C] = Len(history[C])
        BY <1>3, <1>12 DEF Kept, Memory!Ordered
    <2>2. current'[t][C] <= LatestMessage(W)'.view[C]
        BY <1>1, <1>2, <2>1
    <2>3. QED
        BY <1>5, <1>6, <2>1, <2>2 DEF Handed
<1>13. QED
    BY <1>2, <1>4, <1>8, <1>9, <1>10, <1>11, <1>12
-----------------------------------------------------------------------------
(* The steps                                                               *)

LEMMA UsedFacts ==
    ASSUME CallType, NEW s \in Slot
    PROVE  s \in Used <=> \E h \in Thread : Has(h, s)
    BY SentinelFacts DEF CallType, Used, Has

LEMMA UsedFactsNext ==
    ASSUME CallType', NEW s \in Slot
    PROVE  s \in Used' <=> \E h \in Thread : Has(h, s)'
    BY SentinelFacts DEF CallType, Used, Has

OthersUnchanged(t) ==
    \A u \in Thread \ {t} :
        /\ pc'[u] = pc[u] /\ word'[u] = word[u] /\ bit'[u] = bit[u]
        /\ old'[u] = old[u] /\ given'[u] = given[u] /\ freeing'[u] = freeing[u]

SparesOf(t) ==
    pc[t] \in {"scan", "take"} =>
        \A s \in spare[t] : SeemsFree(t, s) /\ s \div Bits >= word[t]

LEMMA SameMemory ==
    ASSUME MemoryOK, UNCHANGED memory
    PROVE  MemoryOK' /\ ViewsGrow /\ history' = history
<1>1. MemoryOK'
    BY DEF memory, MemoryOK, Facts!MemoryInv, Facts!ViewsType, Facts!MessagesKnown,
           Facts!ThreadViews, Facts!KnownIn, Facts!AtMost
<1>2. \A u \in Thread, l \in Location : current[u][l] \in Nat
    BY MemoryFacts
<1>3. QED
    BY <1>1, <1>2 DEF memory, ViewsGrow

\* A step of a call of t that neither stores anything nor gives or takes a slot.
LEMMA QuietStep ==
    ASSUME IInv, MemoryOK', history' = history, ViewsGrow, NEW t \in Thread,
           UNCHANGED <<holder, freeing, raced>>, OthersUnchanged(t),
           \A u \in Thread \ {t} : spare'[u] = spare[u],
           CallType', CallOK(t)', SparesOf(t)'
    PROVE  IInv' /\ Used' = Used
<1>1. /\ MemoryOK /\ CallType /\ FreedOnce /\ BitmapIsExact /\ SlotsKept
      /\ SlotsHanded /\ SparesAhead /\ \A u \in Thread : CallOK(u)
    BY DEF IInv
<1>2. Used' = Used
    BY DEF Used
<1>3. FreedOnce'
    BY <1>1 DEF FreedOnce
<1>4. ASSUME NEW u \in Thread PROVE CallOK(u)'
    BY <1>1 DEF CallOK, OthersUnchanged
<1>5. BitmapIsExact'
    <2>1. ASSUME NEW s \in Slot PROVE IsSet(s)' <=> IsSet(s)
        BY <1>1, QuietMemory
    <2>2. QED
        BY <1>1, <1>2, <2>1 DEF BitmapIsExact
<1>6. SlotsKept'
    <2>1. ASSUME NEW h \in Thread, NEW s \in Slot, Has(h, s)' PROVE Kept(h, s)'
        <3>1. Has(h, s)
            BY <2>1 DEF Has
        <3>2. Kept(h, s)
            BY <1>1, <3>1 DEF SlotsKept
        <3>3. QED
            BY <1>1, <3>2, QuietMemory
    <2>2. QED
        BY <2>1 DEF SlotsKept
<1>7. SlotsHanded'
    <2>1. ASSUME NEW s \in Slot \ Used PROVE Handed(s)'
        BY <1>1, QuietMemory DEF SlotsHanded
    <2>2. QED
        BY <1>2, <2>1 DEF SlotsHanded
<1>8. SparesAhead'
    <2>1. ASSUME NEW u \in Thread \ {t}, pc'[u] \in {"scan", "take"}, NEW s \in spare'[u]
          PROVE  SeemsFree(u, s)' /\ s \div Bits >= word'[u]
        <3>1. pc[u] \in {"scan", "take"} /\ s \in spare[u] /\ word'[u] = word[u] /\ s \in Slot
            BY <1>1, <2>1 DEF OthersUnchanged, CallType
        <3>2. SeemsFree(u, s) /\ s \div Bits >= word[u]
            BY <1>1, <3>1 DEF SparesAhead
        <3>3. QED
            BY <1>1, <3>1, <3>2, QuietMemory
    <2>2. QED
        BY <2>1 DEF SparesAhead, SparesOf
<1>9. QED
    BY <1>2, <1>3, <1>4, <1>5, <1>6, <1>7, <1>8 DEF IInv

LEMMA AllocInv ==
    ASSUME IInv, NEW t \in Thread, Alloc(t)
    PROVE  IInv' /\ Used' = Used
<1>1. /\ MemoryOK /\ CallType /\ CallOK(t) /\ UNCHANGED memory
      /\ UNCHANGED <<locals, holder, freeing, raced>>
    BY DEF IInv, Alloc
<1>2. MemoryOK' /\ ViewsGrow /\ history' = history
    BY <1>1, SameMemory
<1>3. CallType'
    <2>1. calls' \in [Thread -> 0 .. MaxCalls] /\ given' \in [Thread -> Slot \union {NoSlot}]
        BY <1>1, BitmapAssumption DEF CallType, Alloc, Call, Set
    <2>2. spare' \in [Thread -> SUBSET Slot]
        BY <1>1 DEF CallType, Alloc, Set
    <2>3. pc' \in [Thread -> {"idle", "scan", "take", "use", "clear_load", "clear"}]
        BY <1>1 DEF CallType, Alloc, Goto
    <2>4. QED
        BY <1>1, <2>1, <2>2, <2>3 DEF CallType, locals
<1>4. CallOK(t)'
    BY <1>1 DEF CallOK, CallType, Alloc, Call, Goto, locals
<1>5. SparesOf(t)'
    <2>1. spare'[t] = {s \in Slot : SeemsFree(t, s)} /\ word'[t] = 0
        BY <1>1 DEF Alloc, Set, CallType, CallOK, Call, locals
    <2>2. ASSUME NEW s \in spare'[t] PROVE SeemsFree(t, s)' /\ s \div Bits >= 0
        BY <1>1, <1>2, <2>1, QuietMemory, SlotFacts
    <2>3. QED
        BY <2>1, <2>2 DEF SparesOf
<1>6. OthersUnchanged(t) /\ \A u \in Thread \ {t} : spare'[u] = spare[u]
    BY <1>1 DEF OthersUnchanged, Alloc, Call, Goto, Set, CallType, locals
<1>7. QED
    BY <1>1, <1>2, <1>3, <1>4, <1>5, <1>6, QuietStep
\* The least clear bit of a word that is not full is a clear bit of it.
LEMMA LeastBit ==
    ASSUME NEW S \in SUBSET Nat, S # {}
    PROVE  Min(S) \in S
<1> DEFINE R == OpToRel(<, Nat)
<1>1. IsWellFoundedOn(R, Nat)
    BY NatLessThanWellFounded
<1>2. \A x, y \in Nat : x < y => <<x, y>> \in R
    BY DEF OpToRel
<1> HIDE DEF R
<1>3. PICK x \in S : \A y \in S : ~ (<<y, x>> \in R)
    BY <1>1, WFMin
<1>4. ASSUME NEW y \in S PROVE x <= y
    <2>1. x \in Nat /\ y \in Nat
        OBVIOUS
    <2>2. ~ (y < x)
        BY <1>2, <1>3, <2>1
    <2>3. QED
        BY <2>1, <2>2
<1>5. QED
    BY <1>3, <1>4 DEF Min

LEMMA ScanInv ==
    ASSUME IInv, NEW t \in Thread, Scan(t)
    PROVE  IInv' /\ Used' = Used
<1>1. /\ MemoryOK /\ CallType /\ CallOK(t) /\ SparesAhead
      /\ pc[t] = "scan" /\ word[t] < Words
      /\ UNCHANGED <<holder, freeing, given, spare, calls, raced>>
    BY DEF IInv, Scan
<1> DEFINE W == WORD(word[t])
<1>2. word[t] \in 0 .. Words - 1 /\ W \in Location
    BY <1>1, BitmapAssumption, LocationFacts DEF CallType
<1>3. PICK i \in Memory!Readable(t, W) :
        /\ Memory!LoadRelaxed(t, W, i)
        /\ \/ /\ Memory!Value(W, i) = Bit
              /\ word' = [word EXCEPT ![t] = @ + 1]
              /\ UNCHANGED <<pc, bit, old>>
           \/ /\ Memory!Value(W, i) # Bit
              /\ old' = Set(old, t, Memory!Value(W, i))
              /\ bit' = Set(bit, t, Min(Bit \ Memory!Value(W, i)))
              /\ Goto(t, "take")
              /\ UNCHANGED word
    BY DEF Scan
<1>4. MemoryOK' /\ ViewsGrow /\ history' = history
    BY <1>1, <1>2, <1>3, LoadMemory
<1> DEFINE v == Memory!Value(W, i)
<1>5. v \in SUBSET Bit
    BY <1>1, <1>2, MemoryFacts DEF Memory!Readable
<1>6. ASSUME NEW s \in spare[t]
      PROVE  /\ SeemsFree(t, s) /\ SeemsFree(t, s)' /\ s \div Bits >= word[t]
             /\ s % Bits \in Bit /\ s \div Bits \in Int
    <2>1. s \in Slot
        BY <1>1 DEF CallType
    <2>2. SeemsFree(t, s) /\ s \div Bits >= word[t]
        BY <1>1 DEF SparesAhead
    <2>3. QED
        BY <1>1, <1>4, <2>1, <2>2, QuietMemory, SlotFacts
<1>7. OthersUnchanged(t) /\ \A u \in Thread \ {t} : spare'[u] = spare[u]
    BY <1>1, <1>3 DEF OthersUnchanged, CallType, Set, Goto
<1> HIDE DEF v
<1>8. CASE v = Bit
    <2>1. word' = [word EXCEPT ![t] = @ + 1] /\ UNCHANGED <<pc, bit, old>>
        BY <1>3, <1>8 DEF v
    <2>2. CallType'
        BY <1>1, <1>2, <2>1, BitmapAssumption DEF CallType
    <2>3. CallOK(t)'
        BY <1>1, <2>1 DEF CallOK, CallType
    <2>4. ASSUME NEW s \in spare[t] PROVE s \div Bits >= word[t] + 1
        <3>1. s \div Bits # word[t]
            BY <1>3, <1>6, <1>8 DEF SeemsFree, v
        <3>2. QED
            BY <1>2, <1>6, <3>1
    <2>5. SparesOf(t)'
        BY <1>1, <1>6, <2>1, <2>4 DEF SparesOf, CallType
    <2>6. QED
        BY <1>1, <1>4, <1>7, <2>2, <2>3, <2>5, QuietStep
<1>9. CASE v # Bit
    <2>1. /\ old' = [old EXCEPT ![t] = v] /\ bit' = [bit EXCEPT ![t] = Min(Bit \ v)]
          /\ pc' = [pc EXCEPT ![t] = "take"] /\ word' = word
        BY <1>3, <1>9 DEF v, Set, Goto
    <2>2. Min(Bit \ v) \in Bit \ v
        <3>1. Bit \ v \in SUBSET Nat
            BY BitmapAssumption DEF Bit
        <3>2. Bit \ v # {}
            BY <1>5, <1>9
        <3>3. QED
            BY <3>1, <3>2, LeastBit
    <2>3. CallType'
        BY <1>1, <1>5, <2>1, <2>2 DEF CallType
    <2>4. CallOK(t)'
        BY <1>1, <2>1, <2>2 DEF CallOK, CallType
    <2>5. SparesOf(t)'
        BY <1>1, <1>6, <2>1 DEF SparesOf, CallType
    <2>6. QED
        BY <1>1, <1>4, <1>7, <2>3, <2>4, <2>5, QuietStep
<1>10. QED
    BY <1>8, <1>9

LEMMA OutOfMemoryInv ==
    ASSUME IInv, NEW t \in Thread, OutOfMemory(t)
    PROVE  IInv' /\ Used' = Used
<1>1. /\ MemoryOK /\ CallType /\ CallOK(t) /\ UNCHANGED memory
      /\ UNCHANGED <<holder, freeing, given, calls, raced>>
      /\ pc[t] = "scan" /\ pc' = [pc EXCEPT ![t] = "idle"]
      /\ word' = [word EXCEPT ![t] = 0] /\ bit' = [bit EXCEPT ![t] = 0]
      /\ old' = [old EXCEPT ![t] = {}] /\ spare' = [spare EXCEPT ![t] = {}]
    BY DEF IInv, OutOfMemory, Done, Goto, Set
<1>2. MemoryOK' /\ ViewsGrow /\ history' = history
    BY <1>1, SameMemory
<1>3. CallType'
    BY <1>1, BitmapAssumption DEF CallType, Bit
<1>4. CallOK(t)' /\ SparesOf(t)'
    BY <1>1 DEF CallOK, CallType, SparesOf
<1>5. OthersUnchanged(t) /\ \A u \in Thread \ {t} : spare'[u] = spare[u]
    BY <1>1 DEF OthersUnchanged, CallType
<1>6. QED
    BY <1>1, <1>2, <1>3, <1>4, <1>5, QuietStep

LEMMA ClearLoadInv ==
    ASSUME IInv, NEW t \in Thread, ClearLoad(t)
    PROVE  IInv' /\ Used' = Used
<1>1. /\ MemoryOK /\ CallType /\ CallOK(t) /\ SlotsKept
      /\ UNCHANGED <<word, bit, holder, freeing, given, spare, calls, raced>>
      /\ pc[t] = "clear_load" /\ pc' = [pc EXCEPT ![t] = "clear"]
    BY DEF IInv, ClearLoad, Goto
<1> DEFINE W == WORD(word[t])
           s == freeing[t]
<1>2. s \in Slot /\ word[t] = s \div Bits /\ bit[t] = s % Bits /\ W \in Location
    BY <1>1, SlotFacts DEF CallOK, CallType
<1>3. PICK i \in Memory!Readable(t, W) :
        Memory!LoadRelaxed(t, W, i) /\ old' = Set(old, t, Memory!Value(W, i))
    BY DEF ClearLoad
<1>4. MemoryOK' /\ ViewsGrow /\ history' = history
    BY <1>1, <1>2, <1>3, LoadMemory
<1> DEFINE v == Memory!Value(W, i)
<1>5. v \in SUBSET Bit /\ old' = [old EXCEPT ![t] = v]
    BY <1>1, <1>2, <1>3, MemoryFacts DEF Memory!Readable, Set
<1>6. bit[t] \in v
    <2>1. Kept(t, s)
        BY <1>1, <1>2 DEF SlotsKept, Has
    <2>2. QED
        BY <1>2, <2>1 DEF Kept
<1> HIDE DEF v
<1>7. CallType'
    BY <1>1, <1>5 DEF CallType
<1>8. CallOK(t)' /\ SparesOf(t)'
    BY <1>1, <1>5, <1>6 DEF CallOK, CallType, SparesOf
<1>9. OthersUnchanged(t) /\ \A u \in Thread \ {t} : spare'[u] = spare[u]
    BY <1>1, <1>5 DEF OthersUnchanged, CallType
<1>10. QED
    BY <1>1, <1>4, <1>7, <1>8, <1>9, QuietStep
\* A slot that seems free is free, when the seeming is of all that is readable.
LEMMA SeemsFreeIs ==
    ASSUME MemoryOK, NEW t \in Thread, NEW s \in Slot, SeemsFree(t, s)
    PROVE  ~IsSet(s)
<1> DEFINE W == WORD(s \div Bits)
<1>1. W \in Location
    BY SlotFacts
<1>2. Len(history[W]) \in Memory!Readable(t, W)
    BY <1>1, MemoryFacts DEF Memory!Readable
<1>3. QED
    BY <1>2 DEF SeemsFree, IsSet, Memory!Latest, Memory!Value

\* The slot whose bit t is about to take is not in use if the word is as t
\* found it.
LEMMA TakeSucceedsInv ==
    ASSUME IInv, NEW t \in Thread, pc[t] = "take",
           Memory!SwapSucceeds(t, WORD(word[t]), old[t], TakenWord(t)),
           Give(t, TakenSlot(t)), UNCHANGED <<freeing, calls, raced>>
    PROVE  /\ IInv'
           /\ TakenSlot(t) \in Slot \ Used /\ Used' = Used \union {TakenSlot(t)}
           /\ given' = [given EXCEPT ![t] = TakenSlot(t)]
<1> DEFINE k == word[t]
           r == TakenSlot(t)
           y == TakenWord(t)
<1>1. /\ MemoryOK /\ CallType /\ FreedOnce /\ BitmapIsExact /\ SlotsKept
      /\ SlotsHanded /\ SparesAhead /\ \A u \in Thread : CallOK(u)
    BY DEF IInv
<1>2. /\ k \in 0 .. Words - 1 /\ bit[t] \in Bit \ old[t] /\ old[t] \in SUBSET Bit
      /\ y = old[t] \union {bit[t]} /\ y \in SUBSET Bit
    BY <1>1, BitmapAssumption DEF CallOK, CallType, TakenWord
<1>3. r \in Slot /\ r \div Bits = k /\ r % Bits = bit[t]
    BY <1>2, SlotOf DEF TakenSlot
<1>4. /\ given' = [given EXCEPT ![t] = r] /\ holder' = [holder EXCEPT ![r] = t]
      /\ spare' = [u \in Thread |-> IF u = t THEN {} ELSE spare[u] \ {r}]
      /\ pc' = [pc EXCEPT ![t] = "use"] /\ word' = [word EXCEPT ![t] = 0]
      /\ bit' = [bit EXCEPT ![t] = 0] /\ old' = [old EXCEPT ![t] = {}]
      /\ freeing' = freeing
    BY DEF Give, Set, Goto
<1> HIDE DEF r, y
<1>5. ASSUME NEW h \in Thread, NEW s \in Slot
      PROVE  /\ MemoryOK' /\ Memory!Latest(WORD(k)) = old[t]
             /\ s \div Bits # k => (IsSet(s)' <=> IsSet(s))
             /\ s \div Bits = k => (IsSet(s) <=> s % Bits \in old[t])
             /\ s \div Bits = k => (IsSet(s)' <=> s % Bits \in y)
             /\ Kept(h, s) /\ IsSet(s)' => Kept(h, s)'
             /\ SeemsFree(h, s) /\ ~IsSet(s)' => SeemsFree(h, s)'
             /\ Handed(s) => Handed(s)'
             /\ s \div Bits = k /\ Handed(s) /\ IsSet(s)' => Kept(t, s)'
    BY <1>1, <1>2, SwapSlots DEF y
<1>6. MemoryOK'
    BY <1>3, <1>5
<1>7. ASSUME NEW s \in Slot PROVE IsSet(s)' <=> IsSet(s) \/ s = r
    <2>1. CASE s \div Bits # k
        BY <1>3, <1>5, <2>1
    <2>2. CASE s \div Bits = k
        <3>1. s % Bits = bit[t] <=> s = r
            BY <1>2, <1>3, <2>2, SlotFacts
        <3>2. QED
            BY <1>2, <1>5, <2>2, <3>1
    <2>3. QED
        BY <2>1, <2>2
<1>8. ~IsSet(r) /\ r \notin Used
    BY <1>1, <1>2, <1>3, <1>5 DEF BitmapIsExact
<1>9. /\ holder[r] = Nobody
      /\ \A u \in Thread : ~Has(u, r)
    BY <1>1, <1>3, <1>8, UsedFacts, SentinelFacts DEF CallType, Has
<1>10. CallType'
    BY <1>1, <1>3, <1>4, BitmapAssumption DEF CallType, Bit
<1>11. Used' = Used \union {r}
    BY <1>1, <1>3, <1>4, <1>9, SentinelFacts DEF Used, CallType, Has
<1>12. ASSUME NEW u \in Thread PROVE CallOK(u)'
    <2>1. CASE u = t
        BY <1>1, <1>3, <1>4, <2>1 DEF CallOK, CallType
    <2>2. CASE u # t
        <3>1. /\ pc'[u] = pc[u] /\ word'[u] = word[u] /\ bit'[u] = bit[u]
              /\ old'[u] = old[u] /\ given'[u] = given[u] /\ freeing'[u] = freeing[u]
            BY <1>1, <1>4, <2>2 DEF CallType
        <3>2. /\ pc[u] = "use" => holder'[given[u]] = u
              /\ freeing[u] # NoSlot => holder'[freeing[u]] = Nobody
            BY <1>1, <1>3, <1>4, <1>9 DEF CallOK, CallType, Has
        <3>3. QED
            BY <1>1, <3>1, <3>2 DEF CallOK
    <2>3. QED
        BY <2>1, <2>2
<1>13. FreedOnce'
    BY <1>1, <1>4 DEF FreedOnce
<1>14. BitmapIsExact'
    BY <1>1, <1>7, <1>11 DEF BitmapIsExact
<1>15. SlotsKept'
    <2>1. ASSUME NEW h \in Thread, NEW s \in Slot, Has(h, s)' PROVE Kept(h, s)'
        <3>1. CASE s = r
            <4>1. h = t
                BY <1>1, <1>3, <1>4, <1>9, <2>1, <3>1 DEF Has, CallType
            <4>2. Handed(r)
                BY <1>1, <1>3, <1>8 DEF SlotsHanded
            <4>3. QED
                BY <1>3, <1>5, <1>7, <3>1, <4>1, <4>2
        <3>2. CASE s # r
            <4>1. Has(h, s)
                BY <1>1, <1>4, <2>1, <3>2 DEF Has, CallType
            <4>2. IsSet(s)
                BY <1>1, <4>1, UsedFacts DEF BitmapIsExact
            <4>3. QED
                BY <1>1, <1>5, <1>7, <4>1, <4>2 DEF SlotsKept
        <3>3. QED
            BY <3>1, <3>2
    <2>2. QED
        BY <2>1 DEF SlotsKept
<1>16. SlotsHanded'
    BY <1>1, <1>5, <1>11 DEF SlotsHanded
<1>17. SparesAhead'
    <2>1. ASSUME NEW u \in Thread, pc'[u] \in {"scan", "take"}, NEW s \in spare'[u]
          PROVE  SeemsFree(u, s)' /\ s \div Bits >= word'[u]
        <3>1. u # t
            BY <1>1, <1>4, <2>1 DEF CallType
        <3>2. /\ pc[u] \in {"scan", "take"} /\ word'[u] = word[u]
              /\ s \in spare[u] /\ s # r /\ s \in Slot
            BY <1>1, <1>4, <2>1, <3>1 DEF CallType
        <3>3. SeemsFree(u, s) /\ s \div Bits >= word[u]
            BY <1>1, <3>2 DEF SparesAhead
        <3>4. ~IsSet(s)
            BY <1>1, <3>2, <3>3, SeemsFreeIs
        <3>5. QED
            BY <1>5, <1>7, <3>2, <3>3, <3>4
    <2>2. QED
        BY <2>1 DEF SparesAhead
<1>18. QED
    BY <1>3, <1>4, <1>6, <1>8, <1>10, <1>11, <1>12, <1>13, <1>14, <1>15, <1>16, <1>17
       DEF IInv, r
LEMMA TakeInv ==
    ASSUME IInv, NEW t \in Thread, Take(t)
    PROVE  /\ IInv'
           /\ \/ Used' = Used /\ given' = given
              \/ \E s \in Slot \ Used :
                    /\ Used' = Used \union {s}
                    /\ given' = [given EXCEPT ![t] = s]
<1>1. pc[t] = "take" /\ UNCHANGED <<freeing, calls, raced>>
    BY DEF Take
<1>2. CASE /\ Memory!SwapSucceeds(t, WORD(word[t]), old[t], TakenWord(t))
           /\ Give(t, TakenSlot(t))
    BY <1>1, <1>2, TakeSucceedsInv
<1>3. CASE /\ Memory!SwapFails(t, WORD(word[t]), old[t])
           /\ Goto(t, "scan")
           /\ UNCHANGED <<locals, holder, given, spare>>
    <2>1. /\ MemoryOK /\ CallType /\ CallOK(t) /\ SparesAhead
          /\ pc' = [pc EXCEPT ![t] = "scan"]
          /\ UNCHANGED <<word, bit, old>>
        BY <1>3 DEF IInv, Goto, locals
    <2>2. WORD(word[t]) \in Location
        BY <1>1, <2>1, BitmapAssumption, LocationFacts DEF CallOK, CallType
    <2>3. MemoryOK' /\ ViewsGrow /\ history' = history
        BY <1>3, <2>1, <2>2, SwapFailsMemory
    <2>4. CallType' /\ CallOK(t)'
        BY <1>1, <1>3, <2>1 DEF CallType, CallOK
    <2>5. SparesOf(t)'
        <3>1. \A s \in spare[t] : SeemsFree(t, s)' /\ s \div Bits >= word[t]
            BY <1>1, <2>1, <2>3, QuietMemory DEF SparesAhead, CallType
        <3>2. QED
            BY <1>3, <2>1, <3>1 DEF SparesOf
    <2>6. OthersUnchanged(t) /\ \A u \in Thread \ {t} : spare'[u] = spare[u]
        BY <1>1, <1>3, <2>1 DEF OthersUnchanged, CallType
    <2>7. QED
        BY <1>1, <1>3, <2>1, <2>3, <2>4, <2>5, <2>6, QuietStep
<1>4. QED
    BY <1>2, <1>3 DEF Take

LEMMA UseInv ==
    ASSUME IInv, NEW t \in Thread, Use(t)
    PROVE  IInv' /\ Used' = Used
<1>1. /\ MemoryOK /\ CallType /\ FreedOnce /\ BitmapIsExact /\ SlotsKept
      /\ SlotsHanded /\ SparesAhead /\ \A u \in Thread : CallOK(u)
      /\ raced = FALSE
    BY DEF IInv
<1>2. /\ pc[t] = "use" /\ pc' = [pc EXCEPT ![t] = "idle"]
      /\ UNCHANGED <<word, bit, old, holder, freeing, given, spare, calls>>
    BY DEF Use, Goto, locals
<1>3. PICK r \in Slot : r = given[t]
    BY <1>1, <1>2 DEF CallOK
<1>4. Memory!Access(t, CONTENTS(r), {})
    BY <1>3 DEF Use
<1>5. raced' = (raced \/ ~Memory!Ordered(t, CONTENTS(r)))
    BY <1>3 DEF Use
<1>6. r \in Slot /\ Has(t, r) /\ Kept(t, r)
    BY <1>1, <1>2, <1>3 DEF CallOK, Has, SlotsKept
<1>7. \A h \in Thread : Has(h, r) => h = t
    BY <1>1, <1>2, <1>6, SentinelFacts DEF Has, CallOK, CallType
<1>8. r \in Used
    BY <1>1, <1>6, UsedFacts
<1>9. ASSUME NEW h \in Thread, NEW s \in Slot
      PROVE  /\ MemoryOK'
             /\ IsSet(s)' <=> IsSet(s)
             /\ SeemsFree(h, s) => SeemsFree(h, s)'
             /\ s # r => (Kept(h, s) => Kept(h, s)') /\ (Handed(s) => Handed(s)')
             /\ Kept(t, r) => Kept(t, r)'
    BY <1>1, <1>4, AccessSlots
<1>10. Used' = Used
    BY <1>2 DEF Used
<1>11. raced' = FALSE
    BY <1>1, <1>6, <1>5 DEF Kept
<1>12. CallType' /\ FreedOnce'
    BY <1>1, <1>2 DEF CallType, FreedOnce
<1>13. \A u \in Thread : CallOK(u)'
    BY <1>1, <1>2 DEF CallOK, CallType
<1>14. BitmapIsExact'
    BY <1>1, <1>6, <1>9, <1>10 DEF BitmapIsExact
<1>15. SlotsKept'
    <2>1. ASSUME NEW h \in Thread, NEW s \in Slot, Has(h, s)' PROVE Kept(h, s)'
        <3>1. Has(h, s)
            BY <1>2, <2>1 DEF Has
        <3>2. CASE s = r
            BY <1>6, <1>7, <1>9, <3>1, <3>2
        <3>3. CASE s # r
            BY <1>1, <1>9, <3>1, <3>3 DEF SlotsKept
        <3>4. QED
            BY <3>2, <3>3
    <2>2. QED
        BY <2>1 DEF SlotsKept
<1>16. SlotsHanded'
    BY <1>1, <1>6, <1>8, <1>9, <1>10 DEF SlotsHanded
<1>17. SparesAhead'
    <2>1. ASSUME NEW u \in Thread, pc'[u] \in {"scan", "take"}, NEW s \in spare'[u]
          PROVE  SeemsFree(u, s)' /\ s \div Bits >= word'[u]
        <3>1. /\ pc[u] \in {"scan", "take"} /\ word'[u] = word[u]
              /\ s \in spare[u] /\ s \in Slot
            BY <1>1, <1>2, <2>1 DEF CallType
        <3>2. QED
            BY <1>1, <1>9, <3>1 DEF SparesAhead
    <2>2. QED
        BY <2>1 DEF SparesAhead
<1>18. QED
    BY <1>6, <1>9, <1>10, <1>11, <1>12, <1>13, <1>14, <1>15, <1>16, <1>17 DEF IInv

LEMMA FreeInv ==
    ASSUME IndexFits, IInv, NEW t \in Thread, NEW r \in Slot, Free(t, r)
    PROVE  IInv' /\ Used' = Used
<1>1. /\ MemoryOK /\ CallType /\ FreedOnce /\ BitmapIsExact /\ SlotsKept
      /\ SlotsHanded /\ SparesAhead /\ \A u \in Thread : CallOK(u)
      /\ raced = FALSE
    BY DEF IInv
<1> DEFINE u == holder[r]
<1>2. r % IndexRange = r
    BY BitmapAssumption, SMT DEF IndexFits, Slot
<1>3. /\ pc[t] = "idle" /\ calls[t] < MaxCalls
      /\ calls' = [calls EXCEPT ![t] = @ + 1] /\ given' = [given EXCEPT ![t] = NoSlot]
      /\ u # Nobody /\ pc[u] # "use" /\ Memory!Told(t, u)
      /\ holder' = [holder EXCEPT ![r] = Nobody] /\ freeing' = [freeing EXCEPT ![t] = r]
      /\ word' = [word EXCEPT ![t] = r \div Bits] /\ bit' = [bit EXCEPT ![t] = r % Bits]
      /\ pc' = [pc EXCEPT ![t] = "clear_load"] /\ UNCHANGED <<old, spare, raced>>
    BY <1>2 DEF Free, Call, Goto, Set
<1>4. /\ u \in Thread /\ Has(u, r) /\ Kept(u, r) /\ r \in Used
      /\ \A h \in Thread : freeing[h] # r
    <2>1. u \in Thread /\ Has(u, r)
        BY <1>1, <1>3 DEF CallType, Has
    <2>2. QED
        BY <1>1, <1>3, <2>1, UsedFacts, SentinelFacts DEF SlotsKept, CallOK
<1>5. freeing[t] = NoSlot
    BY <1>1, <1>3 DEF CallOK
<1> HIDE DEF u
<1>6. /\ MemoryOK' /\ ViewsGrow /\ history' = history
      /\ \A l \in Location : current[u][l] <= current'[t][l]
    BY <1>1, <1>3, <1>4, ToldMemory
<1>7. r \div Bits \in 0 .. Words - 1 /\ r % Bits \in Bit
    BY SlotFacts
<1>8. CallType'
    <2>1. calls' \in [Thread -> 0 .. MaxCalls]
        BY <1>1, <1>3, BitmapAssumption DEF CallType
    <2>2. word' \in [Thread -> 0 .. Words] /\ bit' \in [Thread -> Bit]
        BY <1>1, <1>3, <1>7, BitmapAssumption DEF CallType
    <2>3. QED
        BY <1>1, <1>3, <2>1, <2>2 DEF CallType
<1>9. Used' = Used
    <2>1. \A s \in Slot : s \in Used' <=> s \in Used
        BY <1>1, <1>3, <1>4, <1>5, SentinelFacts DEF Used, CallType
    <2>2. Used \subseteq Slot /\ Used' \subseteq Slot
        BY <1>1, <1>8 DEF Used, CallType
    <2>3. QED
        BY <2>1, <2>2
<1>10. ASSUME NEW h \in Thread PROVE CallOK(h)'
    <2>1. CASE h = t
        BY <1>1, <1>3, <2>1, SentinelFacts DEF CallOK, CallType
    <2>2. CASE h # t
        <3>1. /\ pc'[h] = pc[h] /\ word'[h] = word[h] /\ bit'[h] = bit[h]
              /\ old'[h] = old[h] /\ given'[h] = given[h] /\ freeing'[h] = freeing[h]
            BY <1>1, <1>3, <2>2 DEF CallType
        <3>2. /\ pc[h] = "use" => holder'[given[h]] = h
              /\ freeing[h] # NoSlot => holder'[freeing[h]] = Nobody
            BY <1>1, <1>3, <1>4 DEF CallOK, CallType, u
        <3>3. QED
            BY <1>1, <3>1, <3>2 DEF CallOK
    <2>3. QED
        BY <2>1, <2>2
<1>11. FreedOnce'
    BY <1>1, <1>3, <1>4 DEF FreedOnce, CallType
<1>12. BitmapIsExact'
    <2>1. ASSUME NEW s \in Slot PROVE IsSet(s)' <=> IsSet(s)
        BY <1>1, <1>6, QuietMemory
    <2>2. QED
        BY <1>1, <1>9, <2>1 DEF BitmapIsExact
<1>13. Kept(t, r)'
    <2>1. WORD(r \div Bits) \in Location /\ CONTENTS(r) \in Location
        BY SlotFacts
    <2>2. Memory!Readable(t, WORD(r \div Bits))' \subseteq Memory!Readable(u, WORD(r \div Bits))
        <3>1. /\ current[u][WORD(r \div Bits)] <= current'[t][WORD(r \div Bits)]
              /\ current[u][WORD(r \div Bits)] \in Nat
              /\ current'[t][WORD(r \div Bits)] \in Nat
              /\ Len(history[WORD(r \div Bits)]) \in Nat
            BY <1>1, <1>4, <1>6, <2>1, MemoryFacts, MemoryFactsNext
        <3>2. QED
            BY <1>6, <3>1 DEF Memory!Readable
    <2>3. /\ current[u][CONTENTS(r)] <= current'[t][CONTENTS(r)]
          /\ current'[t][CONTENTS(r)] \in 1 .. Len(history'[CONTENTS(r)])
          /\ Len(history[CONTENTS(r)]) \in Nat
        BY <1>1, <1>6, <2>1, MemoryFacts, MemoryFactsNext
    <2>4. Memory!Ordered(t, CONTENTS(r))'
        BY <1>4, <1>6, <2>3 DEF Kept, Memory!Ordered
    <2>5. QED
        BY <1>4, <1>6, <2>2, <2>4 DEF Kept, Memory!Value
<1>14. SlotsKept'
    <2>1. ASSUME NEW h \in Thread, NEW s \in Slot, Has(h, s)' PROVE Kept(h, s)'
        <3>1. CASE s = r /\ h = t
            BY <1>13, <3>1
        <3>2. CASE s = r /\ h # t
            BY <1>1, <1>3, <1>4, <2>1, <3>2, SentinelFacts DEF Has, CallType
        <3>3. CASE s # r
            <4>1. Has(h, s)
                BY <1>1, <1>3, <2>1, <3>3 DEF Has, CallType
            <4>2. QED
                BY <1>1, <1>6, <4>1, QuietMemory DEF SlotsKept
        <3>4. QED
            BY <3>1, <3>2, <3>3
    <2>2. QED
        BY <2>1 DEF SlotsKept
<1>15. SlotsHanded'
    <2>1. ASSUME NEW s \in Slot \ Used PROVE Handed(s)'
        BY <1>1, <1>6, QuietMemory DEF SlotsHanded
    <2>2. QED
        BY <1>9, <2>1 DEF SlotsHanded
<1>16. SparesAhead'
    <2>1. ASSUME NEW h \in Thread, pc'[h] \in {"scan", "take"}, NEW s \in spare'[h]
          PROVE  SeemsFree(h, s)' /\ s \div Bits >= word'[h]
        <3>1. /\ pc[h] \in {"scan", "take"} /\ word'[h] = word[h]
              /\ s \in spare[h] /\ s \in Slot
            BY <1>1, <1>3, <2>1 DEF CallType
        <3>2. SeemsFree(h, s) /\ s \div Bits >= word[h]
            BY <1>1, <3>1 DEF SparesAhead
        <3>3. QED
            BY <1>1, <1>6, <3>1, <3>2, QuietMemory
    <2>2. QED
        BY <2>1 DEF SparesAhead
<1>17. QED
    BY <1>1, <1>3, <1>6, <1>8, <1>9, <1>10, <1>11, <1>12, <1>14, <1>15, <1>16 DEF IInv
\* The bit of the slot that t is freeing is cleared, and no other.
LEMMA ClearSucceedsInv ==
    ASSUME IInv, NEW t \in Thread, pc[t] = "clear",
           Memory!SwapSucceeds(t, WORD(word[t]), old[t], ClearedWord(t)),
           Freed(t), UNCHANGED <<holder, given, spare, calls, raced>>
    PROVE  IInv' /\ \E s \in Used : Used' = Used \ {s}
<1>1. /\ MemoryOK /\ CallType /\ FreedOnce /\ BitmapIsExact /\ SlotsKept
      /\ SlotsHanded /\ SparesAhead /\ \A u \in Thread : CallOK(u)
      /\ raced = FALSE
    BY DEF IInv
<1>2. PICK r \in Slot : r = freeing[t]
    BY <1>1 DEF CallOK, CallType
<1>3. PICK k \in 0 .. Words - 1 : k = word[t] /\ k = r \div Bits
    BY <1>1, <1>2, SlotFacts DEF CallOK
<1>4. PICK y \in SUBSET Bit : y = old[t] \ {r % Bits} /\ y = ClearedWord(t)
    BY <1>1, <1>2 DEF CallOK, CallType, ClearedWord
<1>5. /\ freeing' = [freeing EXCEPT ![t] = NoSlot]
      /\ pc' = [pc EXCEPT ![t] = "idle"] /\ word' = [word EXCEPT ![t] = 0]
      /\ bit' = [bit EXCEPT ![t] = 0] /\ old' = [old EXCEPT ![t] = {}]
    BY DEF Freed, Done, Set, Goto
<1>6. ASSUME NEW h \in Thread, NEW s \in Slot
      PROVE  /\ MemoryOK'
             /\ s \div Bits # k => (IsSet(s)' <=> IsSet(s))
             /\ s \div Bits = k => (IsSet(s) <=> s % Bits \in old[t])
             /\ s \div Bits = k => (IsSet(s)' <=> s % Bits \in y)
             /\ Kept(h, s) /\ IsSet(s)' => Kept(h, s)'
             /\ SeemsFree(h, s) /\ ~IsSet(s)' => SeemsFree(h, s)'
             /\ Handed(s) => Handed(s)'
             /\ s \div Bits = k /\ Kept(t, s) => Handed(s)'
    BY <1>1, <1>3, <1>4, SwapSlots
<1>7. ASSUME NEW s \in Slot PROVE IsSet(s)' <=> IsSet(s) /\ s # r
    <2>1. CASE s \div Bits # k
        BY <1>3, <1>6, <2>1
    <2>2. CASE s \div Bits = k
        <3>1. s % Bits = r % Bits <=> s = r
            BY <1>3, <2>2, SlotFacts
        <3>2. QED
            BY <1>4, <1>6, <2>2, <3>1
    <2>3. QED
        BY <2>1, <2>2
<1>8. /\ r \in Used /\ holder[r] = Nobody
      /\ \A h \in Thread : Has(h, r) => h = t
    BY <1>1, <1>2, UsedFacts, SentinelFacts DEF Has, CallOK, FreedOnce
<1>9. CallType'
    BY <1>1, <1>5, BitmapAssumption DEF CallType, Bit
<1>10. ASSUME NEW h \in Thread, NEW s \in Slot, Has(h, s)'
       PROVE  Has(h, s) /\ s # r
    BY <1>1, <1>2, <1>5, <1>8, <1>10, SentinelFacts DEF Has, CallType, FreedOnce
<1>11. Used' = Used \ {r}
    <2>1. ASSUME NEW s \in Slot PROVE s \in Used' <=> s \in Used \ {r}
        <3>1. ASSUME NEW h \in Thread, Has(h, s), s # r PROVE Has(h, s)'
            BY <1>1, <1>2, <1>5, <3>1 DEF Has, CallType
        <3>2. s \in Used' <=> \E h \in Thread : Has(h, s)'
            BY <1>9, UsedFactsNext
        <3>3. QED
            BY <1>1, <1>10, <3>1, <3>2, UsedFacts
    <2>2. Used \subseteq Slot /\ Used' \subseteq Slot
        BY <1>1, <1>9 DEF Used, CallType
    <2>3. QED
        BY <2>1, <2>2
<1>12. ASSUME NEW u \in Thread PROVE CallOK(u)'
    <2>1. CASE u = t
        BY <1>1, <1>5, <2>1 DEF CallOK, CallType
    <2>2. CASE u # t
        BY <1>1, <1>5, <2>2 DEF CallOK, CallType
    <2>3. QED
        BY <2>1, <2>2
<1>13. FreedOnce'
    BY <1>1, <1>5 DEF FreedOnce, CallType
<1>14. BitmapIsExact'
    BY <1>1, <1>7, <1>11 DEF BitmapIsExact
<1>15. SlotsKept'
    <2>1. ASSUME NEW h \in Thread, NEW s \in Slot, Has(h, s)' PROVE Kept(h, s)'
        <3>1. Has(h, s) /\ s # r
            BY <1>10, <2>1
        <3>2. IsSet(s)
            BY <1>1, <3>1, UsedFacts DEF BitmapIsExact
        <3>3. QED
            BY <1>1, <1>6, <1>7, <3>1, <3>2 DEF SlotsKept
    <2>2. QED
        BY <2>1 DEF SlotsKept
<1>16. SlotsHanded'
    <2>1. Kept(t, r)
        BY <1>1, <1>2 DEF SlotsKept, Has
    <2>2. QED
        BY <1>1, <1>3, <1>6, <1>11, <2>1 DEF SlotsHanded
<1>17. SparesAhead'
    <2>1. ASSUME NEW u \in Thread, pc'[u] \in {"scan", "take"}, NEW s \in spare'[u]
          PROVE  SeemsFree(u, s)' /\ s \div Bits >= word'[u]
        <3>1. /\ pc[u] \in {"scan", "take"} /\ word'[u] = word[u]
              /\ s \in spare[u] /\ s \in Slot
            BY <1>1, <1>5, <2>1 DEF CallType
        <3>2. SeemsFree(u, s) /\ s \div Bits >= word[u]
            BY <1>1, <3>1 DEF SparesAhead
        <3>3. ~IsSet(s)
            BY <1>1, <3>1, <3>2, SeemsFreeIs
        <3>4. QED
            BY <1>6, <1>7, <3>1, <3>2, <3>3
    <2>2. QED
        BY <2>1 DEF SparesAhead
<1>18. raced' = FALSE
    BY <1>1
<1>19. MemoryOK'
    BY <1>2, <1>6
<1>20. QED
    BY <1>8, <1>9, <1>11, <1>12, <1>13, <1>14, <1>15, <1>16, <1>17, <1>18, <1>19 DEF IInv

LEMMA ClearInv ==
    ASSUME IInv, NEW t \in Thread, Clear(t)
    PROVE  IInv' /\ given' = given /\ (Used' = Used \/ \E s \in Used : Used' = Used \ {s})
<1>1. pc[t] = "clear" /\ UNCHANGED <<holder, given, spare, calls, raced>>
    BY DEF Clear
<1>2. CASE /\ Memory!SwapSucceeds(t, WORD(word[t]), old[t], ClearedWord(t))
           /\ Freed(t)
    BY <1>1, <1>2, ClearSucceedsInv
<1>3. CASE /\ Memory!SwapFails(t, WORD(word[t]), old[t])
           /\ Goto(t, "clear_load")
           /\ UNCHANGED <<locals, freeing>>
    <2>1. /\ MemoryOK /\ CallType /\ CallOK(t)
          /\ pc' = [pc EXCEPT ![t] = "clear_load"]
          /\ UNCHANGED <<word, bit, old>>
        BY <1>3 DEF IInv, Goto, locals
    <2>2. WORD(word[t]) \in Location
        BY <1>1, <2>1, SlotFacts DEF CallOK, CallType
    <2>3. MemoryOK' /\ ViewsGrow /\ history' = history
        BY <1>3, <2>1, <2>2, SwapFailsMemory
    <2>4. CallType' /\ CallOK(t)' /\ SparesOf(t)'
        BY <1>1, <1>3, <2>1 DEF CallType, CallOK, SparesOf
    <2>5. OthersUnchanged(t) /\ \A u \in Thread \ {t} : spare'[u] = spare[u]
        BY <1>1, <1>3, <2>1 DEF OthersUnchanged, CallType
    <2>6. QED
        BY <1>1, <1>3, <2>1, <2>3, <2>4, <2>5, QuietStep
<1>4. QED
    BY <1>2, <1>3 DEF Clear

LEMMA StutterInv ==
    ASSUME IInv, UNCHANGED vars
    PROVE  IInv' /\ Used' = Used
<1>1. /\ MemoryOK /\ UNCHANGED memory /\ UNCHANGED <<pc, word, bit, old, holder, freeing>>
      /\ UNCHANGED <<given, spare, calls, raced>>
    BY DEF IInv, vars, locals
<1>2. MemoryOK' /\ history' = history /\ current' = current
    BY <1>1, SameMemory DEF memory
<1>3. Used' = Used
    BY <1>1 DEF Used
<1>4. CallType' /\ FreedOnce' /\ raced' = FALSE /\ \A u \in Thread : CallOK(u)'
    BY <1>1 DEF IInv, CallType, FreedOnce, CallOK
<1>5. BitmapIsExact' /\ SlotsHanded'
    BY <1>2, <1>3 DEF IInv, BitmapIsExact, SlotsHanded, IsSet, Handed, LatestMessage,
                      Memory!Latest
<1>6. SlotsKept' /\ SparesAhead'
    BY <1>1, <1>2 DEF IInv, SlotsKept, Kept, Has, SparesAhead, SeemsFree,
                      Memory!Readable, Memory!Value, Memory!Ordered
<1>7. QED
    BY <1>2, <1>3, <1>4, <1>5, <1>6 DEF IInv

LEMMA InitInv ==
    ASSUME Init
    PROVE  IInv /\ Used = {}
<1>1. /\ Memory!MemoryInit([l \in Location |-> {}])
      /\ pc = [t \in Thread |-> "idle"] /\ word = [t \in Thread |-> 0]
      /\ bit = [t \in Thread |-> 0] /\ old = [t \in Thread |-> {}]
      /\ holder = [s \in Slot |-> Nobody] /\ freeing = [t \in Thread |-> NoSlot]
      /\ given = [t \in Thread |-> NoSlot] /\ spare = [t \in Thread |-> {}]
      /\ calls = [t \in Thread |-> 0] /\ raced = FALSE
    BY DEF Init
<1>2. MemoryOK /\ \A l \in Location : Memory!Latest(l) = {} /\ Len(history[l]) = 1
    BY <1>1, InitMemory
<1>3. Used = {}
    BY <1>1 DEF Used
<1>4. CallType
    BY <1>1, BitmapAssumption DEF CallType, Bit
<1>5. /\ \A t \in Thread : CallOK(t)
      /\ FreedOnce /\ SparesAhead
    BY <1>1 DEF CallOK, FreedOnce, SparesAhead
<1>6. \A s \in Slot : ~IsSet(s)
    BY <1>2, SlotFacts DEF IsSet
<1>7. BitmapIsExact
    BY <1>3, <1>6 DEF BitmapIsExact
<1>8. SlotsKept
    BY <1>1, SentinelFacts DEF SlotsKept, Has
<1>9. SlotsHanded
    <2>1. ASSUME NEW s \in Slot PROVE Handed(s)
        <3>1. LatestMessage(WORD(s \div Bits)).view[CONTENTS(s)] \in 1 .. Len(history[CONTENTS(s)])
            BY <1>2, SlotFacts, MemoryFacts
        <3>2. Len(history[CONTENTS(s)]) = 1
            BY <1>2, SlotFacts
        <3>3. QED
            BY <3>1, <3>2 DEF Handed
    <2>2. QED
        BY <2>1 DEF SlotsHanded
<1>10. QED
    BY <1>1, <1>2, <1>3, <1>4, <1>5, <1>7, <1>8, <1>9 DEF IInv
\* Every step keeps the invariant, and is one of the pool's or none of its business.
LEMMA NextInv ==
    ASSUME IndexFits, IInv, [Next]_vars
    PROVE  IInv' /\ [Pool!Next]_(Pool!vars)
<1>1. given \in [Thread -> Slot \union {NoSlot}] /\ Used \subseteq Slot
    BY DEF IInv, CallType, Used
<1>2. ASSUME NEW t \in Thread, Alloc(t) PROVE IInv' /\ Pool!Next
    <2>1. Used' = Used /\ given' = [given EXCEPT ![t] = NoSlot]
        BY <1>2, AllocInv DEF Alloc, Call, Set
    <2>2. QED
        BY <1>2, <2>1, AllocInv DEF Pool!Next, Pool!Call
<1>3. ASSUME NEW t \in Thread, Scan(t) \/ OutOfMemory(t) \/ ClearLoad(t) \/ Use(t)
      PROVE  IInv' /\ UNCHANGED Pool!vars
    <2>1. IInv' /\ Used' = Used
        BY <1>3, ScanInv, OutOfMemoryInv, ClearLoadInv, UseInv
    <2>2. given' = given
        BY <1>3 DEF Scan, OutOfMemory, ClearLoad, Use
    <2>3. QED
        BY <2>1, <2>2 DEF Pool!vars
<1>4. ASSUME NEW t \in Thread, Take(t) PROVE IInv' /\ [Pool!Next]_(Pool!vars)
    <2>1. CASE Used' = Used /\ given' = given
        BY <1>4, <2>1, TakeInv DEF Pool!vars
    <2>2. CASE \E s \in Slot \ Used :
                    /\ Used' = Used \union {s}
                    /\ given' = [given EXCEPT ![t] = s]
        BY <1>4, <2>2, TakeInv DEF Pool!Next, Pool!Allocate
    <2>3. QED
        BY <1>4, <2>1, <2>2, TakeInv
<1>5. ASSUME NEW t \in Thread, Clear(t) PROVE IInv' /\ [Pool!Next]_(Pool!vars)
    <2>1. CASE Used' = Used
        BY <1>5, <2>1, ClearInv DEF Pool!vars
    <2>2. CASE \E s \in Used : Used' = Used \ {s}
        BY <1>1, <1>5, <2>2, ClearInv DEF Pool!Next, Pool!Free
    <2>3. QED
        BY <1>5, <2>1, <2>2, ClearInv
<1>6. ASSUME NEW t \in Thread, NEW s \in Slot, Free(t, s) PROVE IInv' /\ Pool!Next
    <2>1. Used' = Used /\ given' = [given EXCEPT ![t] = NoSlot]
        BY <1>6, FreeInv DEF Free, Call, Set
    <2>2. QED
        BY <1>6, <2>1, FreeInv DEF Pool!Next, Pool!Call
<1>7. CASE UNCHANGED vars
    BY <1>7, StutterInv DEF vars, Pool!vars
<1>8. QED
    BY <1>2, <1>3, <1>4, <1>5, <1>6, <1>7 DEF Next, Step

-----------------------------------------------------------------------------
(* The theorems                                                            *)

LEMMA Invariance ==
    ASSUME IndexFits
    PROVE  Spec => []IInv
<1>1. Init => IInv
    BY InitInv
<1>2. IInv /\ [Next]_vars => IInv'
    BY NextInv
<1>3. QED
    BY <1>1, <1>2, PTL DEF Spec

\* The variables keep their types, the memory its form: no thread comes to know
\* of more than was stored, and every word is a set of bits.
THEOREM TypeCorrect ==
    ASSUME IndexFits
    PROVE  Spec => []TypeOK
<1>1. IInv => TypeOK
    <2> SUFFICES ASSUME IInv PROVE TypeOK
        OBVIOUS
    <2>1. /\ Memory!MemoryTypeOK
          /\ \A l \in Location : \A i \in 1 .. Len(history[l]) : Memory!Value(l, i) \in SUBSET Bit
        BY MemoryFacts DEF IInv
    <2>2. \A i \in 0 .. Words - 1 : \A v \in 1 .. Len(history[WORD(i)]) :
            Memory!Value(WORD(i), v) \subseteq Bit
        BY <2>1, LocationFacts
    <2>3. QED
        BY <2>1, <2>2 DEF IInv, CallType, TypeOK
<1>2. QED
    BY <1>1, Invariance, PTL

\* Whatever the threads do to a word at once, c89atomic_bitmap_allocator_alloc
\* and _free change no bit but that of their own slot, and lose no change.
THEOREM BitmapExact ==
    ASSUME IndexFits
    PROVE  Spec => []BitmapIsExact
<1>1. IInv => BitmapIsExact
    BY DEF IInv
<1>2. QED
    BY <1>1, Invariance, PTL

\* The assert of c89atomic_bitmap_allocator_free never fails, though the word
\* that its loop loads may be an old one.
THEOREM NoSlotFreedTwice ==
    ASSUME IndexFits
    PROVE  Spec => []NoDoubleFree
<1>1. IInv => NoDoubleFree
    BY DEF IInv, CallOK, NoDoubleFree
<1>2. QED
    BY <1>1, Invariance, PTL

\* c89atomic_bitmap_allocator_alloc passes no slot that its thread knows to be
\* free, and that nobody takes.
THEOREM OutOfMemoryOnlyIfFull ==
    ASSUME IndexFits
    PROVE  Spec => []NoFalseOutOfMemory
<1>1. IInv => NoFalseOutOfMemory
    BY DEF IInv, SparesAhead, NoFalseOutOfMemory
<1>2. QED
    BY <1>1, Invariance, PTL

\* The orders of the compare_exchanges are enough for the contents of a slot to
\* go from who frees it to who is given it next.
THEOREM ContentsAreHandedOver ==
    ASSUME IndexFits
    PROVE  Spec => []ContentsHandedOver
<1>1. IInv => ContentsHandedOver
    BY DEF IInv, ContentsHandedOver
<1>2. QED
    BY <1>1, Invariance, PTL

\* The allocator is a pool: alloc takes effect where its compare_exchange does,
\* and so does free.
THEOREM AllocatorIsPool ==
    ASSUME IndexFits
    PROVE  Spec => ImplementsPool
<1>1. Init => Pool!Init
    BY InitInv DEF Init, Pool!Init
<1>2. IInv /\ [Next]_vars => [Pool!Next]_(Pool!vars)
    BY NextInv
<1>3. QED
    BY <1>1, <1>2, Invariance, PTL DEF Spec, ImplementsPool, Pool!Spec
=============================================================================
