-------------------------- MODULE BitmapAllocator ---------------------------
(***************************************************************************)
(* extras/c89atomic_bitmap_allocator.c: threads allocate and free slots,   *)
(* each a bit in one of the words of a bitmap, by compare_exchange of the  *)
(* whole word. A word is the set of its bits that are set, bit 0 being the *)
(* most significant one, which alloc prefers. The words are objects of     *)
(* C11Memory: a relaxed load may find an old one. The contents of a slot   *)
(* belong to whoever has it, who accesses them plainly.                    *)
(***************************************************************************)
EXTENDS Integers, Sequences, FiniteSetsExt

CONSTANTS
    Thread, NoSlot, Nobody,
    Bits,           \* in a word: 32 in the code
    Words,          \* sizeInWords
    IndexRange,     \* 2^32: the range to which free truncates an index
    MaxCalls        \* how many calls each thread makes

ASSUME BitmapAssumption ==
    /\ Bits \in Nat \ {0} /\ Words \in Nat /\ IndexRange \in Nat \ {0}
    /\ MaxCalls \in Nat
    /\ Nobody \notin Thread /\ NoSlot \notin 0 .. Words * Bits - 1

VARIABLES
    history, current, acquired, released, order,    \* see C11Memory
    pc,
    word,       \* i of alloc, wordIndex of free
    bit,        \* bitIndex
    old,        \* oldWord
    holder,     \* who has each slot, and has not begun to free it
    freeing,    \* the slot that each thread is freeing
    given,      \* what the last call of each thread returned: a slot, if alloc
    spare,      \* the slots that a thread's call could not but find free so far
    calls,      \* how many calls each thread has made
    raced       \* two accesses to the contents of a slot were not ordered

Bit == 0 .. Bits - 1

Slot == 0 .. Words * Bits - 1

WORD(i) == <<"word", i>>

CONTENTS(s) == <<"slot", s>>

Location == {WORD(i) : i \in 0 .. Words - 1} \union {CONTENTS(s) : s \in Slot}

Memory == INSTANCE C11Memory

memory == <<history, current, acquired, released, order>>

locals == <<word, bit, old>>

vars == <<memory, pc, locals, holder, freeing, given, spare, calls, raced>>

IsSet(s) == s % Bits \in Memory!Latest(WORD(s \div Bits))

\* The bit of s is clear in every version of its word that t may still find.
SeemsFree(t, s) ==
    \A i \in Memory!Readable(t, WORD(s \div Bits)) :
        s % Bits \notin Memory!Value(WORD(s \div Bits), i)

Goto(t, l) == pc' = [pc EXCEPT ![t] = l]

Set(f, t, v) == [f EXCEPT ![t] = v]

\* A call returns, its locals forgotten.
Done(t) ==
    /\ Goto(t, "idle")
    /\ word' = Set(word, t, 0)
    /\ bit' = Set(bit, t, 0)
    /\ old' = Set(old, t, {})

Call(t) ==
    /\ pc[t] = "idle"
    /\ calls[t] < MaxCalls
    /\ calls' = [calls EXCEPT ![t] = @ + 1]
    /\ given' = Set(given, t, NoSlot)

\* c89atomic_bitmap_allocator_init
Init ==
    /\ Memory!MemoryInit([l \in Location |-> {}])
    /\ pc = [t \in Thread |-> "idle"]
    /\ word = [t \in Thread |-> 0]
    /\ bit = [t \in Thread |-> 0]
    /\ old = [t \in Thread |-> {}]
    /\ holder = [s \in Slot |-> Nobody]
    /\ freeing = [t \in Thread |-> NoSlot]
    /\ given = [t \in Thread |-> NoSlot]
    /\ spare = [t \in Thread |-> {}]
    /\ calls = [t \in Thread |-> 0]
    /\ raced = FALSE

-----------------------------------------------------------------------------
(* alloc                                                                   *)

Alloc(t) ==
    /\ Call(t)
    /\ Goto(t, "scan")
    /\ spare' = Set(spare, t, {s \in Slot : SeemsFree(t, s)})
    /\ UNCHANGED <<memory, locals, holder, freeing, raced>>

\* Loads a word, and finds a clear bit in it or goes on to the next.
Scan(t) ==
    /\ pc[t] = "scan"
    /\ word[t] < Words
    /\ \E i \in Memory!Readable(t, WORD(word[t])) :
        LET w == Memory!Value(WORD(word[t]), i) IN
        /\ Memory!LoadRelaxed(t, WORD(word[t]), i)
        /\ \/ /\ w = Bit
              /\ word' = [word EXCEPT ![t] = @ + 1]
              /\ UNCHANGED <<pc, bit, old>>
           \/ /\ w # Bit
              /\ old' = Set(old, t, w)
              /\ bit' = Set(bit, t, Min(Bit \ w))
              /\ Goto(t, "take")
              /\ UNCHANGED word
    /\ UNCHANGED <<holder, freeing, given, spare, calls, raced>>

OutOfMemory(t) ==
    /\ pc[t] = "scan"
    /\ word[t] = Words
    /\ Done(t)
    /\ spare' = Set(spare, t, {})
    /\ UNCHANGED <<memory, holder, freeing, given, calls, raced>>

\* alloc returns the slot s.
Give(t, s) ==
    /\ given' = Set(given, t, s)
    /\ holder' = Set(holder, s, t)
    /\ spare' = [u \in Thread |-> IF u = t THEN {} ELSE spare[u] \ {s}]
    /\ Goto(t, "use")
    /\ word' = Set(word, t, 0)
    /\ bit' = Set(bit, t, 0)
    /\ old' = Set(old, t, {})

TakenSlot(t) == word[t] * Bits + bit[t]

TakenWord(t) == old[t] \union {bit[t]}

\* Mutant of Take: slots are numbered from 1.
TakeOneBased(t) ==
    /\ pc[t] = "take"
    /\ \/ /\ Memory!SwapSucceeds(t, WORD(word[t]), old[t], TakenWord(t))
          /\ Give(t, TakenSlot(t) + 1)
       \/ /\ Memory!SwapFails(t, WORD(word[t]), old[t])
          /\ Goto(t, "scan")
          /\ UNCHANGED <<locals, holder, given, spare>>
    /\ UNCHANGED <<freeing, calls, raced>>

\* Mutant of Take: the word is exchanged without a comparison.
TakeStores(t) ==
    /\ pc[t] = "take"
    /\ Memory!Update(t, WORD(word[t]), TakenWord(t), TRUE, TRUE)
    /\ Give(t, TakenSlot(t))
    /\ UNCHANGED <<freeing, calls, raced>>

\* Mutant of Take: who loses the race goes on to the next word.
TakeNextWord(t) ==
    /\ pc[t] = "take"
    /\ \/ /\ Memory!SwapSucceeds(t, WORD(word[t]), old[t], TakenWord(t))
          /\ Give(t, TakenSlot(t))
       \/ /\ Memory!SwapFails(t, WORD(word[t]), old[t])
          /\ Goto(t, "scan")
          /\ word' = [word EXCEPT ![t] = @ + 1]
          /\ UNCHANGED <<bit, old, holder, given, spare>>
    /\ UNCHANGED <<freeing, calls, raced>>

\* Mutant of Take: compare_exchange has updated oldWord, but not the bit.
TakeSameBit(t) ==
    /\ pc[t] = "take"
    /\ \/ /\ Memory!SwapSucceeds(t, WORD(word[t]), old[t], TakenWord(t))
          /\ Give(t, TakenSlot(t))
       \/ /\ Memory!SwapFails(t, WORD(word[t]), old[t])
          /\ old' = Set(old, t, Memory!Value(WORD(word[t]), current'[t][WORD(word[t])]))
          /\ UNCHANGED <<pc, word, bit, holder, given, spare>>
    /\ UNCHANGED <<freeing, calls, raced>>

\* Mutant of Take: the compare_exchange is tried again with the same words.
TakeRetries(t) ==
    /\ pc[t] = "take"
    /\ \/ /\ Memory!SwapSucceeds(t, WORD(word[t]), old[t], TakenWord(t))
          /\ Give(t, TakenSlot(t))
       \/ /\ Memory!SwapFails(t, WORD(word[t]), old[t])
          /\ UNCHANGED <<pc, locals, holder, given, spare>>
    /\ UNCHANGED <<freeing, calls, raced>>

\* compare_exchange of the word: the bit is ours, or the word is loaded again.
Take(t) ==
    /\ pc[t] = "take"
    /\ \/ /\ Memory!SwapSucceeds(t, WORD(word[t]), old[t], TakenWord(t))
          /\ Give(t, TakenSlot(t))
       \/ /\ Memory!SwapFails(t, WORD(word[t]), old[t])
          /\ Goto(t, "scan")
          /\ UNCHANGED <<locals, holder, given, spare>>
    /\ UNCHANGED <<freeing, calls, raced>>

\* The caller accesses the contents of the slot it was given.
Use(t) ==
    /\ pc[t] = "use"
    /\ Memory!Access(t, CONTENTS(given[t]), {})
    /\ raced' = (raced \/ ~Memory!Ordered(t, CONTENTS(given[t])))
    /\ Goto(t, "idle")
    /\ UNCHANGED <<locals, holder, freeing, given, spare, calls>>

-----------------------------------------------------------------------------
(* free                                                                    *)

\* A caller frees a slot that it was given, or that another thread was, which
\* then has told it so: its index, truncated, gives the word and the bit
\* (within the bitmap: alloc gave it).
Free(t, s) ==
    LET index == s % IndexRange IN
    /\ Call(t)
    /\ holder[s] # Nobody
    /\ pc[holder[s]] # "use"
    /\ Memory!Told(t, holder[s])
    /\ holder' = Set(holder, s, Nobody)
    /\ freeing' = Set(freeing, t, s)
    /\ word' = Set(word, t, index \div Bits)
    /\ bit' = Set(bit, t, index % Bits)
    /\ Goto(t, "clear_load")
    /\ UNCHANGED <<old, spare, raced>>

ClearLoad(t) ==
    /\ pc[t] = "clear_load"
    /\ \E i \in Memory!Readable(t, WORD(word[t])) :
        /\ Memory!LoadRelaxed(t, WORD(word[t]), i)
        /\ old' = Set(old, t, Memory!Value(WORD(word[t]), i))
    /\ Goto(t, "clear")
    /\ UNCHANGED <<word, bit, holder, freeing, given, spare, calls, raced>>

\* free returns.
Freed(t) ==
    /\ freeing' = Set(freeing, t, NoSlot)
    /\ Done(t)

ClearedWord(t) == old[t] \ {bit[t]}

\* Mutant of Clear: the word is exchanged without a comparison.
ClearStores(t) ==
    /\ pc[t] = "clear"
    /\ Memory!Update(t, WORD(word[t]), ClearedWord(t), TRUE, TRUE)
    /\ Freed(t)
    /\ UNCHANGED <<holder, given, spare, calls, raced>>

\* Mutant of Clear: the order is acquire, as that of a lock.
ClearAcquires(t) ==
    /\ pc[t] = "clear"
    /\ \/ /\ Memory!Latest(WORD(word[t])) = old[t]
          /\ Memory!Update(t, WORD(word[t]), ClearedWord(t), TRUE, FALSE)
          /\ Freed(t)
       \/ /\ Memory!SwapFails(t, WORD(word[t]), old[t])
          /\ Goto(t, "clear_load")
          /\ UNCHANGED <<locals, freeing>>
    /\ UNCHANGED <<holder, given, spare, calls, raced>>

Clear(t) ==
    /\ pc[t] = "clear"
    /\ \/ /\ Memory!SwapSucceeds(t, WORD(word[t]), old[t], ClearedWord(t))
          /\ Freed(t)
       \/ /\ Memory!SwapFails(t, WORD(word[t]), old[t])
          /\ Goto(t, "clear_load")
          /\ UNCHANGED <<locals, freeing>>
    /\ UNCHANGED <<holder, given, spare, calls, raced>>

-----------------------------------------------------------------------------
\* A step of a call that is under way.
Step(t) ==
    \/ Scan(t) \/ OutOfMemory(t) \/ Take(t)
    \/ ClearLoad(t) \/ Clear(t)

Next == \E t \in Thread :
    Step(t) \/ Alloc(t) \/ Use(t) \/ \E s \in Slot : Free(t, s)

Spec == Init /\ [][Next]_vars

\* A thread in a call runs again and again.
Fairness == \A t \in Thread : WF_vars(Step(t))

FairSpec == Spec /\ Fairness

-----------------------------------------------------------------------------
\* The slots in use: those somebody has, and those whose free has not yet
\* taken effect.
Used ==
    {s \in Slot : holder[s] # Nobody} \union
    ({freeing[t] : t \in Thread} \ {NoSlot})

Pool == INSTANCE SlotPool WITH used <- Used

InCall(t) == pc[t] \in {"scan", "take", "clear_load", "clear"}

TypeOK ==
    /\ Memory!MemoryTypeOK
    /\ \A i \in 0 .. Words - 1 : \A v \in 1 .. Len(history[WORD(i)]) :
            Memory!Value(WORD(i), v) \subseteq Bit
    /\ pc \in [Thread -> {"idle", "scan", "take", "use", "clear_load", "clear"}]
    /\ word \in [Thread -> 0 .. Words]
    /\ bit \in [Thread -> Bit]
    /\ old \in [Thread -> SUBSET Bit]
    /\ holder \in [Slot -> Thread \union {Nobody}]
    /\ freeing \in [Thread -> Slot \union {NoSlot}]
    /\ given \in [Thread -> Slot \union {NoSlot}]
    /\ spare \in [Thread -> SUBSET Slot]
    /\ calls \in [Thread -> 0 .. MaxCalls]
    /\ raced \in BOOLEAN

\* The bitmap says exactly which slots are in use: no allocation or free of
\* another slot in the same word is ever undone, and nothing leaks.
BitmapIsExact == \A s \in Slot : IsSet(s) <=> s \in Used

\* The assert of free: the bit is set in every word its loop loads, as old as
\* that word may be.
NoDoubleFree ==
    \A t \in Thread : pc[t] = "clear" => bit[t] \in old[t]

\* alloc fails only if no slot was free, as far as its thread could know, from
\* its beginning to its end. (That all were in use at one instant is more than
\* it promises, and so is seeing a free that nothing has told its thread of.)
NoFalseOutOfMemory ==
    \A t \in Thread : pc[t] = "scan" =>
        \A s \in spare[t] : s \div Bits >= word[t]

\* A slot comes with its contents: whoever is given it is ordered after all
\* that was done to them before it was freed.
ContentsHandedOver == ~raced

\* Between being given out and being freed a slot is in use by one caller.
ImplementsPool == Pool!Spec

\* A call is only ever held up by the successes of others, and there are
\* finitely many: every call returns.
CallsReturn == \A t \in Thread : InCall(t) ~> ~InCall(t)
=============================================================================
