# A TLA+ model of c89atomic

c89atomic is one header of atomic operations for C89, for compilers back to
Visual C++ 6 and GCC 2.95, and three lock-free data structures built on it. The
tests beside it call every function from one thread ("Does not test atomicity",
`tests/c89atomic_basic.c:2`), on the one compiler and CPU of whoever runs them.
This project covers what they do not: interleavings, every configuration the
preprocessor distinguishes, the barriers each of them puts in for a memory
order, weak memory under the three data structures, and counters that wrap.

## Inventory

| Part | State | Operations | What is hard | What makes it correct |
|---|---|---|---|---|
| Code path selection (`c89atomic.h` 234-354, 803-897, and the `#if`s of the seven paths) | none: compile time | one mechanism per operation, width, compiler, CPU | about forty hand-written tables that must agree | the operations of one object exclude each other |
| Spinlock and global lock (`c89atomic.h` 769-799, `c89atomic.c`) | one flag | `spinlock_lock`, `spinlock_unlock` | contention, a setter that is not the owner, one lock for everything | mutual exclusion, no lost lock, progress |
| Integer operations (`c89atomic.h` 902-3735) | the caller's objects | load, store, exchange, compare_and_swap, compare_exchange, fetch_add/sub/and/or/xor | emulation by critical sections, loops on a compare_and_swap, their mixture | linearizability, lock-freedom, a true answer from `is_lock_free` |
| Pointer, signed and float wrappers (3737-4290) | none | casts around the integer operations | float fetch operations work on bit patterns | the conversion is the meant one |
| Memory orders, fences (the same functions, path by path) | none | for each operation and order, a choice of barriers and of an intrinsic or instruction | weakly ordered CPUs, numbers of orders compared by `>`, orders that two objects together show | happens-before of what the callers rely on, sequential consistency of seq_cst |
| Ring buffer (`extras/c89atomic_ring_buffer.*`) | head, tail, 2 x capacity elements | init, map/unmap produce, map/unmap consume, length | stale cursors, loop flag, copies at the looping point, partial unmaps | a bounded queue, no data race |
| Deque (`extras/c89atomic_deque.*`) | head, tail, elements | push_tail, take_tail, take_head | last element race, index wrap, fences | every element taken exactly once |
| Bitmap allocator (`extras/c89atomic_bitmap_allocator.*`) | words of bits | init, alloc, free | races on a word, scan over words, index truncation | no slot allocated twice, its contents handed over with it |
| c89thread (`external/`), tests, build files, `x64/` | | | | not modelled: vendored, tests, and code for inspection |

The parts interact by calls only. The integer operations share
`c89atomic_global_lock` when the CPU lacks an instruction; the extras call the
32-bit and pointer operations, and the extras' callers are the threads.

## Modules

    CodePaths ---- AtomicOps ---- MCAtomicOps (with Word)
        |              |    \
        |        AtomicObject  AtomicOpsProof
        |        (refined by)       \
        |\------ CodePathsProof --- CompiledOpsProof
        |
    MemoryOrders ---- MCMemoryOrders
        |       \
        |        MemoryOrdersProof --- C11MemoryProof
    C11Memory (instance)

    RingBuffer ---- MCRingBuffer
        |    \
        |     RingBufferProof
    BoundedFifo (refined by)

    C11Memory ---- Deque ---- MCDeque
        |            |   \
        |            |    DequeProof ------ C11MemoryProof
        |        WorkDeque (refined by)
        |
    C11Memory ---- BitmapAllocator ---- MCBitmapAllocator
        |            |          \
    C11MemoryProof --|---------- BitmapAllocatorProof
                     |
                 SlotPool (refined by)

**CodePaths** is the preprocessor as a function: `Config` is the set of
compilers, CPUs and CPU levels the header tells apart, `Table(c, w)` gives the
mechanism of each of the ten primitives for objects of `w` bits, with one
operator per group of functions of the header (`MsvcLoad`, `GccAsmExchange`,
...). `"native"` is one instruction or intrinsic, `"lock"` a critical section
under the global lock, `"loop"` a load and a compare_and_swap until the swap
succeeds. `Coherent` says that the primitives of one object exclude each other;
`Split` names the configurations where they do not. `ReportsLockFree` is what
`c89atomic_is_lock_free_<w>` answers; `__atomic_is_lock_free`, which MODERN_GCC
asks instead, is the compiler's.

**AtomicOps** is the header as it runs. `pc`, `reg` (the locals `result` and
`oldValue`), `new` (the value about to be stored) and `prim` are the locals of a
call; `mem` and `lock` are shared. `Invoke` and `Return` are a call's entry and
return, `Native` a single instruction; `TestAndSet` and `Spin` are the two
loops of `spinlock_lock`, `Read`, `Reread`, `Write` the plain accesses of the
`C89ATOMIC_*_LOCK` macros, each a step; `TrySwap` and `Retry` the
`C89ATOMIC_*_CAS` loops, whose load and swap are themselves native or locked
primitives. A program is compiled once: `impl` is chosen in `Init`.
A native step is one step although, on CPUs such as ARM, it is a loop of
exclusive accesses: that is the CPU's promise, not the header's. For the same
reason a weak compare_exchange, which may fail for no reason where the compiler
has one, is modelled as the strong one it falls back to everywhere else.

**AtomicObject** is the promise of the API: `Invoke`, `TakeEffect`, `Return`.
The mapping is in `AtomicOps`: a call has taken effect (`TookEffect`) when its
primitive has stored, or has read what it needs, and, in a loop, when the swap
was the successful one.

**Word** holds the arithmetic: as the code computes it (`WordArith`: a
subtraction is the addition of a negated operand) and as it is meant
(`MeantArith`, on integers and sets of bits). `AtomicOps` computes with the
first, `AtomicObject` with the second, so that `Linearizable` compares them;
`FetchAssumption` asks TLC for the equality for every pair of operands. The
wrappers for signed integers are casts to the word and back (`Pattern`,
`SignedOf`): `SignedArith` is the unsigned operation between them and
`MeantSignedArith` what it means on numbers whose sums wrap and whose sign bit
counts negatively.

**MemoryOrders** is the header's `memory_order` arguments as they are compiled.
A litmus program is a sequence of calls and plain accesses per thread;
`CallOrder` turns a call into the instructions its path chooses for it
(`MsvcArmIntrinsic`, `MsvcAsmLoadOrder`, `GccExchangeOrder`, `GccAsmClear`, ...):
barriers (`Fence`), loads, stores and read-modify-writes that acquire or release
or do neither, and instructions that are full barriers (`Xchg`, `Full`). A call on
an object without instructions of its own is a plain access between
`spinlock_lock` and `spinlock_unlock`, which are compiled by the same table. `pc`
says which call a thread is at and `todo` what is left of its instructions;
`Proceed` takes the branches of the spinlock's loops and goes on to the next call.
The instructions are the actions (`DoFence`, `DoLoad`, `DoStore`, `DoRmw`,
`DoFailedSwap`, `DoXchg`, `DoPlain`) and run on `C11Memory`; `DoRequire` ends a
program that has not found what it was waiting for. A plain access that is
not ordered after the accesses before it is a race; a plain read counts as an
access like a write, which no program here is hurt by. `SequentialOutcomes` holds
what every interleaving of a program's calls gives, for comparison.

What an instruction orders is external, and taken as follows. An instruction with a
`lock` prefix, and `xchg`, order everything before against everything after. A
`__sync` builtin is a full barrier but for `__sync_lock_test_and_set` (acquire)
and `__sync_lock_release` (release). `_Interlocked` intrinsics are full barriers,
on ARM as a barrier before and one after, and those with a suffix what it says. A
`mov` with a "memory" clobber is an acquire load or a release store; without one
(and in MSVC's `__asm`, to be careful) the compiler may move it. `__atomic`
intrinsics mean what C11 says. `c89atomic_thread_fence` has the barrier that its order
asks for on MODERN_GCC and is a barrier instruction on most other paths. On two it is
an operation on a variable made for it. CHIBICC's exchange is taken for the full barrier it contains.
MSVC's for 32-bit CPUs is a fetch_add with the order of the fence on a local variable
(`Local`, one per thread) and is compiled as such: a full barrier on x86, and on an
i386, whose fetch_add goes through the global lock, the section of one (a local is
then in `locked`), but on ARM32 the intrinsic with the suffix of the order. With
`_acq` or `_rel` it only orders itself with what follows or with what came before,
so that it orders nothing else: see the violations.

**AtomicOpsProof**, **CodePathsProof**, **CompiledOpsProof**, **C11MemoryProof**,
**MemoryOrdersProof**, **BitmapAllocatorProof**, **RingBufferProof** and
**DequeProof** have the theorems and their proofs: see Proofs, below.

**RingBuffer** has the two sides as actions: `MapProduce` (both loads and the
clamp), `Fill` (the caller writes what it mapped), `UnmapProduce` (the copy of
the excess), `StoreHead`; `MapConsume`, `CopyOverflow` (the copy, after which the
caller reads what it mapped), `UnmapConsume`, `StoreTail`. Cursors are words of
`W` bits with the most significant as loop flag, and `Length`, `Remaining`,
`Advanced` are the code's unsigned arithmetic. Memory is weak: `log[s]` holds the
stores of a side's cursor that the other may still load; an acquire load picks
any of them and orders the accesses that preceded the store, and
`Access` records a data race when a side touches an element that the other has
touched in an unordered access, one of the two a write. A relaxed load of the
other side's cursor happens only in the asserts and in `length()`, which keep
nothing: `AssertsHold` and `LengthIsSafe` quantify over every value they may
find. `capacity = 0` is the state after an initialization that was refused.
The caller may map again without unmapping (a mapping is only a pointer) and
unmap less than it mapped; it unmaps a mapping once. As accesses are checked
for races when they are made and a side's happens-before knowledge changes only
when it maps, it is enough that a caller reads at the beginning of its mapping
and writes all of it in one step.

**BoundedFifo** is what it promises: a queue, `Commit(n)`, `Release(n)`. The
mapping takes the elements between tail and head (`Queue`).

**C11Memory** is the memory that `MemoryOrders`, `Deque` and `BitmapAllocator` run
on, in the style of the view-based semantics of C11. Every location has the history of the values stored to it; a
thread's view (`current`) is how far it has come in each, and a load picks any
value that is not behind the view. A value carries the view that an acquire load
of it gains; what a relaxed load would have gained waits in `acquired` for the
next fence, `released` is what a relaxed store passes on, `order` is the view
that the sequentially consistent fences hand to one another. A read-modify-write
(`Update`) loads the latest value and hands its view on, so that a release reaches
past it. `UpdateSeqCst` and `LoadSeqCst` are the instructions that are a full
barrier in one. `Access` is a plain access: each leaves a mark in the history, and
`Ordered` asks whether a thread knows of the last one. A new value goes to
the end of its history, which is exact as long as one thread at a time stores to
an object and the others only change it by read-modify-writes: so it is in the
deque (the owner stores the tail and the slots, the head changes by
compare_exchange), in the allocator (compare_exchange only), in a spinlock
(only its owner clears it), and in the litmus programs, whose other stores are
exchanges or have no rival. The
`seq_cst` compare_exchange of the deque is taken as acquire and
release, which allows at least what the stronger order does (the allocator's asks
for no more). Loads that find
values not yet stored (load buffering) are not covered.

**Deque** has one action per access of shared memory: `PushLoadHead`, `PushFull`,
`PushStoreItem`, `PushStoreTail` are `push_tail`; `TakeStoreTail`, `TakeFence`,
`TakeLoadHead`, `TakeLoadItem`, `TakeRace`, `RestoreTail` are `take_tail`; the
`Steal...` actions are `take_head`, with the thread as parameter. `OwnTail` is the
owner's relaxed load of the tail it alone stores to, which has one outcome and is
part of the action that uses it. Head and tail are words of `W` bits, `Signed` the
cast to `c89atomic_int32`. What an item points to is plain memory that the owner
writes before it pushes (`WriteData`, item by item).

**WorkDeque** is what it promises: `PushTail`, `TakeTail`, `TakeTailEmpty`,
`TakeHead`. `answers` counts what the owner has been told, so that being told that there
is nothing is a step of its own however often it happens, and never a stutter. The
mapping reads the queue off the latest values from the head to `Reach`, the tail before
the owner's reservation: an element leaves when the owner has passed the head check
for it or when a compare_exchange of the head succeeds. The owner's take is answered
(`Answers`) at the step that decides its result: the load of the head, the load of the
item, or the race.
A thief that is refused or cancelled is a stutter: the header promises a thief
nothing when it races.

**BitmapAllocator** has `Alloc` (the call), `Scan` (one load of a word and the
choice of a bit), `OutOfMemory`, `Take` (the compare_exchange of `alloc`); `Free`
(the call, with the truncation), `ClearLoad`, `Clear` (the load and the
compare_exchange of `free`). A word is the set of its set bits, and an object of
`C11Memory`: a relaxed load, and a compare_exchange that fails, may find an old
one. The slots' contents are plain memory. `holder` is who may use a slot:
whoever is given it accesses the contents once (`Use`), and any thread may free
it after that, having been told to by its holder (`Told`: the caller's own
synchronization). `given` and `spare` record what a call returned and which
slots a call's thread could not but find free from its beginning on.

**SlotPool** is what it promises: a set of slots in use, `Allocate`, `Free`.

**MCAtomicOps**, **MCRingBuffer**, **MCDeque**, **MCBitmapAllocator** give the
constants their values. **MCMemoryOrders** has the litmus programs and the
`Platforms` they are compiled for, every one that `CodePaths` has up to what the
choice of barriers depends on.

Definitions whose comment begins with "Mutant of" are not part of the model:
each is a plausible mistake in the code, kept to show which property notices it.

## Runs

| Configuration | Bounds | Shows |
|---|---|---|
| `MCAtomicOps_anywidth` | 2 threads, 1 signed object, 2-bit words, one request of each of the ten kinds, all distinct sound rows of `Table` | type, mutual exclusion, coherent tables (every configuration and width: the sets are finite and complete), linearizability with the right numbers, progress, `is_lock_free` |
| `MCAtomicOps_sharedlock` | 3 threads, an 8-bit and a 64-bit object of one program, 1-bit words, store/fetch_add/fetch_xor | one lock for two objects, mixtures of native and locked objects, critical sections undisturbed |
| `MCAtomicOps_msvc_arm32` | 2 threads, a 64-bit object | **violation**: see below |
| `MCAtomicOps_asm_i386` | 2 threads, an 8-bit object | **violation**: see below |
| `MCMemoryOrders` | up to 4 threads with up to 4 calls each; two atomic objects and one plain; every path, with MSVC every CPU, each object locked or not | handing over data by every pair of a releasing and an acquiring call or fence, through third threads, under a spinlock; sequential consistency of seq_cst calls and fences. Of the fences those that only acquire or only release are left out on MSVC for ARM32 |
| `MCMemoryOrders_msvc_arm32_fence` | the fences left out: a release fence and a relaxed store, a relaxed load and an acquire or consume fence, or one of the two | **violation**: see below |
| `MCRingBuffer` | capacities 0 to 3, 4-bit cursors, serial numbers modulo 12 | data-race freedom, contiguous windows at every alignment, the queue, unmaps of a part and of nothing, the asserts, `length()` |
| `MCRingBuffer_toolarge` | capacity 3 with 3-bit cursors | **violation**: see below |
| `MCDeque_thieves` | two thieves with a steal each, capacity 2, 4-bit counters from 15 (that is, -1), 4 pushes, 2 takes | the deque on weak memory: every step of one thread against every step of the others; needs the fences; what an item points to comes with it |
| `MCDeque_wrap` | 3-bit counters, 5 pushes, 4 takes, no steals | **violation**: see below |
| `MCBitmapAllocator_races` | 2 threads with 3 calls each, two words of two bits, fairness | every property of the allocator, on weak memory |
| `MCBitmapAllocator_truncated` | three words of one bit, indices truncated to one bit | **violation**: see below |

Why the bounds are enough. The mechanisms of an operation depend on the width
only through the table, so one object per distinct table covers all widths.
Races in `AtomicOps` are between two calls on one object, or between the owner
of the lock and two contenders, hence two and three threads. Two-bit words
contain zero, one, the word that is its own negation and the word of all ones (as
signed numbers 0, 1, -2 and -1);
one bit is enough when the arithmetic is not in question. Threads are
symmetric, which three of the runs without liveness properties use. The litmus programs
are the classic ones: a choice of barriers is a property of
a call and the one next to it, so two calls on two objects by two threads, with a
load, a store or an exchange in each place, meet every pair; four threads are needed for two
that see two stores in different orders (lock-free objects only: four threads and
a lock have too many states). A ring buffer of three elements has windows that lie before, across
and on the looping point, with one or two elements beyond it; cursors are
explored through both values of the loop flag. `Tags` is a multiple of
`2 * capacity` so that the serial number adds few states, and tells an element
from one that was in its slot one and more rounds earlier. `StaleBound` limits
how many unmaps of nothing may be in a log, which nothing else bounds. Capacity four,
the largest that 4-bit cursors are right for (2^(W-2)), has too many states for a run;
there, as below it, the properties are proved.
`MaxPushes`, `MaxTakes` and `MaxSteals` bound the deque's calls, whose number
bounds the histories; four pushes use each of two slots twice, and the deque is
full, empty and down to its last element with a thief at every step of a steal.
`W` is large enough in the passing run that the calls do not reach 2^(W-1);
`Start` lets them cross from -1 to 0. In the allocator every race is between a
thread's load and compare_exchange of one word and what others do in between;
three calls per thread (`MaxCalls`, which bounds the histories) are enough for a
slot to be given out, freed and given out again in between. The words
have a bit that is preferred and one that is not, and the second word makes the
scan take two steps.

Fairness. `Fairness` is weak fairness of each thread's next step inside a call
(a scheduler that runs every thread again and again), and none on making calls.
`SomeCallReturns` and `LoneCallReturns` have it as their premise: the first is about
all threads inside calls together, the second about a call the others eventually
leave alone. The code gives no more: a single call may starve, on the spinlock as in
a loop, and no property says otherwise. `LockFreeAsReported` asks for less fairness
and so says more: of an object that `is_lock_free` answers for, a thread's
call returns, or other calls return for ever, if that one thread is scheduled,
even when all others have been stopped anywhere in theirs. A critical section would
not pass. The allocator's `FairSpec` has the same fairness; as every failed
compare_exchange is due to another thread's success and the calls are bounded,
every call returns (`CallsReturn`). A weakly fair thread is assumed to see the
latest value at last: in a model whose histories are finite it does, as a failed
compare_exchange must find another value than the one it expected. The
operations of ring buffer and deque have no loops, so there is nothing to wait for,
and the litmus programs wait for nothing but the spinlock.

The runs of the deque and the allocator switch deadlock checking off: they end when
every thread has made all the calls that the bounds allow. Elsewhere some thread can always step.

## What the violations show

1. *MSVC for 32-bit ARM.* The 64-bit compare_and_swap and load ask whether
   **32-bit** atomics are lock free (`c89atomic.h` 1077, 1156) and are native;
   exchange, store and fetch_add ask about 64 bits (1246, 1345) and take the
   global lock. MSVC does not define the `__ARM_ARCH_*` macros that make 64-bit
   atomics lock free, so a native 64-bit operation can fall between the read and
   the write of an emulated one and be lost.
   The same holds for a 32-bit x86 build with `_M_IX86` = 400.
2. *MSVC-style assembly for an i386.* A relaxed 8-, 16- or 32-bit store is a plain
   `mov` (1840, 1866, 1892) while everything else goes through the lock.
3. *Ring buffers above 2^30 elements.* `init` accepts capacities up to
   `0x7FFFFFFF`, but the index plus a count can then reach 2^31 and carry into the
   loop flag (`c89atomic_ring_buffer.c` 167, 255).
4. *Deques through which 2^31 elements have gone.* Head and tail are compared as
   signed words (`c89atomic_deque.c` 54, 94). When the tail is past 2^31 and the head
   is not, both ends say NO_DATA_AVAILABLE while the deque holds elements, and as
   neither end gives anything the head cannot follow. The comment at line 38 calls
   the wrap harmless because of the masking and the cast.
5. *Bitmaps of more than 2^32 bits.* `free` masks the `size_t` index to 32 bits
   (`c89atomic_bitmap_allocator.c` 87-88) although `init` and `alloc` do not: it clears
   the bit of another slot, or trips the double-free assert for a slot freed once.
6. *Fences of MSVC for 32-bit ARM.* `c89atomic_thread_fence` is a fetch_add to a local
   variable (1573-1577), and so, unless the order is acq_rel or seq_cst, an
   `_InterlockedExchangeAdd_acq` or `_rel` (400-424). That orders the access to the local,
   which nobody else sees, and nothing else: data written before a release fence is
   not ordered before a relaxed store after it, nor data read after an acquire fence
   after the relaxed load before it. The README lists the function as C11's
   (187) and no weaker fence among the differences (52-60). A compiler that emits a `dmb`
   for the intrinsic hides this; what the suffix promises does not include it. Of
   the data structures here, the deque relies on such a fence
   (`c89atomic_deque.c` 26): `Deque` takes it to be what C11 says.

`Split` excludes exactly the first two from the passing runs. Two further
observations, which are no violations: the GCC tests for lock-free x86 look for
`__i486__` and `__i586__` by name, which compilers for later CPUs do not define,
so such a build uses the lock throughout, coherently; and the comment "must be a
multiple of 31" in the bitmap allocator (line 32) means 32.

## Proofs

Every theorem is about all values of the constants that satisfy the assumptions
its module inherits, named below; TLC evaluates these in the runs of the same
part. Where a theorem has a hypothesis of its own, it is one that the violation
runs show to be needed.

**Atomic operations.** `AtomicOpsProof`, for any threads, objects, values, requests,
tables and arithmetic:

* `Invariance`: the inductive invariant `IInv`. Mutual exclusion alone is not
  inductive: it needs that the flag is set exactly while some thread is in the
  section, that a thread is at a step of the section only when its primitive is
  compiled to "lock", and that each thread's primitive, registers and call fit
  (for instance, that in a loop the primitive is the load or the swap of the call).
* `TypeCorrect`, `SpinlockExcludes`: consequences.
* `SectionsAreIsolated`, `Linearizability`: under the hypothesis `CoherentImpls`.
  The further invariant is `SectionIsolated`: while a thread is in its section
  nobody else stores to its object, because a native store to it would be
  incoherent and a locked one excluded. Every step then maps to a step of
  `AtomicObject` or to a stutter: `Native`, `Write`, and `Read` when nothing is
  to be stored are `TakeEffect`, if in a loop the swap succeeded.

Assumptions: requests are requests, `NoRequest` and `NoResult` are no values,
loads and compare_and_swaps are never loops and bitwise operations never locked
(there is no macro for either), and the code's arithmetic is the meant one.

**The preprocessor.** `CodePathsProof` has no assumptions: `PathsAreCoherent` says of
every configuration and width that the operations of one object exclude one
another if and only if the configuration is none of the two that the violation
runs show (`Split`), path by path (`MsvcTable`, `MsvcAsmTable`, `GnuTable`).
`ReportedNeverLocks` says that where `is_lock_free` answers yes no operation is
compiled to a critical section. `CompiledOpsProof` puts the two together with
`AtomicOpsProof`: under the hypothesis that every program is one configuration's
tables for widths it does not split (`SoundFor`), `PreprocessorIsCoherent` and
`CompiledLinearizability` have no `CoherentImpls` left, and
`ReportedKeepsOffLock` is the safety half of `LockFreeAsReported`: a call that
`is_lock_free` vouches for is never at a step of the lock.

**Weak memory.** `C11MemoryProof` has the facts about `C11Memory` that the next three
proofs rest on, for any threads, locations and values: `MemoryInv` (no view is ahead
of the histories, a value's view contains the value itself, the three views of a
thread are in order) is kept by every kind of load, store, read-modify-write and
fence, no thread's view goes back, and histories only grow.

**The spinlock.** `MemoryOrdersProof` is about any threads, any objects and data, any
programs and any set of the objects under the global lock. `LitmusAssumption` says
that a program's calls are calls, on one of the paths, that objects, data, locks and the
threads' locals are apart, and that a fence uses its own thread's local. `FlagCalls` and `FreeCallsCompiled` go through the seven paths: on each,
test_and_set(acquire) is one instruction that acquires, clear(release) is one that
releases, and the other calls touch nothing but their object, or their thread's local. `LockingStep` is the
loops of `spinlock_lock`: what follows an instruction of theirs is another one, unless
it was the test_and_set and found the flag clear. That nothing races is not
inductive. The invariant `IInv` says where each thread is (`ThreadOK`) and, of each of the
two locks (`LockInv`):
  - at most one thread has it, and its flag is set while one has;
  - whoever has it knows of every access to what the lock protects;
  - while its flag is clear, the view that the flag hands on knows of all of them.
The last is what a clear that released less than the thread knows would break, and
the one before it a test_and_set that did not acquire. A thread that only looks at
the flag may do so by a swap of 0 for 0, which must hand on what it found
(`LookKeeps`). Proved are `Invariance`, `TypeCorrect`, `SectionsOrdered` (the accesses of
operations under the global lock are ordered, whatever the program does) and
`SpinlockOrders`: `NoDataRace`, under the hypothesis `Guarded`, that the program unlocks
only what it has locked and accesses its data in between, as the run's `Sections`
do. `NoDataRace` of the other programs, which hand data over through an object or by
fences, is model-checked: whether their accesses are ordered depends on the values
they require. TLC checked `IInv` on all states of the run before it was proved.

**The allocator.** On `MemoryInv` `BitmapAllocatorProof` proves, for any number of threads, words,
bits per word and calls, with the hypothesis `IndexFits` (the bitmap has no more
bits than `free`'s index tells apart: the run `MCBitmapAllocator_truncated` is what
happens otherwise), `TypeCorrect`, `BitmapExact`, `NoSlotFreedTwice`,
`OutOfMemoryOnlyIfFull`, `ContentsAreHandedOver` and `AllocatorIsPool`.
`BitmapIsExact` is not inductive on weak memory: whether a compare_exchange may
change a bit is decided on the latest value, but whether it is tried was decided
on an old one. The invariant adds, for the holder of a slot, that no version of
its word from the holder's view on has the bit clear (`SlotsKept`), which is what
makes the assert of `free` hold of a stale load; for a slot's contents, that the
latest access is known to the holder, or to whoever reads the version of the word
in which the slot is free (`SlotsHanded`), which is where release and acquire are
used; and for a call under way, where the slots it could not but find free still
are ahead of its scan (`SparesAhead`).

**The ring buffer.** `RingBufferProof`, for cursors of any width, any capacities, any
serial numbers and any staleness, with the hypothesis `CapacityFits`: twice the
capacity does not exceed the loop flag (`MCRingBuffer_toolarge` is what happens
otherwise). `RingBufferAssumption` says that `init` refuses a capacity that reaches
the loop flag; that 2^(W-1) is positive is stated there too, as the provers
cannot derive it. Proved are `TypeCorrect`, `RaceFree`, `WindowCorrect`,
`AssertsCorrect`, `LengthCorrect` and `RingBufferIsFifo`. None of these properties is
inductive. The invariant `IInv` measures every cursor that may still be loaded,
and every access that may still be unordered, by its distance from one point,
the tail that the producer has acquired (`Base`):
  - the cursors in each log are in order and at most a capacity ahead of `Base`
    (`LogsOrdered`), so that calculate_length is exact for every pair of them
    (`LengthIsGap`; the arithmetic is in `AdvancedParts` and `GapAdvance`);
  - the consumer's window ends before the head it has acquired (`Limit`), the
    producer's within a capacity of `Base` (`WindowsApart`);
  - what the consumer may still be accessing is before `Limit`, and what a side
    accessed before a store is not behind the cursor of the store before it
    (`AccessesApart`), so that an acquire load, which shortens the other's log,
    drops all accesses behind what it found. The places behind the end of the
    buffer count as those at its start: this is what makes the copies of
    unmap_produce and map_consume harmless;
  - the window the producer has filled holds the next serial numbers, at its start
    after the copy (`FilledInOrder`), and where the consumer's window goes behind
    the end it holds copies (`FrontCopied`).
A load of the other's cursor moves `Base` (`ProducerAcquires`, `Rebased`) or `Limit`
(`ConsumerAcquires`), a store extends a log (`Extended`); the steps that write
elements keep the queue (`FillKeepsQueue` and the two after it), the store of the
head appends to it, the store of the tail drops from it. TLC checked `IInv` itself,
too, on small instances, capacity 2^(W-2) among them, before it was proved.

**The deque.** `DequeProof`, for any number of thieves, any capacity and any number
of calls, with the hypothesis `CountersFit`: head and tail, as signed words, do
not come to either end of their range (`MCDeque_wrap` is what happens otherwise; one
less than the start must fit, too, for the reservation of a take). `DequeAssumption`
says that the owner is no thief, that the capacity divides 2^W and that the start is a
counter; that 2^W is even and positive is stated there for the provers. Proved are
`Invariance`, `TypeCorrect`, `PayloadIsVisible` and `DequeIsWorkDeque`. Everything is
measured in positions, which are integers (`HeadPos`, `EndPos`): `Counting` and
`Difference` lead back to words, and two positions less than a capacity apart have
two places (`PlaceFacts`). The invariant `IInv` is about who may still be wrong:
  - the head counts up by one (`HeadCounts`), and of all else the owner stores every
    value and knows it (`OwnerKnows`), so that only a stale head can mislead it, and in
    one direction: a push that finds one refuses more than it must, a take races more;
  - every store of the tail hands on what the owner has pushed (`AllReleased`), also
    the relaxed ones of a take, as a release fence came before them; a push whose
    item is stored and whose fence is still to come stores no tail in between;
  - a thief past its fence finds only tails that are not beyond the end, or that
    show it elements only if they hand the elements on (`TailsTrue`). This is where a
    take matters: between its fence and its last store of the tail, older and larger
    tails are no longer to be found by anyone whose fence comes after (`order`). A
    thief whose fence came before it may find one, but then its head is one that the
    owner's fence has made the owner see (`HeadOrdered`): so that of a thief at the
    element which the owner is about to take without a race, one of the two knows of
    the other (`Noticed`, the heart of the algorithm). Remove either fence and this is
    what fails;
  - a thief whose compare_exchange can still succeed holds the oldest element, and the
    owner has not passed it (`ThiefCall`): a place is filled anew only after the head
    has moved, and then the compare_exchange fails.
An element leaves the abstract queue at three places: the load that `TakeOne` is about,
and the two compare_exchanges (`TakeWon`, `StealWon`). `PushSteps`, `TakeSteps` and
`StealSteps` map every other step to a stutter, or to `TakeTailEmpty`, where
`TakeLost` and the head check show that there really is nothing; `AnswerSteps` says
which steps answer a take, each of which must be one of the two, and which do not. TLC checked `IInv` on
three instances before it was proved: two thieves, one thief with three steals at capacity one, and
one with capacity four (as far as its states could be enumerated).

Only model-checked: progress (`SomeCallReturns`, `LoneCallReturns`,
`LockFreeAsReported`, `CallsReturn`: liveness is out of the prover's reach); the
arithmetic of `Word` (its bitwise operators are out of the prover's reach too, so
that `FetchAssumption` is checked for small words); `SequentiallyConsistent`, which
compares a run with all interleavings of a finite program, computed by a fold, and
`NoDataRace` of the litmus programs that use no spinlock.

## Not modelled, and why

- The instructions themselves: what an intrinsic or an instruction orders is taken
  from its documentation (see `MemoryOrders`). `AtomicOps` interleaves
  sequentially consistent steps; what its calls order is `MemoryOrders`' matter.
- Orders of operations that choose their barriers as another one does: fetch_sub
  and the bitwise operations as fetch_add, LEGACY_MSVC as MODERN_MSVC. The retry
  loops (64-bit operations of 32-bit CPUs, CHIBICC's fetch operations, the bitwise
  ones of x86) are not run on weak memory: each ends in a compare_and_swap, which is
  a full barrier on every path. The `seq_cst` calls of MODERN_GCC are
  the compiler's to get right. `signal_fence` has no effect beyond a thread.
- What the fetch operations of floats mean. They add and mask bit patterns
  (4089), and nothing says what that should be on numbers. The loads, stores,
  exchanges and compare_exchanges of floats and pointers move words unchanged, which
  `AtomicOps` has for any set of values.
- Spurious failures of a native weak compare_exchange. The data structures here use
  the strong one throughout.
- Argument checks (null pointers, a bitmap size that is no multiple of 32, an index
  out of bounds) return without effect and are left out.
- A third thread's `length()` of a ring buffer is declared not well defined by its
  header (134). For the two sides `LengthIsSafe` shows that the clamp at its end has
  nothing to do.
- Declarations, inlining and padding have no behaviour. c89thread is vendored and
  used only by the tests.

In passing: `c89atomic_clear_explicit_f32` and `_f64` (4002-4003), and the macros at
4181-4182 that use them, refer to functions that exist nowhere; nothing calls them.

## Plan

1. *Done*: `CodePaths`, `AtomicOps` with `AtomicObject` and its proofs;
   `RingBuffer` with `BoundedFifo`.
2. *Done*: `Deque` on `C11Memory`, refining `WorkDeque`; `BitmapAllocator`,
   refining `SlotPool`.
3. *Done*: `MemoryOrders`, with the spinlock's acquire and release and plain accesses
   of the sections under it; the allocator on `C11Memory` with the slots' contents;
   the items' contents in the deque; the signed wrappers; `is_lock_free`; the
   clamp of `length()`.
4. *Done*: the proofs of the allocator, the code paths, the atomic operations as
   compiled, and the ring buffer. In the course of it two arms of a CASE in
   `LoopNativeOrLock` turned out to overlap, and a relaxed load of `C11Memory` to
   overwrite what waited in `acquired` for its location, so that an acquire fence after
   it could take back what the thread knew; both are put right.
5. *Done*: the proof of the deque, with the fact about sequentially consistent fences
   (`FenceSeqCstInv`) that it needs in `C11MemoryProof`.
6. *Done*: the proof that the spinlock orders what it protects, on every path. For it
   `MemoryOrders` says which call a thread is at, instead of compiling its whole
   program at once, and has the relaxed fence, which had no step.
7. *Done*: MSVC's fences on 32-bit CPUs as the operations they are, which was a full
   barrier before and hid the sixth violation; the answers of the abstract deque,
   without which a false "empty" after another was a stutter.
