---------------------------- MODULE MemoryOrders ----------------------------
(***************************************************************************)
(* What each code path of c89atomic.h makes of the memory_order argument.  *)
(* Threads run short straight-line programs of API calls and plain         *)
(* accesses. Every call is compiled, as the path does it, to a sequence of *)
(* instructions: barriers, and loads, stores and read-modify-writes that   *)
(* acquire and release or do not; and to plain accesses between the lock   *)
(* and unlock of a spinlock where the object is not lock free. The         *)
(* instructions run one at a time on the memory of C11Memory.              *)
(*                                                                         *)
(* What the intrinsics and instructions themselves order is external. A    *)
(* lock-prefixed or xchg instruction, a __sync builtin that is not an      *)
(* acquire or a release by name, and an _Interlocked intrinsic without     *)
(* suffix are full barriers.                                               *)
(***************************************************************************)
EXTENDS CodePaths, Integers, Sequences, SequencesExt

CONSTANTS
    Thread,
    Object,         \* objects that are only accessed through the API
    Data,           \* objects that are only accessed plainly
    GlobalLock,     \* c89atomic_global_lock
    UserLock,       \* a c89atomic_spinlock of the program's own
    Local,          \* for each thread, a variable on its stack
    Litmus          \* what may run: [path, cpu, locked, calls, ordered]

VARIABLES
    litmus,         \* the program, and what it was compiled by
    pc,             \* which of its calls each thread is at
    todo,           \* the instructions it has before it there
    reg,            \* what the last call or plain load of each thread returned
    seen,           \* everything they have returned, in order
    raced,          \* a plain access was not ordered after an earlier one
    history, current, acquired, released, order     \* see C11Memory

Flag == {GlobalLock, UserLock}

Locals == {Local[t] : t \in Thread}

Location == Object \union Data \union Flag \union Locals

Memory == INSTANCE C11Memory

memory == <<history, current, acquired, released, order>>

vars == <<litmus, pc, todo, reg, seen, raced, memory>>

\* The numbers of the memory orders, which the paths compare.
relaxed == 1
consume == 2
acquire == 3
release == 4
acq_rel == 5
seq_cst == 6

Order == relaxed .. seq_cst

Acquires(o) == o \in {consume, acquire, acq_rel, seq_cst}

Releases(o) == o \in {release, acq_rel, seq_cst}

AccessOp == {"load", "store", "exchange", "fetch_add", "compare_and_swap"}

\* A call of the API, or a plain access. "require" returns from the thread's
\* program unless the last result was src. The object of a fence is the local
\* variable that some paths use for it.
Call(op, obj, ord, src, exp) ==
    [op |-> op, obj |-> obj, order |-> ord, src |-> src, exp |-> exp]

\* Mutant of Computed: the addition subtracts.
ComputedWrong(r, v) ==
    CASE r.op \in {"load", "fence"} -> v
      [] r.op \in {"store", "exchange", "test_and_set", "clear"} -> r.src
      [] r.op = "fetch_add" -> v - r.src
      [] r.op = "compare_and_swap" -> IF v = r.exp THEN r.src ELSE v

\* The value call r makes of the value v of its object.
Computed(r, v) ==
    CASE r.op \in {"load", "fence"} -> v
      [] r.op \in {"store", "exchange", "test_and_set", "clear"} -> r.src
      [] r.op = "fetch_add" -> v + r.src
      [] r.op = "compare_and_swap" -> IF v = r.exp THEN r.src ELSE v

Returns(r) == r.op \notin {"store", "clear", "fence"}

\* What a thread's program gets to see.
Visible(r) == Returns(r) /\ r.obj \notin Flag

\* r loads or stores something, plainly if it is data.
Accesses(r) == r.op \in AccessOp

\* r is done to a variable, if only to a local one: a path that does a fence so
\* may have to do it under the global lock.
Operates(r) == Accesses(r) \/ r.op = "fence"

Calls ==
    {r \in [op    : AccessOp \union {"fence", "require", "lock", "unlock"},
            obj   : Location,
            order : Order,
            src   : Nat,
            exp   : Nat] :
        /\ Accesses(r) => r.obj \in Object \union Data
        /\ r.op = "fence" => r.obj \in Locals}

ASSUME LitmusAssumption ==
    /\ Object \intersect Data = {} /\ (Object \union Data) \intersect Flag = {}
    /\ GlobalLock # UserLock
    /\ Locals \intersect (Object \union Data \union Flag) = {}
    /\ \A t, u \in Thread : Local[t] = Local[u] => t = u
    /\ \A m \in Litmus :
        /\ m.path \in MsvcPath \union GnuPath
        /\ m.cpu \in CpusOf(m.path)
        /\ m.locked \subseteq Object \union Locals
        /\ \A t \in Thread :
            /\ m.calls[t] \in Seq(Calls)
            /\ \A i \in DOMAIN m.calls[t] :
                m.calls[t][i].op = "fence" => m.calls[t][i].obj = Local[t]

-----------------------------------------------------------------------------
(* Instructions                                                            *)

Fence(o) == [do |-> "fence", order |-> o]

Load(r, acquires) == [do |-> "load", call |-> r, acquires |-> acquires]

Store(r, releases) == [do |-> "store", call |-> r, releases |-> releases]

Rmw(r, acquires, releases) ==
    [do |-> "rmw", call |-> r, acquires |-> acquires, releases |-> releases]

\* A full barrier in one instruction: xchg, or a lock prefix.
Xchg(r) == [do |-> "xchg", call |-> r]

Plain(r) == [do |-> "plain", call |-> r]

\* What the loops of spinlock_lock do with what they have just read.
Again(l) == [do |-> "again", lock |-> l]

Spin(l) == [do |-> "spin", lock |-> l]

Require(v) == [do |-> "require", value |-> v]

\* A full barrier that may take several: the barriers stand by themselves.
Full(r) == <<Fence(seq_cst), Rmw(r, TRUE, TRUE), Fence(seq_cst)>>

\* A compare_and_swap of 0 and 0.
AsSwap(r) == [r EXCEPT !.op = "compare_and_swap", !.src = 0, !.exp = 0]

-----------------------------------------------------------------------------
(* MODERN_MSVC and LEGACY_MSVC                                             *)

\* The _nf, _acq, _rel and unsuffixed intrinsic of C89ATOMIC_MSVC_ARM_INTRINSIC.
MsvcArmIntrinsic(r) ==
    CASE r.order = relaxed -> <<Rmw(r, FALSE, FALSE)>>
      [] r.order \in {consume, acquire} -> <<Rmw(r, TRUE, FALSE)>>
      [] r.order = release -> <<Rmw(r, FALSE, TRUE)>>
      [] r.order \in {acq_rel, seq_cst} -> Full(r)

MsvcIntrinsic(c, r) == IF c.cpu \in Arm THEN MsvcArmIntrinsic(r) ELSE <<Xchg(r)>>

MsvcLoadOrder(c, r) == MsvcIntrinsic(c, AsSwap(r))

MsvcStoreOrder(c, r) == MsvcIntrinsic(c, r)

MsvcTestAndSet(c, r) == MsvcIntrinsic(c, r)

MsvcClear(c, r) == MsvcIntrinsic(c, r)

MsvcFlagLoad(c, r) ==
    IF c.cpu \in Arm THEN Full(AsSwap(r)) ELSE <<Xchg(AsSwap(r))>>

MsvcCasOrder(c, r) == IF c.cpu \in Arm THEN Full(r) ELSE <<Xchg(r)>>

\* A barrier instruction on x64 and ARM64. On 32-bit CPUs, a fetch_add of zero
\* to a variable on the caller's stack, with the order of the fence (which an
\* i386 does under the global lock: see Compile).
MsvcFence(c, r) ==
    IF c.cpu \in {"x64", "arm64"} THEN <<Fence(seq_cst)>> ELSE MsvcIntrinsic(c, r)

MsvcCall(c, r) ==
    CASE r.op = "load" -> MsvcLoadOrder(c, r)
      [] r.op = "store" -> MsvcStoreOrder(c, r)
      [] r.op \in {"exchange", "fetch_add"} -> MsvcIntrinsic(c, r)
      [] r.op = "compare_and_swap" -> MsvcCasOrder(c, r)
      [] r.op = "fence" -> MsvcFence(c, r)
      [] r.op = "test_and_set" -> MsvcTestAndSet(c, r)
      [] r.op = "clear" -> MsvcClear(c, r)
      [] r.op = "flag_load" -> MsvcFlagLoad(c, r)

-----------------------------------------------------------------------------
(* LEGACY_MSVC_ASM                                                         *)

MsvcAsmLoadOrder(r) ==
    CASE r.order = relaxed -> <<Load(r, FALSE)>>
      [] r.order \in consume .. release -> <<Load(r, FALSE), Fence(seq_cst)>>
      [] OTHER -> <<Fence(seq_cst), Load(r, FALSE), Fence(seq_cst)>>

MsvcAsmStoreOrder(r) ==
    IF r.order = relaxed THEN <<Store(r, FALSE)>> ELSE <<Xchg(r)>>

MsvcAsmClear(r) == IF r.order = relaxed THEN <<Store(r, FALSE)>> ELSE <<Xchg(r)>>

MsvcAsmCall(r) ==
    CASE r.op \in {"load", "flag_load"} -> MsvcAsmLoadOrder(r)
      [] r.op = "store" -> MsvcAsmStoreOrder(r)
      [] r.op \in {"exchange", "fetch_add", "compare_and_swap",
                   "test_and_set"} -> <<Xchg(r)>>
      [] r.op = "fence" -> <<Fence(seq_cst)>>
      [] r.op = "clear" -> MsvcAsmClear(r)

-----------------------------------------------------------------------------
(* LEGACY_GCC                                                              *)

\* Mutant of GccExchangeOrder: the test is off by one, as in flag_clear.
GccExchangeNoBarrier(r) ==
    (IF r.order > release THEN <<Fence(seq_cst)>> ELSE <<>>) \o
        <<Rmw(r, TRUE, FALSE)>>

\* __sync_lock_test_and_set is an acquire barrier only.
GccExchangeOrder(r) ==
    (IF r.order > acquire THEN <<Fence(seq_cst)>> ELSE <<>>) \o
        <<Rmw(r, TRUE, FALSE)>>

\* __sync_lock_release is a release barrier only.
GccClear(r) ==
    (IF r.order > release THEN <<Fence(seq_cst)>> ELSE <<>>) \o
        <<Store(r, TRUE)>>

GccCall(r) ==
    CASE r.op \in {"load", "flag_load"} -> Full(AsSwap(r))
      [] r.op \in {"store", "exchange", "test_and_set"} -> GccExchangeOrder(r)
      [] r.op \in {"fetch_add", "compare_and_swap"} -> Full(r)
      [] r.op = "fence" -> <<Fence(seq_cst)>>
      [] r.op = "clear" -> GccClear(r)

-----------------------------------------------------------------------------
(* LEGACY_GCC_ASM. The mov of a relaxed access has no "memory" clobber; the*)
(* others are acquire loads and release stores on x86 once the compiler    *)
(* leaves them where they are.                                             *)

GccAsmLoadOrder(r) ==
    CASE r.order = relaxed -> <<Load(r, FALSE)>>
      [] r.order \in consume .. release -> <<Fence(seq_cst), Load(r, TRUE)>>
      [] OTHER -> <<Fence(seq_cst), Load(r, TRUE), Fence(seq_cst)>>

\* Mutant of GccAsmStoreOrder: a mov with a "memory" clobber, as in flag_clear.
GccAsmStoreMov(r) ==
    IF r.order = relaxed THEN <<Store(r, FALSE)>> ELSE <<Store(r, TRUE)>>

GccAsmStoreOrder(r) ==
    IF r.order = relaxed THEN <<Store(r, FALSE)>> ELSE <<Xchg(r)>>

GccAsmClear(r) ==
    CASE r.order = relaxed -> <<Store(r, FALSE)>>
      [] r.order = release -> <<Store(r, TRUE)>>
      [] OTHER -> <<Xchg(r)>>

GccAsmCall(r) ==
    CASE r.op \in {"load", "flag_load"} -> GccAsmLoadOrder(r)
      [] r.op = "store" -> GccAsmStoreOrder(r)
      [] r.op \in {"exchange", "fetch_add", "compare_and_swap",
                   "test_and_set"} -> <<Xchg(r)>>
      [] r.op = "fence" -> <<Fence(seq_cst)>>
      [] r.op = "clear" -> GccAsmClear(r)

-----------------------------------------------------------------------------
\* MODERN_GCC hands the order to the compiler. A plain test_and_set of it is
\* an exchange, a clear a store. (compare_and_swap is seq_cst.)
ModernGccCall(r) ==
    CASE r.op \in {"load", "flag_load"} -> <<Load(r, Acquires(r.order))>>
      [] r.op \in {"store", "clear"} -> <<Store(r, Releases(r.order))>>
      [] r.op \in {"exchange", "fetch_add", "test_and_set"} ->
            <<Rmw(r, Acquires(r.order), Releases(r.order))>>
      [] r.op = "compare_and_swap" -> <<Rmw(r, TRUE, TRUE)>>
      [] r.op = "fence" -> <<Fence(r.order)>>

\* CHIBICC: exchanges and compare_and_swaps throughout, the fence included.
ChibiccCall(r) ==
    CASE r.op \in {"load", "flag_load"} -> <<Xchg(AsSwap(r))>>
      [] r.op = "fence" -> <<Fence(seq_cst)>>
      [] OTHER -> <<Xchg(r)>>

CallOrder(c, r) ==
    CASE c.path \in {"MODERN_MSVC", "LEGACY_MSVC"} -> MsvcCall(c, r)
      [] c.path = "LEGACY_MSVC_ASM" -> MsvcAsmCall(r)
      [] c.path = "LEGACY_GCC" -> GccCall(r)
      [] c.path = "LEGACY_GCC_ASM" -> GccAsmCall(r)
      [] c.path = "MODERN_GCC" -> ModernGccCall(r)
      [] c.path = "CHIBICC" -> ChibiccCall(r)

-----------------------------------------------------------------------------
(* The spinlock, and the operations that take the global one               *)

TestAndSetFlag(c, l) ==
    CallOrder(c, Call("test_and_set", l, acquire, 1, 0)) \o <<Again(l)>>

FlagLoad(c, l) ==
    CallOrder(c, Call("flag_load", l, relaxed, 0, 0)) \o <<Spin(l)>>

spinlock_lock(c, l) == TestAndSetFlag(c, l)

spinlock_unlock(c, l) == CallOrder(c, Call("clear", l, release, 0, 0))

\* The accesses of a section are one here: AtomicOps has them one by one.
Locked(c, r) ==
    spinlock_lock(c, GlobalLock) \o <<Plain(r)>> \o spinlock_unlock(c, GlobalLock)

Compile(c, r) ==
    CASE r.op = "require" -> <<Require(r.src)>>
      [] r.op = "lock" -> spinlock_lock(c, UserLock)
      [] r.op = "unlock" -> spinlock_unlock(c, UserLock)
      [] Accesses(r) /\ r.obj \in Data -> <<Plain(r)>>
      [] Operates(r) /\ r.obj \in c.locked -> Locked(c, r)
      [] OTHER -> CallOrder(c, r)

-----------------------------------------------------------------------------
(* What the calls return when they are done one after the other.           *)

Positions(calls) == UNION {{t} \X DOMAIN calls[t] : t \in Thread}

\* The orders of the calls that keep the order of each thread's.
Interleavings(calls) ==
    {s \in SetToSeqs(Positions(calls)) : \A i, j \in DOMAIN s :
        s[i][1] = s[j][1] /\ i < j => s[i][2] < s[j][2]}

RunCall(state, t, r) ==
    IF r.op = "fence" THEN state
    ELSE [mem  |-> [state.mem EXCEPT ![r.obj] = Computed(r, @)],
          seen |-> IF Visible(r)
                   THEN [state.seen EXCEPT ![t] = Append(@, state.mem[r.obj])]
                   ELSE state.seen]

SequentialOutcome(calls, s) ==
    FoldLeft(LAMBDA state, p : RunCall(state, p[1], calls[p[1]][p[2]]),
             [mem |-> [o \in Object |-> 0], seen |-> [t \in Thread |-> <<>>]], s)

\* Every program that is to be sequentially consistent, with every outcome it
\* may have.
SequentialOutcomes ==
    UNION {{<<calls, SequentialOutcome(calls, s)>> : s \in Interleavings(calls)} :
        calls \in {m.calls : m \in {l \in Litmus : l.ordered}}}

-----------------------------------------------------------------------------
\* The instructions of the i-th call of t, if there is one.
Code(m, t, i) ==
    IF i \in DOMAIN m.calls[t] THEN Compile(m, m.calls[t][i]) ELSE <<>>

Init ==
    /\ litmus \in Litmus
    /\ pc = [t \in Thread |-> 1]
    /\ todo = [t \in Thread |-> Code(litmus, t, 1)]
    /\ reg = [t \in Thread |-> 0]
    /\ seen = [t \in Thread |-> <<>>]
    /\ raced = FALSE
    /\ Memory!MemoryInit([l \in Location |-> 0])

\* Thread t is about to do an instruction of kind k.
At(t, k) == todo[t] # <<>> /\ Head(todo[t]).do = k

\* The instructions before a thread that has read v: past the branches.
\* spinlock_lock leaves when test_and_set found the flag clear, and otherwise
\* loads it until it is.
Branch(m, is, v) ==
    IF is = <<>> THEN is
    ELSE LET i == Head(is) IN
         CASE i.do = "again" ->
                IF v = 0 THEN Tail(is) ELSE FlagLoad(m, i.lock) \o Tail(is)
           [] i.do = "spin" ->
                IF v = 1 THEN FlagLoad(m, i.lock) \o Tail(is)
                         ELSE TestAndSetFlag(m, i.lock) \o Tail(is)
           [] OTHER -> is

\* On to the next instruction, or the next call.
Proceed(t) ==
    LET is == Branch(litmus, Tail(todo[t]), reg'[t]) IN
    \/ /\ is # <<>>
       /\ todo' = [todo EXCEPT ![t] = is]
       /\ UNCHANGED pc
    \/ /\ is = <<>>
       /\ todo' = [todo EXCEPT ![t] = Code(litmus, t, pc[t] + 1)]
       /\ pc' = [pc EXCEPT ![t] = @ + 1]

\* The call r of t has found the value v.
Result(t, r, v) ==
    /\ reg' = IF Returns(r) THEN [reg EXCEPT ![t] = v] ELSE reg
    /\ seen' = IF Visible(r) THEN [seen EXCEPT ![t] = Append(@, v)] ELSE seen
    /\ UNCHANGED litmus

DoRequire(t) ==
    /\ At(t, "require")
    /\ UNCHANGED <<litmus, reg, seen, raced, memory>>
    /\ \/ reg[t] = Head(todo[t]).value /\ Proceed(t)
       \/ /\ reg[t] # Head(todo[t]).value
          /\ todo' = [todo EXCEPT ![t] = <<>>]
          /\ UNCHANGED pc

DoFence(t) ==
    LET o == Head(todo[t]).order IN
    /\ At(t, "fence")
    /\ \/ o = relaxed /\ UNCHANGED memory
       \/ o \in {consume, acquire} /\ Memory!FenceAcquire(t)
       \/ o = release /\ Memory!FenceRelease(t)
       \/ o = acq_rel /\ Memory!FenceAcqRel(t)
       \/ o = seq_cst /\ Memory!FenceSeqCst(t)
    /\ UNCHANGED <<litmus, reg, seen, raced>>
    /\ Proceed(t)

DoLoad(t) ==
    LET r == Head(todo[t]).call IN
    /\ At(t, "load")
    /\ \E i \in Memory!Readable(t, r.obj) :
        /\ IF Head(todo[t]).acquires
           THEN Memory!LoadAcquire(t, r.obj, i)
           ELSE Memory!LoadRelaxed(t, r.obj, i)
        /\ Result(t, r, Memory!Value(r.obj, i))
    /\ Proceed(t)
    /\ UNCHANGED raced

DoStore(t) ==
    LET r == Head(todo[t]).call IN
    /\ At(t, "store")
    /\ IF Head(todo[t]).releases
       THEN Memory!StoreRelease(t, r.obj, r.src)
       ELSE Memory!StoreRelaxed(t, r.obj, r.src)
    /\ UNCHANGED <<litmus, reg, seen, raced>>
    /\ Proceed(t)

\* A read-modify-write, or a swap that finds what it expects.
DoRmw(t) ==
    LET i == Head(todo[t])
        r == i.call
        v == Memory!Latest(r.obj)
    IN
    /\ At(t, "rmw")
    /\ r.op = "compare_and_swap" => v = r.exp
    /\ Memory!Update(t, r.obj, Computed(r, v), i.acquires, i.releases)
    /\ Result(t, r, v)
    /\ Proceed(t)
    /\ UNCHANGED raced

\* A swap that does not: a load.
DoFailedSwap(t) ==
    LET r == Head(todo[t]).call IN
    /\ At(t, "rmw")
    /\ r.op = "compare_and_swap"
    /\ \E i \in Memory!Readable(t, r.obj) :
        /\ Memory!Value(r.obj, i) # r.exp
        /\ IF Head(todo[t]).acquires
           THEN Memory!LoadAcquire(t, r.obj, i)
           ELSE Memory!LoadRelaxed(t, r.obj, i)
        /\ Result(t, r, Memory!Value(r.obj, i))
    /\ Proceed(t)
    /\ UNCHANGED raced

DoXchg(t) ==
    LET r == Head(todo[t]).call
        v == Memory!Latest(r.obj)
    IN
    /\ At(t, "xchg")
    /\ IF r.op = "compare_and_swap" /\ v # r.exp
       THEN Memory!LoadSeqCst(t, r.obj)
       ELSE Memory!UpdateSeqCst(t, r.obj, Computed(r, v))
    /\ Result(t, r, v)
    /\ Proceed(t)
    /\ UNCHANGED raced

DoPlain(t) ==
    LET r == Head(todo[t]).call
        v == Memory!Latest(r.obj)
    IN
    /\ At(t, "plain")
    /\ Memory!Access(t, r.obj, Computed(r, v))
    /\ Result(t, r, v)
    /\ raced' = (raced \/ ~Memory!Ordered(t, r.obj))
    /\ Proceed(t)

Done == \A t \in Thread : todo[t] = <<>>

Finished == Done /\ UNCHANGED vars

Step(t) ==
    \/ DoFence(t) \/ DoLoad(t) \/ DoStore(t)
    \/ DoRmw(t) \/ DoFailedSwap(t) \/ DoXchg(t)
    \/ DoPlain(t) \/ DoRequire(t)

Next == Finished \/ \E t \in Thread : Step(t)

Spec == Init /\ [][Next]_vars

-----------------------------------------------------------------------------
TypeOK ==
    /\ \A t \in Thread : \A i \in DOMAIN todo[t] :
            todo[t][i].do \in {"fence", "load", "store", "rmw", "xchg",
                              "plain", "again", "spin", "require"}
    /\ pc \in [Thread -> Nat \ {0}]
    /\ reg \in [Thread -> Nat]
    /\ seen \in [Thread -> Seq(Nat)]
    /\ raced \in BOOLEAN
    /\ Memory!MemoryTypeOK

\* What a program orders by releasing and acquiring calls, by fences or by a
\* spinlock is ordered, whatever path compiled it: no plain access to its data
\* races with another. The same goes for the accesses that the operations of
\* objects that are not lock free make under the global lock.
NoDataRace == ~raced

\* A program whose calls are all seq_cst (the default of every macro that
\* takes no order), or that has a seq_cst fence between any two calls, gets
\* the results of some interleaving of its calls and leaves the objects as it
\* does, with any mix of lock-free and locked objects.
SequentiallyConsistent ==
    litmus.ordered /\ Done =>
        <<litmus.calls,
          [mem |-> [o \in Object |-> Memory!Latest(o)], seen |-> seen]>>
            \in SequentialOutcomes
=============================================================================
