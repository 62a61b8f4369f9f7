-------------------------- MODULE MemoryOrdersProof --------------------------
(***************************************************************************)
(* What the spinlock of c89atomic.h orders, on every code path: for any    *)
(* threads, any programs of calls, and any of their objects under the      *)
(* global lock.                                                            *)
(***************************************************************************)
EXTENDS MemoryOrders, SequenceTheorems, TLAPS

Facts == INSTANCE C11MemoryProof

MemoryOK == Facts!MemoryInv(Nat)

Newest(l) == history[l][Len(history[l])]

-----------------------------------------------------------------------------
(* What the calls are compiled to                                          *)

Fences == [do : {"fence"}, order : Order]

\* The instructions of calls of C on objects that are lock free.
Instructions(C) ==
    Fences
        \union [do : {"load"}, call : C, acquires : BOOLEAN]
        \union [do : {"store"}, call : C, releases : BOOLEAN]
        \union [do : {"rmw"}, call : C, acquires : BOOLEAN, releases : BOOLEAN]
        \union [do : {"xchg"}, call : C]

\* The objects of single instructions, and what they may do with them.
FreeObjects(m) == (Object \union Locals) \ m.locked

FreeCalls(m) ==
    [op    : AccessOp \union {"fence"},
     obj   : FreeObjects(m),
     order : Order,
     src   : Nat,
     exp   : Nat]

Takes(l) == Call("test_and_set", l, acquire, 1, 0)

Looks(l) == Call("flag_load", l, relaxed, 0, 0)

Leaves(l) == Call("clear", l, release, 0, 0)

\* The instruction that test_and_set is, whatever the path; the one that clear
\* is; and those that flag_load is made of.
Taking(l) == {Xchg(Takes(l)), Rmw(Takes(l), TRUE, FALSE)}

Leaving(l) == {Xchg(Leaves(l)), Rmw(Leaves(l), FALSE, TRUE), Store(Leaves(l), TRUE)}

Looking(l) ==
    {Fence(seq_cst), Load(Looks(l), FALSE),
     Rmw(AsSwap(Looks(l)), TRUE, TRUE), Xchg(AsSwap(Looks(l)))}

\* is, with back after it, are instructions of a spinlock_lock.
Locking(l, back, is) ==
    \/ \E i \in Taking(l) : is = <<i, Again(l)>> \o back
    \/ \E f \in Seq(Looking(l)) : f # <<>> /\ is = f \o (<<Spin(l)>> \o back)

-----------------------------------------------------------------------------
(* Where the threads are                                                   *)

CallOf(t) == litmus.calls[t][pc[t]]

IsData(r) == Accesses(r) /\ r.obj \in Data

IsLocked(m, r) == Operates(r) /\ r.obj \in m.locked

IsFree(m, r) == Operates(r) /\ r.obj \in FreeObjects(m)

\* What a thread may have before it at the call r.
Control(r, is) ==
    \/ r.op = "require" /\ is = <<Require(r.src)>>
    \/ r.op = "lock" /\ Locking(UserLock, <<>>, is)
    \/ r.op = "unlock" /\ \E i \in Leaving(UserLock) : is = <<i>>
    \/ IsData(r) /\ is = <<Plain(r)>>
    \/ IsFree(litmus, r) /\ is \in Seq(Instructions(FreeCalls(litmus)))
    \/ IsLocked(litmus, r) /\ \E i \in Leaving(GlobalLock) :
            Locking(GlobalLock, <<Plain(r), i>>, is) \/ is = <<Plain(r), i>> \/ is = <<i>>

ThreadOK(t) ==
    todo[t] # <<>> => pc[t] \in DOMAIN litmus.calls[t] /\ Control(CallOf(t), todo[t])

\* A thread that is to do the n-th of the calls cs has the lock of the program.
Held(cs, n) ==
    \E j \in 1 .. n - 1 :
        cs[j].op = "lock" /\ \A k \in j + 1 .. n - 1 : cs[k].op # "unlock"

\* A program that only unlocks what it has locked, and only accesses its data
\* in between.
Guarded(m) ==
    \A t \in Thread : \A n \in DOMAIN m.calls[t] :
        m.calls[t][n].op = "unlock" \/ IsData(m.calls[t][n]) => Held(m.calls[t], n)

\* t has taken the global lock, and not left it.
Inside(t) ==
    /\ todo[t] # <<>>
    /\ IsLocked(litmus, CallOf(t))
    /\ Head(todo[t]) \in {Plain(CallOf(t))} \union Leaving(GlobalLock)

Holds(t, l) == IF l = UserLock THEN Held(litmus.calls[t], pc[t]) ELSE Inside(t)

Protected(l) == IF l = UserLock THEN Data ELSE litmus.locked

-----------------------------------------------------------------------------
(* The inductive invariant                                                 *)

Registers ==
    /\ reg \in [Thread -> Nat]
    /\ seen \in [Thread -> Seq(Nat)]

FlagValues ==
    \A l \in Flag : \A i \in 1 .. Len(history[l]) : history[l][i].value \in {0, 1}

TypeInv ==
    /\ litmus \in Litmus
    /\ pc \in [Thread -> Nat \ {0}]
    /\ DOMAIN todo = Thread
    /\ Registers
    /\ raced \in BOOLEAN
    /\ MemoryOK
    /\ FlagValues
    /\ \A t \in Thread : ThreadOK(t)

\* At most one thread has the lock, the flag is set while one has, and that
\* thread is ordered after all accesses to what the lock protects. While none
\* has, whoever takes the lock will be.
LockInv(l) ==
    /\ \A t, u \in Thread : Holds(t, l) /\ Holds(u, l) => t = u
    /\ \A t \in Thread : Holds(t, l) =>
            /\ Newest(l).value = 1
            /\ \A x \in Protected(l) : current[t][x] = Len(history[x])
    /\ Newest(l).value = 0 =>
            \A x \in Protected(l) : Newest(l).view[x] = Len(history[x])

\* The operations see to the global lock themselves; the program's own is used
\* as the program does.
UsedWell(l) == l = GlobalLock \/ Guarded(litmus)

InOrder ==
    /\ \A l \in Flag : UsedWell(l) => LockInv(l)
    /\ Guarded(litmus) => ~raced

IInv == TypeInv /\ InOrder

-----------------------------------------------------------------------------
(* What the paths make of the calls                                        *)

LEMMA Constants ==
    /\ GlobalLock # UserLock
    /\ \A x \in Object \union Data : x \notin Flag
    /\ \A x \in Locals : x \notin Object /\ x \notin Data /\ x \notin Flag
    /\ \A x \in Object : x \notin Data
    /\ \A m \in Litmus : /\ m.path \in MsvcPath \union GnuPath
                         /\ m.locked \subseteq Object \union Locals
                         /\ \A t \in Thread : m.calls[t] \in Seq(Calls)
    BY LitmusAssumption

\* On every path taking and leaving the flag are one instruction each, that
\* acquires and that releases.
LEMMA FlagCalls ==
    ASSUME NEW m \in Litmus, NEW l \in Flag
    PROVE  /\ \E i \in Taking(l) : CallOrder(m, Takes(l)) = <<i>>
           /\ \E i \in Leaving(l) : CallOrder(m, Leaves(l)) = <<i>>
           /\ CallOrder(m, Looks(l)) \in Seq(Looking(l)) \ {<<>>}
<1> DEFINE t == Takes(l)
           u == Leaves(l)
           f == Looks(l)
<1>0. SUFFICES /\ \E i \in Taking(l) : CallOrder(m, t) = <<i>>
               /\ \E i \in Leaving(l) : CallOrder(m, u) = <<i>>
               /\ CallOrder(m, f) \in Seq(Looking(l)) \ {<<>>}
    OBVIOUS
<1>1. /\ t.op = "test_and_set" /\ t.order = 3
      /\ u.op = "clear" /\ u.order = 4
      /\ f.op = "flag_load" /\ f.order = 1
    BY DEF Takes, Leaves, Looks, Call, acquire, release, relaxed
<1>2. /\ Taking(l) = {Xchg(t), Rmw(t, TRUE, FALSE)}
      /\ Leaving(l) = {Xchg(u), Rmw(u, FALSE, TRUE), Store(u, TRUE)}
      /\ Looking(l) = {Fence(seq_cst), Load(f, FALSE), Rmw(AsSwap(f), TRUE, TRUE),
                       Xchg(AsSwap(f))}
    BY DEF Taking, Leaving, Looking
<1> HIDE DEF t, u, f
<1>3. CASE m.path \in {"MODERN_MSVC", "LEGACY_MSVC"}
    <2>1. /\ CallOrder(m, t) = MsvcIntrinsic(m, t)
          /\ CallOrder(m, u) = MsvcIntrinsic(m, u)
          /\ CallOrder(m, f) = MsvcFlagLoad(m, f)
        BY <1>1, <1>3 DEF CallOrder, MsvcCall, MsvcTestAndSet, MsvcClear
    <2>2. /\ MsvcIntrinsic(m, t) \in {<<Rmw(t, TRUE, FALSE)>>, <<Xchg(t)>>}
          /\ MsvcIntrinsic(m, u) \in {<<Rmw(u, FALSE, TRUE)>>, <<Xchg(u)>>}
        BY <1>1 DEF MsvcIntrinsic, MsvcArmIntrinsic, relaxed, consume,
                      acquire, release, acq_rel, seq_cst
    <2>3. MsvcFlagLoad(m, f) \in Seq(Looking(l)) \ {<<>>}
        BY <1>2 DEF MsvcFlagLoad, Full
    <2>4. QED
        BY <1>2, <2>1, <2>2, <2>3
<1>4. CASE m.path = "LEGACY_MSVC_ASM"
    <2>1. /\ CallOrder(m, t) = <<Xchg(t)>>
          /\ CallOrder(m, u) = <<Xchg(u)>>
          /\ CallOrder(m, f) = MsvcAsmLoadOrder(f)
        BY <1>1, <1>4 DEF CallOrder, MsvcAsmCall, MsvcAsmClear, relaxed
    <2>2. f.order = relaxed /\ f.order \notin consume .. release
        BY <1>1 DEF relaxed, consume, release
    <2>3. MsvcAsmLoadOrder(f) = <<Load(f, FALSE)>>
        BY <2>2 DEF MsvcAsmLoadOrder
    <2>4. QED
        BY <1>2, <2>1, <2>3
<1>5. CASE m.path = "LEGACY_GCC"
    <2>1. /\ CallOrder(m, t) = GccExchangeOrder(t)
          /\ CallOrder(m, u) = GccClear(u)
          /\ CallOrder(m, f) = Full(AsSwap(f))
        BY <1>1, <1>5 DEF CallOrder, GccCall
    <2>2. /\ GccExchangeOrder(t) = <<Rmw(t, TRUE, FALSE)>>
          /\ GccClear(u) = <<Store(u, TRUE)>>
        BY <1>1 DEF GccExchangeOrder, GccClear, acquire, release
    <2>3. Full(AsSwap(f)) \in Seq(Looking(l)) \ {<<>>}
        BY <1>2 DEF Full
    <2>4. QED
        BY <1>2, <2>1, <2>2, <2>3
<1>6. CASE m.path = "LEGACY_GCC_ASM"
    <2>1. /\ CallOrder(m, t) = <<Xchg(t)>>
          /\ CallOrder(m, u) = GccAsmClear(u)
          /\ CallOrder(m, f) = GccAsmLoadOrder(f)
        BY <1>1, <1>6 DEF CallOrder, GccAsmCall
    <2>2. /\ f.order = relaxed /\ f.order \notin consume .. release
          /\ u.order = release /\ u.order # relaxed
        BY <1>1 DEF relaxed, consume, release
    <2>3. GccAsmLoadOrder(f) = <<Load(f, FALSE)>> /\ GccAsmClear(u) = <<Store(u, TRUE)>>
        BY <2>2 DEF GccAsmLoadOrder, GccAsmClear
    <2>4. QED
        BY <1>2, <2>1, <2>3
<1>7. CASE m.path = "MODERN_GCC"
    <2>1. /\ CallOrder(m, t) = <<Rmw(t, Acquires(t.order), Releases(t.order))>>
          /\ CallOrder(m, u) = <<Store(u, Releases(u.order))>>
          /\ CallOrder(m, f) = <<Load(f, Acquires(f.order))>>
        BY <1>1, <1>7 DEF CallOrder, ModernGccCall
    <2>2. /\ Acquires(t.order) = TRUE /\ Releases(t.order) = FALSE
          /\ Releases(u.order) = TRUE /\ Acquires(f.order) = FALSE
        BY <1>1 DEF Acquires, Releases, consume, acquire, release, acq_rel, seq_cst
    <2>3. /\ CallOrder(m, t) = <<Rmw(t, TRUE, FALSE)>>
          /\ CallOrder(m, u) = <<Store(u, TRUE)>>
          /\ CallOrder(m, f) = <<Load(f, FALSE)>>
        BY Zenon, <2>1, <2>2
    <2>4. QED
        BY <1>2, <2>3
<1>8. CASE m.path = "CHIBICC"
    <2>1. /\ CallOrder(m, t) = <<Xchg(t)>>
          /\ CallOrder(m, u) = <<Xchg(u)>>
          /\ CallOrder(m, f) = <<Xchg(AsSwap(f))>>
        BY <1>1, <1>8 DEF CallOrder, ChibiccCall
    <2>2. QED
        BY <1>2, <2>1
<1>9. m.path \in MsvcPath \union GnuPath
    BY Constants
<1>10. QED
    BY <1>3, <1>4, <1>5, <1>6, <1>7, <1>8, <1>9 DEF MsvcPath, GnuPath

LEMMA ShortSequences ==
    ASSUME NEW S, NEW a \in S, NEW b \in S, NEW c \in S
    PROVE  /\ <<a>> \in Seq(S) /\ <<a, b>> \in Seq(S) /\ <<a, b, c>> \in Seq(S)
           /\ <<a>> \o <<b>> \in Seq(S) /\ <<>> \o <<b>> \in Seq(S)
    OBVIOUS

LEMMA InstructionTypes ==
    ASSUME NEW C, NEW r \in C, NEW a \in BOOLEAN, NEW b \in BOOLEAN
    PROVE  /\ Load(r, a) \in Instructions(C) /\ Store(r, a) \in Instructions(C)
           /\ Rmw(r, a, b) \in Instructions(C) /\ Xchg(r) \in Instructions(C)
           /\ \A o \in Order : Fence(o) \in Instructions(C)
    BY DEF Instructions, Fences, Load, Store, Rmw, Xchg, Fence

\* Every operation on a lock-free object is barriers, and instructions on that
\* object.
LEMMA FreeCallsCompiled ==
    ASSUME NEW m \in Litmus, NEW r \in Calls, IsFree(m, r)
    PROVE  CallOrder(m, r) \in Seq(Instructions(FreeCalls(m)))
<1> DEFINE C == FreeCalls(m)
           I == Instructions(C)
<1>0. SUFFICES CallOrder(m, r) \in Seq(I)
    OBVIOUS
<1>1. /\ r.order \in Order /\ seq_cst \in Order /\ Order = 1 .. 6
      /\ m.path \in MsvcPath \union GnuPath
      /\ r.op \in AccessOp \union {"fence"}
    BY Constants DEF Calls, Order, relaxed, seq_cst, IsFree, Operates, Accesses
<1>2. r \in C /\ AsSwap(r) \in C
    BY <1>1 DEF IsFree, FreeCalls, FreeObjects, AsSwap, Calls, Operates, Accesses, AccessOp
<1>3. Fence(seq_cst) \in I /\ Fence(r.order) \in I
    BY <1>1 DEF Instructions, Fences, Fence
<1>4. \A q \in {r, AsSwap(r)}, a, b \in BOOLEAN :
        /\ Load(q, a) \in I /\ Store(q, a) \in I
        /\ Rmw(q, a, b) \in I /\ Xchg(q) \in I
    BY <1>2, InstructionTypes
<1> HIDE DEF C, I
<1>5. ASSUME NEW q \in {r, AsSwap(r)}, NEW a \in BOOLEAN, NEW b \in BOOLEAN
      PROVE  /\ <<Rmw(q, a, b)>> \in Seq(I) /\ <<Xchg(q)>> \in Seq(I)
             /\ <<Load(q, a)>> \in Seq(I) /\ <<Store(q, a)>> \in Seq(I)
    BY <1>4, ShortSequences
<1>6. ASSUME NEW q \in {r, AsSwap(r)}
      PROVE  Full(q) \in Seq(I)
    BY <1>3, <1>4, ShortSequences DEF Full
<1>7. AsSwap(r).order = r.order
    BY DEF AsSwap, Calls
<1>8. ASSUME NEW q \in {r, AsSwap(r)} PROVE MsvcIntrinsic(m, q) \in Seq(I)
    <2>1. q.order \in 1 .. 6
        BY <1>1, <1>7
    <2>2. \/ q.order = 1 \/ q.order = 2 \/ q.order = 3
          \/ q.order = 4 \/ q.order = 5 \/ q.order = 6
        BY <2>1
    <2>3. MsvcIntrinsic(m, q) \in
            {<<Xchg(q)>>, Full(q), <<Rmw(q, FALSE, FALSE)>>,
             <<Rmw(q, TRUE, FALSE)>>, <<Rmw(q, FALSE, TRUE)>>}
        BY <2>2 DEF MsvcIntrinsic, MsvcArmIntrinsic, relaxed, consume, acquire,
                    release, acq_rel, seq_cst
    <2>4. QED
        BY <1>5, <1>6, <2>3
<1>9. CASE r.op = "fence"
    <2>1. CallOrder(m, r) \in {<<Fence(seq_cst)>>, <<Fence(r.order)>>, MsvcIntrinsic(m, r)}
        BY <1>1, <1>9 DEF CallOrder, MsvcCall, MsvcFence, MsvcAsmCall, GccCall,
              GccAsmCall, ModernGccCall, ChibiccCall, MsvcPath, GnuPath
    <2>2. QED
        BY <1>3, <1>8, <2>1, ShortSequences
<1>10. CASE r.op # "fence"
    <2>1. r.op \in AccessOp
        BY <1>1, <1>10
    <2>2. CASE m.path \in {"MODERN_MSVC", "LEGACY_MSVC"}
        <3>1. CallOrder(m, r) \in {MsvcIntrinsic(m, r), MsvcIntrinsic(m, AsSwap(r)),
                                   Full(r), <<Xchg(r)>>}
            BY <2>1, <2>2 DEF CallOrder, MsvcCall, MsvcLoadOrder, MsvcStoreOrder,
                              MsvcCasOrder, AccessOp
        <3>2. QED
            BY <1>5, <1>6, <1>8, <3>1
    <2>3. CASE m.path = "LEGACY_MSVC_ASM"
        <3>1. CallOrder(m, r) \in {MsvcAsmLoadOrder(r), MsvcAsmStoreOrder(r), <<Xchg(r)>>}
            BY <2>1, <2>3 DEF CallOrder, MsvcAsmCall, AccessOp
        <3>2. MsvcAsmLoadOrder(r) \in Seq(I)
            BY <1>3, <1>4, <1>5, ShortSequences DEF MsvcAsmLoadOrder
        <3>3. MsvcAsmStoreOrder(r) \in Seq(I)
            BY <1>5 DEF MsvcAsmStoreOrder
        <3>4. QED
            BY <1>5, <3>1, <3>2, <3>3
    <2>4. CASE m.path = "LEGACY_GCC"
        <3>1. CallOrder(m, r) \in {GccExchangeOrder(r), Full(r), Full(AsSwap(r))}
            BY <2>1, <2>4 DEF CallOrder, GccCall, AccessOp
        <3>2. GccExchangeOrder(r) \in Seq(I)
            <4>1. Fence(seq_cst) \in I /\ Rmw(r, TRUE, FALSE) \in I
                BY <1>3, <1>4
            <4>2. QED
                BY <4>1, ShortSequences DEF GccExchangeOrder
        <3>3. QED
            BY <1>5, <1>6, <3>1, <3>2
    <2>5. CASE m.path = "LEGACY_GCC_ASM"
        <3>1. CallOrder(m, r) \in {GccAsmLoadOrder(r), GccAsmStoreOrder(r), <<Xchg(r)>>}
            BY <2>1, <2>5 DEF CallOrder, GccAsmCall, AccessOp
        <3>2. GccAsmLoadOrder(r) \in Seq(I)
            BY <1>3, <1>4, <1>5, ShortSequences DEF GccAsmLoadOrder
        <3>3. GccAsmStoreOrder(r) \in Seq(I)
            BY <1>5 DEF GccAsmStoreOrder
        <3>4. QED
            BY <1>5, <3>1, <3>2, <3>3
    <2>6. CASE m.path = "MODERN_GCC"
        <3>1. Acquires(r.order) \in BOOLEAN /\ Releases(r.order) \in BOOLEAN
            BY DEF Acquires, Releases
        <3>2. CallOrder(m, r) \in
                {<<Load(r, Acquires(r.order))>>, <<Store(r, Releases(r.order))>>,
                 <<Rmw(r, Acquires(r.order), Releases(r.order))>>, <<Rmw(r, TRUE, TRUE)>>}
            BY <2>1, <2>6 DEF CallOrder, ModernGccCall, AccessOp
        <3>3. QED
            BY <1>5, <1>6, <3>1, <3>2
    <2>7. CASE m.path = "CHIBICC"
        <3>1. CallOrder(m, r) \in {<<Xchg(r)>>, <<Xchg(AsSwap(r))>>}
            BY <2>1, <2>7 DEF CallOrder, ChibiccCall, AccessOp
        <3>2. QED
            BY <1>5, <3>1
    <2>8. QED
        BY <1>1, <2>2, <2>3, <2>4, <2>5, <2>6, <2>7 DEF MsvcPath, GnuPath
<1>11. QED
    BY <1>9, <1>10

-----------------------------------------------------------------------------
(* The loops of spinlock_lock                                              *)

\* What is left of a concatenation when its first instruction is done.
LEMMA RestOfConcat ==
    ASSUME NEW S, NEW f \in Seq(S), f # <<>>, NEW g \in Seq(S)
    PROVE  /\ f \o g \in Seq(S) /\ f \o g # <<>>
           /\ Head(f \o g) = f[1] /\ f[1] \in S
           /\ Tail(f \o g) = Tail(f) \o g /\ Tail(f) \in Seq(S)
<1>1. Len(f) \in Nat \ {0} /\ Len(g) \in Nat
    BY EmptySeq, LenProperties
<1>2. /\ f \o g \in Seq(S) /\ Len(f \o g) = Len(f) + Len(g)
      /\ \A i \in 1 .. Len(f) + Len(g) :
            (f \o g)[i] = IF i <= Len(f) THEN f[i] ELSE g[i - Len(f)]
    BY <1>1, ConcatProperties
<1>3. f \o g # <<>> /\ f[1] \in S
    BY <1>1, <1>2
<1>4. Head(f \o g) = f[1]
    BY <1>1, <1>2
<1>5. /\ Tail(f) \in Seq(S) /\ Len(Tail(f)) = Len(f) - 1
      /\ \A i \in 1 .. Len(f) - 1 : Tail(f)[i] = f[i + 1]
    BY <1>1, HeadTailProperties
<1>6. /\ Tail(f \o g) \in Seq(S) /\ Len(Tail(f \o g)) = Len(f) + Len(g) - 1
      /\ \A i \in 1 .. Len(f) + Len(g) - 1 : Tail(f \o g)[i] = (f \o g)[i + 1]
    BY <1>1, <1>2, <1>3, HeadTailProperties
<1>7. /\ Tail(f) \o g \in Seq(S) /\ Len(Tail(f) \o g) = Len(f) - 1 + Len(g)
      /\ \A i \in 1 .. Len(f) - 1 + Len(g) :
            (Tail(f) \o g)[i] = IF i <= Len(f) - 1 THEN Tail(f)[i] ELSE g[i - (Len(f) - 1)]
    BY <1>1, <1>5, ConcatProperties
<1>8. ASSUME NEW i \in 1 .. Len(Tail(f \o g))
      PROVE  Tail(f \o g)[i] = (Tail(f) \o g)[i]
    <2>1. i \in 1 .. Len(f) + Len(g) - 1 /\ i + 1 \in 1 .. Len(f) + Len(g)
        BY <1>1, <1>6
    <2>2. CASE i <= Len(f) - 1
        BY <1>1, <1>2, <1>5, <1>6, <1>7, <2>1, <2>2
    <2>3. CASE ~(i <= Len(f) - 1)
        <3>1. i + 1 - Len(f) = i - (Len(f) - 1)
            BY <1>1, <2>1
        <3>2. QED
            BY <1>1, <1>2, <1>6, <1>7, <2>1, <2>3, <3>1
    <2>4. QED
        BY <2>2, <2>3
<1>9. Tail(f \o g) = Tail(f) \o g
    BY <1>1, <1>6, <1>7, <1>8, SeqEqual
<1>10. QED
    BY <1>2, <1>3, <1>4, <1>5, <1>9

LEMMA PairConcat ==
    ASSUME NEW a, NEW b
    PROVE  <<a>> \o <<b>> = <<a, b>>
<1> DEFINE S == {a, b}
<1>1. <<a>> \in Seq(S) /\ <<b>> \in Seq(S) /\ <<a, b>> \in Seq(S)
    OBVIOUS
<1>2. /\ <<a>> \o <<b>> \in Seq(S) /\ Len(<<a>> \o <<b>>) = 2
      /\ \A i \in 1 .. 2 : (<<a>> \o <<b>>)[i] = <<a, b>>[i]
    BY <1>1, ConcatProperties
<1>3. QED
    BY <1>1, <1>2, SeqEqual

\* spinlock_lock and spinlock_unlock, on every path.
LEMMA LockCompiled ==
    ASSUME NEW m \in Litmus, NEW l \in Flag
    PROVE  /\ \E i \in Taking(l) : TestAndSetFlag(m, l) = <<i, Again(l)>>
           /\ \E f \in Seq(Looking(l)) : f # <<>> /\ FlagLoad(m, l) = f \o <<Spin(l)>>
           /\ \E i \in Leaving(l) : spinlock_unlock(m, l) = <<i>>
<1>1. PICK i \in Taking(l) : CallOrder(m, Takes(l)) = <<i>>
    BY FlagCalls
<1>2. TestAndSetFlag(m, l) = <<i, Again(l)>>
    BY <1>1, PairConcat DEF TestAndSetFlag, Takes
<1>3. QED
    BY <1>2, FlagCalls DEF FlagLoad, Looks, spinlock_unlock, Leaves

\* A thread that is to read the flag once more, or to try to take the lock.
LEMMA LockingAgain ==
    ASSUME NEW m \in Litmus, NEW l \in Flag, NEW T, NEW back \in Seq(T)
    PROVE  /\ Locking(l, back, FlagLoad(m, l) \o back)
           /\ Locking(l, back, TestAndSetFlag(m, l) \o back)
<1> DEFINE S == Looking(l) \union {Spin(l)} \union T
<1>1. PICK f \in Seq(Looking(l)) : f # <<>> /\ FlagLoad(m, l) = f \o <<Spin(l)>>
    BY LockCompiled
<1>2. f \in Seq(S) /\ <<Spin(l)>> \in Seq(S) /\ back \in Seq(S)
    BY SeqMonotonic
<1>3. (f \o <<Spin(l)>>) \o back = f \o (<<Spin(l)>> \o back)
    BY <1>2, ConcatAssociative
<1>4. QED
    BY <1>1, <1>3, LockCompiled DEF Locking

\* An instruction of spinlock_lock is followed by another one, unless it was
\* the test_and_set and it has found the flag clear.
LEMMA LockingStep ==
    ASSUME NEW m \in Litmus, NEW l \in Flag, NEW T, NEW back \in Seq(T),
           NEW is, Locking(l, back, is), NEW v
    PROVE  /\ is # <<>>
           /\ \/ /\ Head(is) \in Taking(l)
                 /\ v = 0 => Branch(m, Tail(is), v) = back
                 /\ v # 0 => Locking(l, back, Branch(m, Tail(is), v))
              \/ /\ Head(is) \in Looking(l)
                 /\ Locking(l, back, Branch(m, Tail(is), v))
<1> DEFINE S == Taking(l) \union Looking(l) \union {Spin(l), Again(l)} \union T
<1>1. back \in Seq(S) /\ <<Spin(l)>> \in Seq(S) /\ <<Again(l)>> \in Seq(S)
    BY SeqMonotonic
<1>2. CASE \E i \in Taking(l) : is = <<i, Again(l)>> \o back
    <2>1. PICK i \in Taking(l) : is = <<i, Again(l)>> \o back
        BY <1>2
    <2>2. <<i, Again(l)>> \in Seq(S) /\ <<i, Again(l)>> # <<>>
          /\ <<i, Again(l)>>[1] = i /\ Tail(<<i, Again(l)>>) = <<Again(l)>>
        OBVIOUS
    <2>3. /\ is # <<>> /\ Head(is) = i /\ Tail(is) = <<Again(l)>> \o back
        BY <1>1, <2>1, <2>2, RestOfConcat
    <2>4. /\ Tail(is) # <<>> /\ Head(Tail(is)) = Again(l)
          /\ Tail(Tail(is)) = back
        <3> DEFINE a == <<Again(l)>>
        <3>1. a # <<>> /\ a[1] = Again(l) /\ Tail(a) = <<>> /\ a \in Seq(S)
            BY <1>1
        <3>2. <<>> \o back = back
            BY <1>1, ConcatEmptySeq
        <3>3. Tail(is) = a \o back
            BY <2>3
        <3> HIDE DEF a, S
        <3>4. /\ a \o back # <<>> /\ Head(a \o back) = a[1]
              /\ Tail(a \o back) = Tail(a) \o back
            BY <1>1, <3>1, RestOfConcat
        <3>5. QED
            BY <3>1, <3>2, <3>3, <3>4
    <2>5. Branch(m, Tail(is), v) = IF v = 0 THEN back ELSE FlagLoad(m, l) \o back
        <3>1. Head(Tail(is)).do = "again" /\ Head(Tail(is)).lock = l
            BY <2>4 DEF Again
        <3>2. QED
            BY <2>4, <3>1 DEF Branch
    <2>6. QED
        BY <2>3, <2>5, LockingAgain
<1>3. CASE \E f \in Seq(Looking(l)) : f # <<>> /\ is = f \o (<<Spin(l)>> \o back)
    <2>1. PICK f \in Seq(Looking(l)) : f # <<>> /\ is = f \o (<<Spin(l)>> \o back)
        BY <1>3
    <2> DEFINE g == <<Spin(l)>> \o back
    <2>2. /\ g \in Seq(S) /\ g # <<>> /\ Head(g) = Spin(l) /\ Tail(g) = back
        <3>1. <<Spin(l)>> # <<>> /\ <<Spin(l)>>[1] = Spin(l) /\ Tail(<<Spin(l)>>) = <<>>
            OBVIOUS
        <3>2. <<>> \o back = back
            BY <1>1, ConcatEmptySeq
        <3>3. QED
            BY <1>1, <3>1, <3>2, RestOfConcat
    <2>3. f \in Seq(S) /\ Tail(f) \in Seq(Looking(l)) /\ f[1] \in Looking(l)
        BY <2>1, SeqMonotonic, HeadTailProperties, EmptySeq
    <2> HIDE DEF g
    <2>4. /\ is # <<>> /\ Head(is) \in Looking(l) /\ Tail(is) = Tail(f) \o g
        BY <2>1, <2>2, <2>3, RestOfConcat DEF g
    <2>5. CASE Tail(f) = <<>>
        <3>1. Tail(is) = g
            BY <2>2, <2>4, <2>5, ConcatEmptySeq
        <3>2. Branch(m, Tail(is), v) =
                IF v = 1 THEN FlagLoad(m, l) \o back ELSE TestAndSetFlag(m, l) \o back
            <4>0. Spin(l).do = "spin" /\ Spin(l).lock = l
                BY DEF Spin
            <4>1. Head(Tail(is)).do = "spin" /\ Head(Tail(is)).lock = l
                BY Zenon, <2>2, <3>1, <4>0
            <4>2. QED
                BY <2>2, <3>1, <4>1 DEF Branch
        <3>3. QED
            BY <2>4, <3>2, LockingAgain
    <2>6. CASE Tail(f) # <<>>
        <3>1. Tail(f) \in Seq(S) /\ Tail(f)[1] \in Looking(l)
            BY <2>3, <2>6, SeqMonotonic, EmptySeq
        <3> HIDE DEF S
        <3>2. /\ Tail(is) # <<>> /\ Head(Tail(is)) \in Looking(l)
            <4>1. /\ Tail(f) \o g # <<>> /\ Head(Tail(f) \o g) = Tail(f)[1]
                BY <2>2, <2>6, <3>1, RestOfConcat
            <4>2. QED
                BY <2>4, <3>1, <4>1
        <3>3. \A i \in Looking(l) : i.do \notin {"again", "spin"}
            BY DEF Looking, Fence, Load, Rmw, Xchg
        <3>4. Branch(m, Tail(is), v) = Tail(is)
            BY <3>2, <3>3 DEF Branch
        <3>5. QED
            BY <2>3, <2>4, <2>6, <3>4 DEF Locking, g
    <2>7. QED
        BY <2>5, <2>6
<1>4. QED
    BY <1>2, <1>3 DEF Locking

-----------------------------------------------------------------------------
(* The memory                                                              *)

\* A step of t that keeps the memory in order.
Keeps(t) == MemoryOK' /\ Facts!StepOf(t)

LEMMA LoadKeeps ==
    ASSUME MemoryOK, NEW t \in Thread, NEW l \in Location, NEW i \in Memory!Readable(t, l),
           Memory!LoadAcquire(t, l, i) \/ Memory!LoadRelaxed(t, l, i)
    PROVE  /\ Keeps(t) /\ history' = history
           /\ i \in 1 .. Len(history[l]) /\ Memory!Value(l, i) \in Nat
           /\ Memory!Value(l, i) = history[l][i].value
<1>1. i \in Facts!Readable(t, l)
    BY DEF Memory!Readable, Facts!Readable
<1>2. Facts!LoadAcquire(t, l, i) \/ Facts!LoadRelaxed(t, l, i)
    BY DEF Memory!LoadAcquire, Facts!LoadAcquire, Memory!LoadRelaxed, Facts!LoadRelaxed,
           Memory!Join, Facts!Join
<1>3. Keeps(t) /\ history' = history
    BY <1>1, <1>2, Facts!LoadAcquireInv, Facts!LoadRelaxedInv DEF MemoryOK, Keeps
<1>4. i \in 1 .. Len(history[l])
    BY <1>1, Facts!ThreadFacts DEF MemoryOK, Facts!Readable
<1>5. history[l][i].value \in Nat
    BY <1>4, Facts!MessageFacts DEF MemoryOK
<1>6. QED
    BY <1>3, <1>4, <1>5 DEF Memory!Value

LEMMA NewestFacts ==
    ASSUME MemoryOK, NEW l \in Location
    PROVE  /\ Len(history[l]) \in 1 .. Len(history[l])
           /\ Newest(l).value \in Nat
           /\ Newest(l).view \in Facts!View
           /\ Facts!KnownIn(history, Newest(l).view)
           /\ Memory!Latest(l) = Newest(l).value
<1>1. Len(history[l]) \in 1 .. Len(history[l])
    BY DEF MemoryOK, Facts!MemoryInv, Facts!Histories, Facts!KnownIn, Facts!ViewsType,
           Facts!View
<1>2. QED
    BY <1>1, Facts!MessageFacts DEF MemoryOK, Newest, Memory!Latest

LEMMA UnchangedKeeps ==
    ASSUME MemoryOK, NEW t \in Thread, UNCHANGED memory
    PROVE  Keeps(t) /\ history' = history
<1>1. /\ history' = history /\ current' = current /\ acquired' = acquired
      /\ released' = released /\ order' = order
    BY DEF memory
<1>2. MemoryOK'
    BY <1>1 DEF MemoryOK, Facts!MemoryInv, Facts!Histories, Facts!ViewsType,
       Facts!ThreadViews, Facts!KnownIn, Facts!MessagesKnown, Facts!View
<1>3. Facts!StepOf(t)
    BY <1>1, Facts!AtMostReflexive DEF Facts!StepOf, Facts!Extends, MemoryOK,
       Facts!MemoryInv, Facts!ViewsType, Facts!Histories
<1>4. QED
    BY <1>1, <1>2, <1>3 DEF Keeps

LEMMA FenceKeeps ==
    ASSUME MemoryOK, Registers, NEW t \in Thread, DoFence(t)
    PROVE  /\ Keeps(t) /\ history' = history
           /\ Registers' /\ litmus' = litmus /\ raced' = raced /\ Proceed(t)
<1>1. UNCHANGED <<litmus, reg, seen, raced>> /\ Proceed(t)
    BY DEF DoFence
<1>2. \/ UNCHANGED memory
      \/ Memory!FenceAcquire(t) \/ Memory!FenceRelease(t)
      \/ Memory!FenceAcqRel(t) \/ Memory!FenceSeqCst(t)
    BY DEF DoFence
<1>3. \/ UNCHANGED memory
      \/ Facts!FenceAcquire(t) \/ Facts!FenceRelease(t)
      \/ Facts!FenceAcqRel(t) \/ Facts!FenceSeqCst(t)
    BY <1>2 DEF Memory!FenceAcquire, Facts!FenceAcquire, Memory!FenceRelease, Facts!FenceRelease,
           Memory!FenceAcqRel, Facts!FenceAcqRel, Memory!FenceSeqCst, Facts!FenceSeqCst,
           Memory!Join, Facts!Join
<1>4. Keeps(t) /\ history' = history
    BY <1>3, UnchangedKeeps, Facts!FenceInv, Facts!FenceSeqCstInv DEF MemoryOK, Keeps
<1>5. QED
    BY <1>1, <1>4 DEF Registers

\* A store; and what a release store hands on.
LEMMA StoreKeeps ==
    ASSUME MemoryOK, NEW t \in Thread, NEW l \in Location, NEW x \in Nat,
           Memory!StoreRelease(t, l, x) \/ Memory!StoreRelaxed(t, l, x)
    PROVE  /\ Keeps(t) /\ Facts!Stored(l, x)
           /\ Memory!StoreRelease(t, l, x) => Facts!AtMost(current[t], Newest(l)'.view)
<1>1. CASE Memory!StoreRelease(t, l, x)
    <2>1. Facts!StoreRelease(t, l, x)
        BY <1>1 DEF Memory!StoreRelease, Facts!StoreRelease, Memory!Put, Facts!Put
    <2>2. QED
        BY <2>1, Facts!StoreReleaseInv DEF MemoryOK, Keeps, Newest
<1>2. CASE Memory!StoreRelaxed(t, l, x) /\ ~Memory!StoreRelease(t, l, x)
    <2>1. Facts!StoreRelaxed(t, l, x)
        BY <1>2 DEF Memory!StoreRelaxed, Facts!StoreRelaxed, Memory!Put, Facts!Put
    <2>2. QED
        BY <1>2, <2>1, Facts!StoreRelaxedInv DEF MemoryOK, Keeps
<1>3. QED
    BY <1>1, <1>2

LEMMA UpdateKeeps ==
    ASSUME MemoryOK, NEW t \in Thread, NEW l \in Location, NEW x \in Nat,
           NEW a \in BOOLEAN, NEW b \in BOOLEAN, Memory!Update(t, l, x, a, b)
    PROVE  /\ Keeps(t) /\ Facts!Stored(l, x)
           /\ Facts!AtMost(Newest(l).view, Newest(l)'.view)
           /\ a => Facts!AtMost(Newest(l).view, current'[t])
           /\ b => Facts!AtMost(current[t], Newest(l)'.view)
<1>1. Facts!Update(t, l, x, a, b)
    BY DEF Memory!Update, Facts!Update, Memory!Join, Facts!Join
<1>2. /\ Facts!MemoryInv(Nat)' /\ Facts!StepOf(t) /\ Facts!Stored(l, x)
      /\ Facts!AtMost(Newest(l).view, Newest(l)'.view)
      /\ a => Facts!AtMost(Newest(l).view, current'[t])
      /\ b => Facts!AtMost(current'[t], Newest(l)'.view)
    <2>1. Facts!MemoryInv(Nat)
        BY DEF MemoryOK
    <2>2. /\ Facts!MemoryInv(Nat)' /\ Facts!StepOf(t) /\ Facts!Stored(l, x)
          /\ Facts!HandsOn(t, l, a, b)
        BY <1>1, <2>1, Facts!UpdateInv
    <2>3. QED
        BY <2>2 DEF Newest, Facts!HandsOn
<1>3. /\ current[t] \in Facts!View /\ current'[t] \in Facts!View
      /\ Facts!AtMost(current[t], current'[t])
    BY <1>2 DEF MemoryOK, Facts!MemoryInv, Facts!ViewsType, Facts!StepOf
<1>4. MemoryOK' /\ Newest(l)'.view \in Facts!View
    <2>1. Len(history'[l]) = Len(history[l]) + 1 /\ Len(history[l]) \in 1 .. Len(history[l])
        BY <1>2, NewestFacts DEF Facts!Stored
    <2>2. history'[l] \in Seq(Facts!Message(Nat))
        BY <1>2 DEF Facts!MemoryInv, Facts!Histories
    <2>3. Newest(l)' \in Facts!Message(Nat)
        BY <2>1, <2>2 DEF Newest
    <2>4. QED
        BY <1>2, <2>3 DEF MemoryOK, Facts!Message
<1>5. b => Facts!AtMost(current[t], Newest(l)'.view)
    BY <1>2, <1>3, <1>4, Facts!AtMostTransitive
<1>6. QED
    BY <1>2, <1>4, <1>5 DEF Keeps

LEMMA LoadSeqCstKeeps ==
    ASSUME MemoryOK, NEW t \in Thread, NEW l \in Location, Memory!LoadSeqCst(t, l)
    PROVE  Keeps(t) /\ history' = history
<1>1. Facts!LoadSeqCst(t, l)
    BY DEF Memory!LoadSeqCst, Facts!LoadSeqCst, Memory!Synchronized, Facts!Synchronized,
           Memory!LatestView, Facts!LatestView, Memory!Join, Facts!Join
<1>2. QED
    BY <1>1, Facts!LoadSeqCstInv DEF MemoryOK, Keeps

LEMMA UpdateSeqCstKeeps ==
    ASSUME MemoryOK, NEW t \in Thread, NEW l \in Location, NEW x \in Nat,
           Memory!UpdateSeqCst(t, l, x)
    PROVE  /\ Keeps(t) /\ Facts!Stored(l, x)
           /\ Facts!AtMost(Newest(l).view, current'[t])
           /\ Facts!AtMost(current[t], Newest(l)'.view)
           /\ Facts!AtMost(Newest(l).view, Newest(l)'.view)
<1>1. Facts!UpdateSeqCst(t, l, x)
    BY DEF Memory!UpdateSeqCst, Facts!UpdateSeqCst, Memory!Synchronized, Facts!Synchronized,
           Memory!LatestView, Facts!LatestView, Memory!Join, Facts!Join
<1>2. QED
    BY <1>1, Facts!UpdateSeqCstInv DEF MemoryOK, Keeps, Newest

LEMMA AccessKeeps ==
    ASSUME MemoryOK, NEW t \in Thread, NEW l \in Location, NEW x \in Nat,
           Memory!Access(t, l, x)
    PROVE  /\ Keeps(t) /\ Facts!Stored(l, x)
           /\ current'[t][l] = Len(history'[l])
<1>1. Facts!Access(t, l, x)
    BY DEF Memory!Access, Facts!Access, Memory!Put, Facts!Put
<1>2. Facts!MemoryInv(Nat)
    BY DEF MemoryOK
<1>3. /\ Facts!MemoryInv(Nat)' /\ Facts!StepOf(t) /\ Facts!Stored(l, x)
      /\ current'[t] = [current[t] EXCEPT ![l] = Len(history'[l])]
    BY <1>1, <1>2, Facts!AccessInv
<1>4. current[t] \in Facts!View
    BY <1>2 DEF Facts!MemoryInv, Facts!ViewsType
<1>5. current'[t][l] = Len(history'[l])
    BY <1>3, <1>4 DEF Facts!View
<1>6. QED
    BY <1>3, <1>5 DEF Keeps, MemoryOK

-----------------------------------------------------------------------------
(* What an instruction does to the memory, and what its thread gets        *)

ComputedOp == AccessOp \union {"test_and_set", "clear", "fence"}

LEMMA ComputedType ==
    ASSUME NEW r, r.op \in ComputedOp, r.src \in Nat, NEW v \in Nat
    PROVE  Computed(r, v) \in Nat
    BY DEF Computed, ComputedOp, AccessOp

LEMMA ResultTypes ==
    ASSUME Registers, NEW t \in Thread, NEW r, NEW v \in Nat, Result(t, r, v)
    PROVE  /\ Registers'
           /\ Returns(r) => reg'[t] = v
           /\ litmus' = litmus
<1>1. reg' \in [Thread -> Nat] /\ (Returns(r) => reg'[t] = v)
    BY DEF Result, Registers
<1>2. Append(seen[t], v) \in Seq(Nat)
    BY DEF Registers
<1>3. seen' \in [Thread -> Seq(Nat)]
    BY <1>2 DEF Result, Registers
<1>4. QED
    BY <1>1, <1>3 DEF Registers, Result

\* Any instruction of calls C on objects keeps the memory in order, and stores
\* to no location but that of its call.
LEMMA InstructionKeeps ==
    ASSUME MemoryOK, Registers, NEW t \in Thread, NEW C,
           \A r \in C : /\ r.op \in ComputedOp /\ r.obj \in Location
                        /\ r.src \in Nat /\ r.exp \in Nat,
           Head(todo[t]) \in Instructions(C), Step(t)
    PROVE  /\ Keeps(t) /\ Registers' /\ litmus' = litmus /\ raced' = raced /\ Proceed(t)
           /\ \/ history' = history
              \/ \E r \in C, x \in Nat : Facts!Stored(r.obj, x)
<1> DEFINE i == Head(todo[t])
           r == i.call
<1>1. /\ i.do \in {"fence", "load", "store", "rmw", "xchg"}
      /\ i.do = "fence" => i.order \in Order
      /\ i.do # "fence" => r \in C
      /\ i.do = "load" => i.acquires \in BOOLEAN
      /\ i.do = "store" => i.releases \in BOOLEAN
      /\ i.do = "rmw" => i.acquires \in BOOLEAN /\ i.releases \in BOOLEAN
    BY DEF Instructions, Fences
<1>2. CASE DoFence(t)
    BY <1>2, FenceKeeps
<1>3. CASE DoLoad(t) \/ DoFailedSwap(t)
    <2>1. r \in C /\ Proceed(t) /\ raced' = raced
        BY <1>1, <1>3 DEF DoLoad, DoFailedSwap, At
    <2>2. PICK k \in Memory!Readable(t, r.obj) :
            /\ Memory!LoadAcquire(t, r.obj, k) \/ Memory!LoadRelaxed(t, r.obj, k)
            /\ Result(t, r, Memory!Value(r.obj, k))
        BY <1>3 DEF DoLoad, DoFailedSwap
    <2>3. Keeps(t) /\ history' = history /\ Memory!Value(r.obj, k) \in Nat
        BY <2>1, <2>2, LoadKeeps
    <2>4. QED
        BY <2>1, <2>2, <2>3, ResultTypes
<1>4. CASE DoStore(t)
    <2>1. r \in C /\ Proceed(t) /\ UNCHANGED <<litmus, reg, seen, raced>>
        BY <1>1, <1>4 DEF DoStore, At
    <2>2. Memory!StoreRelease(t, r.obj, r.src) \/ Memory!StoreRelaxed(t, r.obj, r.src)
        BY <1>4 DEF DoStore
    <2>3. Keeps(t) /\ Facts!Stored(r.obj, r.src) /\ r.src \in Nat
        BY <2>1, <2>2, StoreKeeps
    <2>4. QED
        BY <2>1, <2>3 DEF Registers
<1> DEFINE v == Memory!Latest(r.obj)
<1>5. ASSUME r \in C
      PROVE  v \in Nat /\ Computed(r, v) \in Nat
    <2>1. v \in Nat
        BY <1>5, NewestFacts
    <2>2. QED
        BY <1>5, <2>1, ComputedType
<1>6. CASE DoRmw(t)
    <2>1. r \in C /\ Proceed(t) /\ raced' = raced
        BY <1>1, <1>6 DEF DoRmw, At
    <2>2. /\ Memory!Update(t, r.obj, Computed(r, v), i.acquires, i.releases)
          /\ Result(t, r, v)
          /\ i.acquires \in BOOLEAN /\ i.releases \in BOOLEAN
        BY <1>1, <1>6 DEF DoRmw, At
    <2>3. Keeps(t) /\ Facts!Stored(r.obj, Computed(r, v))
        BY <1>5, <2>1, <2>2, UpdateKeeps
    <2>4. QED
        BY <1>5, <2>1, <2>2, <2>3, ResultTypes
<1>7. CASE DoXchg(t)
    <2>1. /\ r \in C /\ Proceed(t) /\ raced' = raced
          /\ Result(t, r, v)
        BY <1>1, <1>7 DEF DoXchg, At
    <2>2. \/ Memory!LoadSeqCst(t, r.obj)
          \/ Memory!UpdateSeqCst(t, r.obj, Computed(r, v))
        BY <1>7 DEF DoXchg
    <2>3. Keeps(t) /\ (history' = history \/ Facts!Stored(r.obj, Computed(r, v)))
        BY <1>5, <2>1, <2>2, LoadSeqCstKeeps, UpdateSeqCstKeeps
    <2>4. QED
        BY <1>5, <2>1, <2>3, ResultTypes
<1>8. ~DoPlain(t) /\ ~DoRequire(t)
    BY <1>1 DEF DoPlain, DoRequire, At
<1>9. QED
    BY <1>2, <1>3, <1>4, <1>6, <1>7, <1>8 DEF Step

LEMMA FlagLocations == Flag \subseteq Location
    BY DEF Flag, Location

\* Looking at the flag leaves it as it is. (A swap of 0 and 0 may store a 0 on
\* top of a 0, and hands on what that one did.)
LEMMA LookKeeps ==
    ASSUME MemoryOK, Registers, NEW t \in Thread, NEW l \in Flag,
           Head(todo[t]) \in Looking(l), Step(t)
    PROVE  /\ Keeps(t) /\ Registers' /\ litmus' = litmus /\ raced' = raced /\ Proceed(t)
           /\ \/ history' = history
              \/ /\ Facts!Stored(l, Newest(l).value)
                 /\ Facts!AtMost(Newest(l).view, Newest(l)'.view)
<1> DEFINE i == Head(todo[t])
           r == i.call
           f == Looks(l)
           v == Memory!Latest(l)
<1>1. l \in Location /\ v \in Nat /\ v = Newest(l).value
    BY FlagLocations, NewestFacts
<1>2. /\ f.obj = l /\ f.op = "flag_load"
      /\ AsSwap(f).obj = l /\ AsSwap(f).op = "compare_and_swap"
      /\ AsSwap(f).src = 0 /\ AsSwap(f).exp = 0
    BY DEF Looks, Call, AsSwap
<1>3. /\ i.do \in {"fence", "load", "rmw", "xchg"}
      /\ i.do = "fence" => i.order = seq_cst
      /\ i.do = "load" => r = f
      /\ i.do = "rmw" => r = AsSwap(f) /\ i.acquires = TRUE /\ i.releases = TRUE
      /\ i.do = "xchg" => r = AsSwap(f)
    BY DEF Looking, Fence, Load, Rmw, Xchg
<1>4. CASE DoFence(t)
    BY <1>4, FenceKeeps
<1>5. CASE DoLoad(t) \/ DoFailedSwap(t)
    <2>1. r.obj = l /\ Proceed(t) /\ raced' = raced
        BY <1>2, <1>3, <1>5 DEF DoLoad, DoFailedSwap, At
    <2>2. PICK k \in Memory!Readable(t, r.obj) :
            /\ Memory!LoadAcquire(t, r.obj, k) \/ Memory!LoadRelaxed(t, r.obj, k)
            /\ Result(t, r, Memory!Value(r.obj, k))
        BY <1>5 DEF DoLoad, DoFailedSwap
    <2>3. Keeps(t) /\ history' = history /\ Memory!Value(r.obj, k) \in Nat
        BY <1>1, <2>1, <2>2, LoadKeeps
    <2>4. QED
        BY <2>1, <2>2, <2>3, ResultTypes
<1>6. Computed(AsSwap(f), 0) = 0
    BY <1>2 DEF Computed
<1>7. CASE DoRmw(t)
    <2>1. r = AsSwap(f) /\ i.acquires = TRUE /\ i.releases = TRUE
        BY <1>3, <1>7 DEF DoRmw, At
    <2>2. /\ Proceed(t) /\ raced' = raced /\ v = 0 /\ Result(t, r, v)
          /\ Memory!Update(t, l, Computed(r, v), i.acquires, i.releases)
        BY <1>2, <1>7, <2>1 DEF DoRmw
    <2>3. Memory!Update(t, l, 0, TRUE, TRUE)
        BY <1>6, <2>1, <2>2
    <2>4. /\ Keeps(t) /\ Facts!Stored(l, 0)
          /\ Facts!AtMost(Newest(l).view, Newest(l)'.view)
        BY <1>1, <2>3, UpdateKeeps
    <2>5. QED
        BY <1>1, <2>2, <2>4, ResultTypes
<1>8. CASE DoXchg(t)
    <2>1. r = AsSwap(f)
        BY <1>3, <1>8 DEF DoXchg, At
    <2>2. /\ Proceed(t) /\ raced' = raced /\ Result(t, r, v)
          /\ \/ Memory!LoadSeqCst(t, l)
             \/ v = 0 /\ Memory!UpdateSeqCst(t, l, Computed(r, v))
        BY <1>2, <1>8, <2>1 DEF DoXchg
    <2>3. CASE Memory!LoadSeqCst(t, l)
        BY <1>1, <2>2, <2>3, LoadSeqCstKeeps, ResultTypes
    <2>4. CASE v = 0 /\ Memory!UpdateSeqCst(t, l, Computed(r, v))
        <3>1. Memory!UpdateSeqCst(t, l, 0)
            BY <1>6, <2>1, <2>4
        <3>2. /\ Keeps(t) /\ Facts!Stored(l, 0)
              /\ Facts!AtMost(Newest(l).view, Newest(l)'.view)
            BY <1>1, <3>1, UpdateSeqCstKeeps
        <3>3. QED
            BY <1>1, <2>2, <2>4, <3>2, ResultTypes
    <2>5. QED
        BY <2>2, <2>3, <2>4
<1>9. ~DoPlain(t) /\ ~DoRequire(t) /\ ~DoStore(t)
    BY <1>3 DEF DoPlain, DoRequire, DoStore, At
<1>10. QED
    BY <1>4, <1>5, <1>7, <1>8, <1>9 DEF Step

\* test_and_set gives its thread what was last there, and with it what whoever
\* stored that has handed on.
LEMMA TakeKeeps ==
    ASSUME MemoryOK, Registers, NEW t \in Thread, NEW l \in Flag,
           Head(todo[t]) \in Taking(l), Step(t)
    PROVE  /\ Keeps(t) /\ Registers' /\ litmus' = litmus /\ raced' = raced /\ Proceed(t)
           /\ Facts!Stored(l, 1) /\ reg'[t] = Newest(l).value
           /\ Facts!AtMost(Newest(l).view, current'[t])
           /\ Facts!AtMost(Newest(l).view, Newest(l)'.view)
<1> DEFINE i == Head(todo[t])
           r == Takes(l)
           v == Memory!Latest(l)
<1>1. l \in Location /\ v \in Nat /\ v = Newest(l).value
    BY FlagLocations, NewestFacts
<1>2. /\ r.obj = l /\ r.op = "test_and_set" /\ r.src = 1 /\ Returns(r)
      /\ Computed(r, v) = 1
    BY DEF Takes, Call, Computed, Returns
<1>3. /\ i.do \in {"rmw", "xchg"} /\ i.call = r
      /\ i.do = "rmw" => i.acquires = TRUE /\ i.releases = FALSE
    BY DEF Taking, Rmw, Xchg
<1> HIDE DEF r
<1>4. CASE DoRmw(t)
    <2>1. i.acquires = TRUE /\ i.releases = FALSE
        BY <1>3, <1>4 DEF DoRmw, At
    <2>2. /\ Proceed(t) /\ raced' = raced /\ Result(t, r, v)
          /\ Memory!Update(t, l, 1, i.acquires, i.releases)
        BY <1>2, <1>3, <1>4 DEF DoRmw
    <2>3. Memory!Update(t, l, 1, TRUE, FALSE)
        BY <2>1, <2>2
    <2>4. /\ Keeps(t) /\ Facts!Stored(l, 1)
          /\ Facts!AtMost(Newest(l).view, Newest(l)'.view)
          /\ Facts!AtMost(Newest(l).view, current'[t])
        BY <1>1, <2>3, UpdateKeeps
    <2>5. QED
        BY <1>1, <1>2, <2>2, <2>4, ResultTypes
<1>5. CASE DoXchg(t)
    <2>1. /\ Proceed(t) /\ raced' = raced /\ Result(t, r, v)
          /\ Memory!UpdateSeqCst(t, l, 1)
        BY <1>2, <1>3, <1>5 DEF DoXchg
    <2>2. /\ Keeps(t) /\ Facts!Stored(l, 1)
          /\ Facts!AtMost(Newest(l).view, Newest(l)'.view)
          /\ Facts!AtMost(Newest(l).view, current'[t])
        BY <1>1, <2>1, UpdateSeqCstKeeps
    <2>3. QED
        BY <1>1, <1>2, <2>1, <2>2, ResultTypes
<1>6. /\ ~DoPlain(t) /\ ~DoRequire(t) /\ ~DoStore(t) /\ ~DoFence(t) /\ ~DoLoad(t)
      /\ ~DoFailedSwap(t)
    BY <1>2, <1>3 DEF DoPlain, DoRequire, DoStore, DoFence, DoLoad, DoFailedSwap, At
<1>7. QED
    BY <1>4, <1>5, <1>6 DEF Step

\* clear hands on all that its thread knows.
LEMMA LeaveKeeps ==
    ASSUME MemoryOK, Registers, NEW t \in Thread, NEW l \in Flag,
           Head(todo[t]) \in Leaving(l), Step(t)
    PROVE  /\ Keeps(t) /\ Registers' /\ litmus' = litmus /\ raced' = raced /\ Proceed(t)
           /\ Facts!Stored(l, 0)
           /\ Facts!AtMost(current[t], Newest(l)'.view)
<1> DEFINE i == Head(todo[t])
           r == Leaves(l)
           v == Memory!Latest(l)
<1>1. l \in Location /\ v \in Nat
    BY FlagLocations, NewestFacts
<1>2. /\ r.obj = l /\ r.op = "clear" /\ r.src = 0
      /\ Computed(r, v) = 0
    BY DEF Leaves, Call, Computed
<1>3. /\ i.do \in {"rmw", "xchg", "store"} /\ i.call = r
      /\ i.do = "rmw" => i.acquires = FALSE /\ i.releases = TRUE
      /\ i.do = "store" => i.releases = TRUE
    BY DEF Leaving, Rmw, Xchg, Store
<1> HIDE DEF r
<1>4. CASE DoRmw(t)
    <2>1. i.acquires = FALSE /\ i.releases = TRUE
        BY <1>3, <1>4 DEF DoRmw, At
    <2>2. /\ Proceed(t) /\ raced' = raced /\ Result(t, r, v)
          /\ Memory!Update(t, l, 0, i.acquires, i.releases)
        BY <1>2, <1>3, <1>4 DEF DoRmw
    <2>3. Memory!Update(t, l, 0, FALSE, TRUE)
        BY <2>1, <2>2
    <2>4. /\ Keeps(t) /\ Facts!Stored(l, 0)
          /\ Facts!AtMost(current[t], Newest(l)'.view)
        BY <1>1, <2>3, UpdateKeeps
    <2>5. QED
        BY <1>1, <2>2, <2>4, ResultTypes
<1>5. CASE DoXchg(t)
    <2>1. /\ Proceed(t) /\ raced' = raced /\ Result(t, r, v)
          /\ Memory!UpdateSeqCst(t, l, 0)
        BY <1>2, <1>3, <1>5 DEF DoXchg
    <2>2. /\ Keeps(t) /\ Facts!Stored(l, 0)
          /\ Facts!AtMost(current[t], Newest(l)'.view)
        BY <1>1, <2>1, UpdateSeqCstKeeps
    <2>3. QED
        BY <1>1, <2>1, <2>2, ResultTypes
<1>6. CASE DoStore(t)
    <2>1. /\ Proceed(t) /\ UNCHANGED <<litmus, reg, seen, raced>>
          /\ Memory!StoreRelease(t, l, 0)
        BY <1>2, <1>3, <1>6 DEF DoStore, At
    <2>2. /\ Keeps(t) /\ Facts!Stored(l, 0)
          /\ Facts!AtMost(current[t], Newest(l)'.view)
        BY <1>1, <2>1, StoreKeeps
    <2>3. QED
        BY <2>1, <2>2 DEF Registers
<1>7. /\ ~DoPlain(t) /\ ~DoRequire(t) /\ ~DoFence(t) /\ ~DoLoad(t)
      /\ ~DoFailedSwap(t)
    BY <1>2, <1>3 DEF DoPlain, DoRequire, DoFence, DoLoad, DoFailedSwap, At
<1>8. QED
    BY <1>4, <1>5, <1>6, <1>7 DEF Step

\* A plain access; it races when its thread is not ordered after another.
LEMMA PlainKeeps ==
    ASSUME MemoryOK, Registers, NEW t \in Thread, NEW r \in Calls, Operates(r),
           Head(todo[t]) = Plain(r), Step(t)
    PROVE  /\ Keeps(t) /\ Registers' /\ litmus' = litmus /\ Proceed(t)
           /\ raced' = (raced \/ current[t][r.obj] # Len(history[r.obj]))
           /\ \E x \in Nat : Facts!Stored(r.obj, x)
           /\ current'[t][r.obj] = Len(history'[r.obj])
<1> DEFINE v == Memory!Latest(r.obj)
<1>1. /\ r.obj \in Location /\ r.op \in ComputedOp /\ r.src \in Nat
    BY DEF Calls, Operates, Accesses, ComputedOp
<1>2. v \in Nat /\ Computed(r, v) \in Nat
    BY <1>1, NewestFacts, ComputedType
<1>3. Head(todo[t]).do = "plain" /\ Head(todo[t]).call = r
    BY DEF Plain
<1>4. DoPlain(t)
    BY <1>3 DEF Step, DoFence, DoLoad, DoStore, DoRmw, DoFailedSwap, DoXchg, DoRequire, At
<1>5. /\ Memory!Access(t, r.obj, Computed(r, v)) /\ Result(t, r, v) /\ Proceed(t)
      /\ raced' = (raced \/ current[t][r.obj] # Len(history[r.obj]))
    BY <1>3, <1>4 DEF DoPlain, Memory!Ordered
<1>6. QED
    BY <1>1, <1>2, <1>5, AccessKeeps, ResultTypes

-----------------------------------------------------------------------------
(* What keeps a lock in order                                              *)

LEMMA ProtectedLocations ==
    ASSUME litmus \in Litmus, NEW l \in Flag
    PROVE  /\ Protected(l) \subseteq Location \ Flag
           /\ litmus' = litmus => Protected(l)' = Protected(l)
    BY Constants DEF Protected, Location

\* A thread that was ordered after all accesses to x still is, when there are
\* no more of them; and so are those who acquire what was last stored to l.
LEMMA StillOrdered ==
    ASSUME MemoryOK, NEW t \in Thread, Keeps(t), NEW u \in Thread, NEW x \in Location,
           history'[x] = history[x], current[u][x] = Len(history[x])
    PROVE  current'[u][x] = Len(history'[x])
<1>1. /\ current[u][x] <= current'[u][x]
      /\ current'[u][x] \in 1 .. Len(history'[x])
      /\ Len(history[x]) \in Nat
    BY DEF Keeps, MemoryOK, Facts!StepOf, Facts!AtMost, Facts!MemoryInv, Facts!ThreadViews,
           Facts!KnownIn, Facts!Histories
<1>2. QED
    BY <1>1

LEMMA StoredFacts ==
    ASSUME MemoryOK, NEW t \in Thread, Keeps(t), NEW l \in Location, NEW v,
           Facts!Stored(l, v)
    PROVE  /\ Newest(l)'.value = v
           /\ Newest(l)'.view \in Facts!View
           /\ Facts!KnownIn(history', Newest(l)'.view)
           /\ \A k \in Location \ {l} : history'[k] = history[k] /\ Newest(k)' = Newest(k)
<1>1. /\ Len(history'[l]) \in 1 .. Len(history'[l])
    BY NewestFacts DEF Facts!Stored
<1>2. /\ history'[l] \in Seq(Facts!Message(Nat))
      /\ \A i \in 1 .. Len(history'[l]) : Facts!KnownIn(history', history'[l][i].view)
    BY DEF Keeps, MemoryOK, Facts!MemoryInv, Facts!Histories, Facts!MessagesKnown
<1>3. /\ Newest(l)' \in Facts!Message(Nat)
      /\ Facts!KnownIn(history', Newest(l)'.view)
    BY <1>1, <1>2 DEF Newest
<1>4. QED
    BY <1>3 DEF Facts!Stored, Newest, Facts!Message

\* The same threads have l, nobody has accessed what it protects, and its
\* flag has at most been given again the value it had.
LEMMA LockKept ==
    ASSUME litmus \in Litmus, MemoryOK, NEW t \in Thread, Keeps(t), litmus' = litmus,
           NEW l \in Flag, LockInv(l),
           \A u \in Thread : Holds(u, l)' <=> Holds(u, l),
           \A x \in Protected(l) : history'[x] = history[x],
           \/ history'[l] = history[l]
           \/ /\ Facts!Stored(l, Newest(l).value)
              /\ Facts!AtMost(Newest(l).view, Newest(l)'.view)
    PROVE  LockInv(l)'
<1>1. /\ Protected(l) \subseteq Location /\ Protected(l)' = Protected(l)
      /\ l \in Location
    BY ProtectedLocations, FlagLocations
<1>2. \A u, w \in Thread : Holds(u, l)' /\ Holds(w, l)' => u = w
    BY DEF LockInv
<1>3. /\ Newest(l)'.value = Newest(l).value
      /\ \A x \in Protected(l) : Newest(l).view[x] = Len(history[x])
                                  => Newest(l)'.view[x] = Len(history'[x])
    <2>1. CASE history'[l] = history[l]
        BY <2>1 DEF Newest
    <2>2. CASE /\ Facts!Stored(l, Newest(l).value)
               /\ Facts!AtMost(Newest(l).view, Newest(l)'.view)
        <3>1. /\ Newest(l)'.value = Newest(l).value
              /\ Facts!KnownIn(history', Newest(l)'.view)
              /\ Newest(l)'.view \in Facts!View
            BY <1>1, <2>2, StoredFacts
        <3>2. ASSUME NEW x \in Protected(l), Newest(l).view[x] = Len(history[x])
              PROVE  Newest(l)'.view[x] = Len(history'[x])
            <4>1. /\ Newest(l).view[x] <= Newest(l)'.view[x]
                  /\ Newest(l)'.view[x] \in 1 .. Len(history'[x])
                  /\ Len(history[x]) \in Nat
                BY <1>1, <2>2, <3>1 DEF Facts!AtMost, Facts!KnownIn, MemoryOK,
                   Facts!MemoryInv, Facts!Histories
            <4>2. QED
                BY <3>2, <4>1
        <3>3. QED
            BY <3>1, <3>2
    <2>3. QED
        BY <2>1, <2>2
<1>4. ASSUME NEW u \in Thread, Holds(u, l)'
      PROVE  /\ Newest(l)'.value = 1
             /\ \A x \in Protected(l) : current'[u][x] = Len(history'[x])
    <2>1. /\ Newest(l).value = 1
          /\ \A x \in Protected(l) : current[u][x] = Len(history[x])
        BY <1>4 DEF LockInv
    <2>2. QED
        BY <1>1, <1>3, <2>1, StillOrdered
<1>5. QED
    BY <1>1, <1>2, <1>3, <1>4 DEF LockInv

\* t has found the flag clear and set it: it alone has the lock, and it knows
\* what the last one to leave did.
LEMMA LockTaken ==
    ASSUME litmus \in Litmus, MemoryOK, NEW t \in Thread, Keeps(t), litmus' = litmus,
           NEW l \in Flag, LockInv(l), Newest(l).value = 0,
           \A u \in Thread \ {t} : Holds(u, l)' => Holds(u, l),
           Facts!Stored(l, 1), Facts!AtMost(Newest(l).view, current'[t])
    PROVE  LockInv(l)'
<1>1. /\ Protected(l) \subseteq Location \ {l} /\ Protected(l)' = Protected(l)
      /\ l \in Location
    BY ProtectedLocations, FlagLocations
<1>2. \A u \in Thread \ {t} : ~Holds(u, l)'
    BY DEF LockInv
<1>3. /\ Newest(l)'.value = 1
      /\ \A x \in Protected(l) : history'[x] = history[x]
    BY <1>1, StoredFacts
<1>4. ASSUME NEW x \in Protected(l)
      PROVE  current'[t][x] = Len(history'[x])
    <2>1. /\ Newest(l).view[x] = Len(history[x])
          /\ Newest(l).view[x] <= current'[t][x]
        BY <1>1 DEF LockInv, Facts!AtMost
    <2>2. current'[t][x] \in 1 .. Len(history'[x]) /\ Len(history[x]) \in Nat
        BY <1>1 DEF Keeps, MemoryOK, Facts!MemoryInv, Facts!ThreadViews, Facts!KnownIn,
                    Facts!Histories
    <2>3. QED
        BY <1>3, <2>1, <2>2
<1>5. QED
    BY <1>1, <1>2, <1>3, <1>4 DEF LockInv

\* t, which has the lock, leaves it: the next one will know what t knows.
LEMMA LockLeft ==
    ASSUME litmus \in Litmus, MemoryOK, NEW t \in Thread, Keeps(t), litmus' = litmus,
           NEW l \in Flag, LockInv(l), Holds(t, l), ~Holds(t, l)',
           \A u \in Thread \ {t} : Holds(u, l)' => Holds(u, l),
           Facts!Stored(l, 0), Facts!AtMost(current[t], Newest(l)'.view)
    PROVE  LockInv(l)'
<1>1. /\ Protected(l) \subseteq Location \ {l} /\ Protected(l)' = Protected(l)
      /\ l \in Location
    BY ProtectedLocations, FlagLocations
<1>2. \A u \in Thread : ~Holds(u, l)'
    BY DEF LockInv
<1>3. /\ Facts!KnownIn(history', Newest(l)'.view)
      /\ \A x \in Protected(l) : history'[x] = history[x]
    BY <1>1, StoredFacts
<1>4. ASSUME NEW x \in Protected(l)
      PROVE  Newest(l)'.view[x] = Len(history'[x])
    <2>1. /\ current[t][x] = Len(history[x])
          /\ current[t][x] <= Newest(l)'.view[x]
        BY <1>1 DEF LockInv, Facts!AtMost
    <2>2. Newest(l)'.view[x] \in 1 .. Len(history'[x]) /\ Len(history[x]) \in Nat
        BY <1>1, <1>3 DEF Facts!KnownIn, MemoryOK, Facts!MemoryInv, Facts!Histories
    <2>3. QED
        BY <1>3, <2>1, <2>2
<1>5. QED
    BY <1>1, <1>2, <1>4 DEF LockInv

\* t, which has the lock, accesses something that it protects.
LEMMA LockUsed ==
    ASSUME litmus \in Litmus, MemoryOK, NEW t \in Thread, Keeps(t), litmus' = litmus,
           NEW l \in Flag, LockInv(l), Holds(t, l),
           \A u \in Thread : Holds(u, l)' <=> Holds(u, l),
           NEW y \in Protected(l), NEW v, Facts!Stored(y, v),
           current'[t][y] = Len(history'[y])
    PROVE  LockInv(l)'
<1>1. /\ Protected(l) \subseteq Location \ {l} /\ Protected(l)' = Protected(l)
      /\ l \in Location
    BY ProtectedLocations, FlagLocations
<1>2. Newest(l)' = Newest(l) /\ Newest(l).value = 1
    BY <1>1, StoredFacts DEF LockInv
<1>3. ASSUME NEW x \in Protected(l)
      PROVE  current'[t][x] = Len(history'[x])
    <2>1. CASE x # y
        <3>1. history'[x] = history[x] /\ current[t][x] = Len(history[x])
            BY <1>1, <2>1, StoredFacts DEF LockInv
        <3>2. QED
            BY <1>1, <3>1, StillOrdered
    <2>2. QED
        BY <2>1
<1>4. \A u \in Thread : Holds(u, l)' => u = t
    BY DEF LockInv
<1>5. QED
    BY <1>1, <1>2, <1>3, <1>4 DEF LockInv

-----------------------------------------------------------------------------
(* Where a step takes its thread                                           *)

LEMMA FlagInstructions ==
    ASSUME NEW l \in Flag
    PROVE  /\ \A i \in Taking(l) \union Looking(l) :
                    i \notin Leaving(GlobalLock) /\ \A r : i # Plain(r)
           /\ \A i \in Leaving(l) : \A r : i # Plain(r)
<1>1. /\ Takes(l) # Leaves(GlobalLock) /\ Looks(l) # Leaves(GlobalLock)
      /\ AsSwap(Looks(l)) # Leaves(GlobalLock)
    <2>1. /\ Takes(l).op = "test_and_set" /\ Looks(l).op = "flag_load"
          /\ AsSwap(Looks(l)).op = "compare_and_swap"
          /\ Leaves(GlobalLock).op = "clear"
        BY DEF Takes, Looks, Leaves, Call, AsSwap
    <2>2. QED
        BY <2>1
<1>2. ASSUME NEW i \in Taking(l) \union Looking(l)
      PROVE  i \notin Leaving(GlobalLock) /\ i.do # "plain"
    <2>1. /\ i.do \in {"fence", "load", "rmw", "xchg"}
          /\ i.do \in {"rmw", "xchg"} => i.call # Leaves(GlobalLock)
        BY <1>1 DEF Taking, Looking, Fence, Load, Rmw, Xchg
    <2>2. \A j \in Leaving(GlobalLock) :
            j.do \in {"rmw", "xchg", "store"} /\ j.call = Leaves(GlobalLock)
        BY DEF Leaving, Rmw, Xchg, Store
    <2>3. QED
        BY <2>1, <2>2
<1>3. \A i \in Leaving(l) : i.do # "plain"
    BY DEF Leaving, Rmw, Xchg, Store
<1>4. \A r : Plain(r).do = "plain"
    BY DEF Plain
<1>5. QED
    BY <1>2, <1>3, <1>4

\* Every call begins outside the section of the global lock.
LEMMA CompiledControl ==
    ASSUME litmus \in Litmus, NEW r \in Calls
    PROVE  /\ Control(r, Compile(litmus, r))
           /\ IsLocked(litmus, r) =>
                Head(Compile(litmus, r)) \notin {Plain(r)} \union Leaving(GlobalLock)
<1> DEFINE is == Compile(litmus, r)
<1>1. litmus.locked \subseteq Object \union Locals /\ UserLock \in Flag /\ GlobalLock \in Flag
    BY Constants DEF Flag
<1>2. /\ r.op \in AccessOp \union {"fence", "require", "lock", "unlock"}
      /\ Accesses(r) => r.obj \in Object \union Data
      /\ r.op = "fence" => r.obj \in Locals
    BY DEF Calls, Location
<1>3. CASE r.op = "require"
    BY <1>3 DEF Compile, Control, IsLocked, Operates, Accesses, AccessOp
<1>4. CASE r.op = "lock"
    <2>1. is = TestAndSetFlag(litmus, UserLock)
        BY <1>4 DEF Compile, spinlock_lock, Operates, Accesses, AccessOp
    <2>2. PICK i \in Taking(UserLock) : is = <<i, Again(UserLock)>>
        BY <1>1, <2>1, LockCompiled
    <2>3. <<i, Again(UserLock)>> \o <<>> = <<i, Again(UserLock)>>
        <3>1. <<i, Again(UserLock)>> \in Seq({i, Again(UserLock)})
            OBVIOUS
        <3>2. QED
            BY <3>1, ConcatEmptySeq
    <2>4. Locking(UserLock, <<>>, is)
        BY <2>2, <2>3 DEF Locking
    <2>5. QED
        BY <1>4, <2>4 DEF Control, IsLocked, Operates, Accesses, AccessOp
<1>5. CASE r.op = "unlock"
    <2>1. is = spinlock_unlock(litmus, UserLock)
        BY <1>5 DEF Compile, Operates, Accesses, AccessOp
    <2>2. QED
        BY <1>1, <1>5, <2>1, LockCompiled DEF Control, IsLocked, Operates, Accesses, AccessOp
<1>6. CASE IsData(r)
    <2>1. is = <<Plain(r)>>
        BY <1>6, Constants DEF Compile, IsData, Operates, Accesses, AccessOp
    <2>2. ~IsLocked(litmus, r)
        BY <1>1, <1>6, Constants DEF IsData, IsLocked
    <2>3. QED
        BY <1>6, <2>1, <2>2 DEF Control
<1>7. CASE IsFree(litmus, r)
    <2>1. is = CallOrder(litmus, r)
        BY <1>7, Constants DEF Compile, IsFree, FreeObjects, Operates, Accesses, AccessOp
    <2>2. is \in Seq(Instructions(FreeCalls(litmus)))
        BY <1>7, <2>1, FreeCallsCompiled
    <2>3. ~IsLocked(litmus, r)
        BY <1>7 DEF IsFree, FreeObjects, IsLocked, Operates, Accesses, AccessOp
    <2>4. QED
        BY <1>7, <2>2, <2>3 DEF Control
<1>8. CASE IsLocked(litmus, r)
    <2>1. is = Locked(litmus, r)
        BY <1>1, <1>8, Constants DEF Compile, IsLocked, Operates, Accesses, AccessOp
    <2>2. PICK i \in Taking(GlobalLock) :
            spinlock_lock(litmus, GlobalLock) = <<i, Again(GlobalLock)>>
        BY <1>1, LockCompiled DEF spinlock_lock
    <2>3. PICK j \in Leaving(GlobalLock) : spinlock_unlock(litmus, GlobalLock) = <<j>>
        BY <1>1, LockCompiled
    <2> DEFINE a == <<i, Again(GlobalLock)>>
               S == {i, Again(GlobalLock), Plain(r), j}
    <2>4. /\ a \in Seq(S) /\ <<Plain(r)>> \in Seq(S) /\ <<j>> \in Seq(S)
          /\ <<Plain(r), j>> \in Seq(S) /\ a # <<>> /\ a[1] = i
        OBVIOUS
    <2> HIDE DEF a, S
    <2>5. is = (a \o <<Plain(r)>>) \o <<j>>
        BY <2>1, <2>2, <2>3 DEF Locked, a
    <2>6. is = a \o <<Plain(r), j>>
        BY <2>4, <2>5, ConcatAssociative, PairConcat
    <2>7. Locking(GlobalLock, <<Plain(r), j>>, is)
        BY <2>6 DEF Locking, a
    <2>8. Head(is) = i
        BY <2>4, <2>6, RestOfConcat
    <2>9. Head(is) \notin {Plain(r)} \union Leaving(GlobalLock)
        BY <1>1, <2>8, FlagInstructions
    <2>10. QED
        BY <1>8, <2>7, <2>9 DEF Control
<1>9. QED
    BY <1>2, <1>3, <1>4, <1>5, <1>6, <1>7, <1>8 DEF IsData, IsFree, IsLocked, FreeObjects, Operates, Accesses

\* Only t has moved.
Moved(t) ==
    /\ pc' \in [Thread -> Nat \ {0}]
    /\ DOMAIN todo' = Thread
    /\ \A u \in Thread \ {t} : pc'[u] = pc[u] /\ todo'[u] = todo[u]

\* t goes on with the instructions is of the same call.
StaysAt(t, is) == Moved(t) /\ pc'[t] = pc[t] /\ todo'[t] = is

\* t begins its next call.
MovesOn(t) ==
    Moved(t) /\ pc'[t] = pc[t] + 1 /\ todo'[t] = Code(litmus, t, pc[t] + 1)

LEMMA ProceedMoves ==
    ASSUME TypeInv, NEW t \in Thread, Proceed(t),
           NEW is, is = Branch(litmus, Tail(todo[t]), reg'[t])
    PROVE  \/ is # <<>> /\ StaysAt(t, is)
           \/ is = <<>> /\ MovesOn(t)
<1>1. pc \in [Thread -> Nat \ {0}] /\ DOMAIN todo = Thread
    BY DEF TypeInv
<1>2. CASE is # <<>> /\ todo' = [todo EXCEPT ![t] = is] /\ pc' = pc
    BY <1>1, <1>2 DEF StaysAt, Moved
<1>3. CASE /\ is = <<>>
           /\ todo' = [todo EXCEPT ![t] = Code(litmus, t, pc[t] + 1)]
           /\ pc' = [pc EXCEPT ![t] = @ + 1]
    BY <1>1, <1>3 DEF MovesOn, Moved
<1>4. QED
    BY <1>2, <1>3 DEF Proceed

\* The others are where they were.
LEMMA OthersStay ==
    ASSUME NEW t \in Thread, Moved(t), litmus' = litmus, NEW u \in Thread \ {t}
    PROVE  /\ ThreadOK(u)' <=> ThreadOK(u)
           /\ \A l \in Flag : Holds(u, l)' <=> Holds(u, l)
<1>1. pc'[u] = pc[u] /\ todo'[u] = todo[u] /\ CallOf(u)' = CallOf(u)
    BY DEF Moved, CallOf
<1>2. ThreadOK(u)' <=> ThreadOK(u)
    BY <1>1 DEF ThreadOK, Control, IsFree, IsLocked
<1>3. ASSUME NEW l \in Flag PROVE Holds(u, l)' <=> Holds(u, l)
    BY <1>1 DEF Holds, Inside, IsLocked
<1>4. QED
    BY <1>2, <1>3

\* A thread in the same call has the program's lock if it had it.
LEMMA StaysHolding ==
    ASSUME litmus \in Litmus, NEW t \in Thread, NEW is, StaysAt(t, is), litmus' = litmus
    PROVE  /\ CallOf(t)' = CallOf(t)
           /\ Holds(t, UserLock)' <=> Holds(t, UserLock)
           /\ Holds(t, GlobalLock)' <=>
                /\ is # <<>> /\ IsLocked(litmus, CallOf(t))
                /\ Head(is) \in {Plain(CallOf(t))} \union Leaving(GlobalLock)
           /\ pc[t] \in DOMAIN litmus.calls[t] /\ Control(CallOf(t), is) => ThreadOK(t)'
<1>1. pc'[t] = pc[t] /\ todo'[t] = is /\ CallOf(t)' = CallOf(t) /\ UserLock # GlobalLock
    BY Constants DEF StaysAt, CallOf
<1>2. /\ Holds(t, UserLock)' <=> Holds(t, UserLock)
      /\ Holds(t, GlobalLock)' <=>
                /\ is # <<>> /\ IsLocked(litmus, CallOf(t))
                /\ Head(is) \in {Plain(CallOf(t))} \union Leaving(GlobalLock)
    BY <1>1 DEF Holds, Inside, IsLocked
<1>3. ASSUME pc[t] \in DOMAIN litmus.calls[t], Control(CallOf(t), is)
      PROVE  ThreadOK(t)'
    BY <1>1, <1>3 DEF ThreadOK, Control, IsFree, IsLocked
<1>4. QED
    BY <1>1, <1>2, <1>3

LEMMA HeldNext ==
    ASSUME NEW calls, NEW m \in Nat \ {0}
    PROVE  Held(calls, m + 1) <=>
            \/ calls[m].op = "lock"
            \/ Held(calls, m) /\ calls[m].op # "unlock"
<1>0. m + 1 - 1 = m
    OBVIOUS
<1>1. Held(calls, m + 1) <=>
        \E j \in 1 .. m :
            calls[j].op = "lock" /\ \A k \in j + 1 .. m : calls[k].op # "unlock"
    BY <1>0 DEF Held
<1>2. ASSUME NEW j \in 1 .. m, calls[j].op = "lock",
             \A k \in j + 1 .. m : calls[k].op # "unlock"
      PROVE  calls[m].op = "lock" \/ (Held(calls, m) /\ calls[m].op # "unlock")
    <2>1. CASE j = m
        BY <1>2, <2>1
    <2>2. CASE j # m
        <3>1. j \in 1 .. m - 1 /\ m \in j + 1 .. m
            BY <2>2
        <3>2. \A k \in j + 1 .. m - 1 : k \in j + 1 .. m
            OBVIOUS
        <3>3. QED
            BY <1>2, <3>1, <3>2 DEF Held
    <2>3. QED
        BY <2>1, <2>2
<1>3. ASSUME calls[m].op = "lock"
      PROVE  \E j \in 1 .. m :
                calls[j].op = "lock" /\ \A k \in j + 1 .. m : calls[k].op # "unlock"
    <2>1. m \in 1 .. m /\ \A k \in m + 1 .. m : FALSE
        OBVIOUS
    <2>2. QED
        BY <1>3, <2>1
<1>4. ASSUME Held(calls, m), calls[m].op # "unlock"
      PROVE  \E j \in 1 .. m :
                calls[j].op = "lock" /\ \A k \in j + 1 .. m : calls[k].op # "unlock"
    <2>1. PICK j \in 1 .. m - 1 :
            calls[j].op = "lock" /\ \A k \in j + 1 .. m - 1 : calls[k].op # "unlock"
        BY <1>4 DEF Held
    <2>2. j \in 1 .. m
        BY <2>1
    <2>3. ASSUME NEW k \in j + 1 .. m PROVE calls[k].op # "unlock"
        <3>1. k = m \/ k \in j + 1 .. m - 1
            BY <2>1
        <3>2. QED
            BY <1>4, <2>1, <3>1
    <2>4. QED
        BY <2>1, <2>2, <2>3
<1>5. QED
    BY <1>1, <1>2, <1>3, <1>4

\* A thread that begins another call is outside the global lock, and has the
\* program's if its last call took it, or it had it and did not leave it.
LEMMA MovesHolding ==
    ASSUME litmus \in Litmus, NEW t \in Thread, pc[t] \in Nat \ {0}, MovesOn(t), litmus' = litmus
    PROVE  /\ ThreadOK(t)'
           /\ ~Holds(t, GlobalLock)'
           /\ Holds(t, UserLock)' <=>
                \/ CallOf(t).op = "lock"
                \/ Holds(t, UserLock) /\ CallOf(t).op # "unlock"
<1> DEFINE cs == litmus.calls[t]
           n == pc[t]
<1>1. /\ pc'[t] = n + 1 /\ todo'[t] = Code(litmus, t, n + 1)
      /\ UserLock # GlobalLock /\ cs \in Seq(Calls)
    BY Constants DEF MovesOn
<1>2. ASSUME n + 1 \in DOMAIN cs
      PROVE  ThreadOK(t)' /\ ~Holds(t, GlobalLock)'
    <2>1. /\ cs[n + 1] \in Calls /\ CallOf(t)' = cs[n + 1]
          /\ todo'[t] = Compile(litmus, cs[n + 1])
        BY <1>1, <1>2, ElementOfSeq, LenProperties DEF Code, CallOf
    <2>2. /\ Control(cs[n + 1], todo'[t])
          /\ IsLocked(litmus, cs[n + 1]) =>
                Head(todo'[t]) \notin {Plain(cs[n + 1])} \union Leaving(GlobalLock)
        BY <2>1, CompiledControl
    <2>3. ThreadOK(t)'
        BY <1>1, <1>2, <2>1, <2>2 DEF ThreadOK, Control, IsFree, IsLocked
    <2>4. ~Holds(t, GlobalLock)'
        BY <1>1, <2>1, <2>2 DEF Holds, Inside, IsLocked
    <2>5. QED
        BY <2>3, <2>4
<1>3. ASSUME n + 1 \notin DOMAIN cs
      PROVE  ThreadOK(t)' /\ ~Holds(t, GlobalLock)'
    <2>1. todo'[t] = <<>>
        BY <1>1, <1>3 DEF Code
    <2>2. QED
        BY <1>1, <2>1 DEF ThreadOK, Holds, Inside
<1>4. Holds(t, UserLock)' <=> Held(cs, n + 1)
    BY <1>1 DEF Holds
<1>5. Holds(t, UserLock) <=> Held(cs, n)
    BY DEF Holds
<1>6. CallOf(t) = cs[n] /\ n \in Nat \ {0}
    BY DEF CallOf
<1> HIDE DEF cs, n
<1>7. Held(cs, n + 1) <=> cs[n].op = "lock" \/ (Held(cs, n) /\ cs[n].op # "unlock")
    BY <1>6, HeldNext
<1>8. QED
    BY <1>2, <1>3, <1>4, <1>5, <1>6, <1>7

-----------------------------------------------------------------------------
(* The steps                                                               *)

LEMMA FlagValuesKept ==
    ASSUME TypeInv, NEW t \in Thread, Keeps(t),
           \/ history' = history
           \/ \E k \in Location, v \in Nat :
                Facts!Stored(k, v) /\ (k \in Flag => v \in {0, 1})
    PROVE  FlagValues'
<1>1. CASE history' = history
    BY <1>1 DEF TypeInv, FlagValues
<1>2. ASSUME NEW k \in Location, NEW v \in Nat, Facts!Stored(k, v),
             k \in Flag => v \in {0, 1}
      PROVE  FlagValues'
    <2>1. ASSUME NEW l \in Flag, NEW i \in 1 .. Len(history'[l])
          PROVE  history'[l][i].value \in {0, 1}
        <3>1. CASE k # l
            <4>1. history'[l] = history[l]
                BY <3>1, <1>2, FlagLocations DEF Facts!Stored
            <4>2. QED
                BY <2>1, <4>1 DEF TypeInv, FlagValues
        <3>2. CASE k = l
            <4>1. /\ Len(history[l]) \in Nat /\ Len(history'[l]) = Len(history[l]) + 1
                  /\ history'[l][Len(history'[l])].value \in {0, 1}
                BY <3>2, <1>2, NewestFacts DEF Facts!Stored, TypeInv
            <4>2. CASE i = Len(history'[l])
                BY <4>1, <4>2
            <4>3. CASE i # Len(history'[l])
                <5>1. i \in 1 .. Len(history[l])
                    BY <2>1, <4>1, <4>3
                <5>2. history'[l][i] = history[l][i]
                    BY <5>1, FlagLocations DEF Keeps, Facts!StepOf, Facts!Extends
                <5>3. QED
                    BY <5>1, <5>2 DEF TypeInv, FlagValues
            <4>4. QED
                BY <4>2, <4>3
        <3>3. QED
            BY <3>1, <3>2
    <2>2. QED
        BY <2>1 DEF FlagValues
<1>3. QED
    BY <1>1, <1>2

LEMMA TypeKept ==
    ASSUME TypeInv, NEW t \in Thread, Moved(t), litmus' = litmus, Keeps(t), Registers',
           raced' \in BOOLEAN, ThreadOK(t)',
           \/ history' = history
           \/ \E k \in Location, v \in Nat :
                Facts!Stored(k, v) /\ (k \in Flag => v \in {0, 1})
    PROVE  /\ TypeInv'
           /\ \A u \in Thread \ {t}, l \in Flag : Holds(u, l)' <=> Holds(u, l)
<1>1. FlagValues'
    BY FlagValuesKept
<1>2. \A u \in Thread \ {t} : ThreadOK(u)'
    BY OthersStay DEF TypeInv
<1>3. pc' \in [Thread -> Nat \ {0}] /\ DOMAIN todo' = Thread
    BY DEF Moved
<1>4. litmus' \in Litmus /\ MemoryOK'
    BY DEF TypeInv, Keeps
<1>5. \A u \in Thread : ThreadOK(u)'
    BY <1>2
<1>6. TypeInv'
    BY <1>1, <1>3, <1>4, <1>5 DEF TypeInv
<1>7. QED
    BY <1>6, OthersStay

\* A lock whose flag, and what it protects, nobody has stored to.
LEMMA LockUntouched ==
    ASSUME litmus \in Litmus, MemoryOK, NEW t \in Thread, Keeps(t), litmus' = litmus,
           NEW l \in Flag, LockInv(l),
           \A u \in Thread : Holds(u, l)' <=> Holds(u, l),
           \/ history' = history
           \/ \E y \in Location, v \in Nat :
                Facts!Stored(y, v) /\ y # l /\ y \notin Protected(l)
    PROVE  LockInv(l)'
<1>1. Protected(l) \subseteq Location /\ l \in Location
    BY ProtectedLocations, FlagLocations
<1>2. history'[l] = history[l] /\ \A x \in Protected(l) : history'[x] = history[x]
    BY <1>1 DEF Facts!Stored
<1>3. QED
    BY <1>2, LockKept

LEMMA NewestFlag ==
    ASSUME TypeInv, NEW l \in Flag
    PROVE  Newest(l).value \in {0, 1}
<1>1. Len(history[l]) \in 1 .. Len(history[l])
    BY NewestFacts, FlagLocations DEF TypeInv
<1>2. QED
    BY <1>1 DEF TypeInv, FlagValues, Newest

\* What all steps of a thread that leave the races as they are come to.
LEMMA OrderKept ==
    ASSUME InOrder, litmus' = litmus, 
           Guarded(litmus) => (raced' = raced \/ ~raced'),
           \A l \in Flag : UsedWell(l) => LockInv(l)'
    PROVE  InOrder'
<1>1. \A l \in Flag : UsedWell(l)' <=> UsedWell(l)
    BY DEF UsedWell
<1>2. Guarded(litmus)' <=> Guarded(litmus)
    OBVIOUS
<1>3. QED
    BY <1>1, <1>2 DEF InOrder

\* A step of t that stores nothing to a flag or to anything a lock protects,
\* and after which the same threads have the same locks.
LEMMA OrdinaryStep ==
    ASSUME TypeInv, InOrder, NEW t \in Thread, Moved(t), litmus' = litmus, Keeps(t),
           Registers', raced' = raced, ThreadOK(t)',
           \A l \in Flag : Holds(t, l)' <=> Holds(t, l),
           \/ history' = history
           \/ \E k \in FreeObjects(litmus), v \in Nat : Facts!Stored(k, v)
    PROVE  IInv'
<1>1. /\ litmus \in Litmus /\ MemoryOK /\ raced' \in BOOLEAN
    BY DEF TypeInv
<1>2. \A k \in FreeObjects(litmus) :
        /\ k \in Location /\ k \notin Flag
        /\ \A l \in Flag : k # l /\ k \notin Protected(l)
    BY <1>1, Constants DEF FreeObjects, Location, Protected
<1>3. /\ TypeInv'
      /\ \A u \in Thread \ {t}, l \in Flag : Holds(u, l)' <=> Holds(u, l)
    BY <1>1, <1>2, TypeKept
<1>4. \A u \in Thread, l \in Flag : Holds(u, l)' <=> Holds(u, l)
    BY <1>3
<1>5. ASSUME NEW l \in Flag, UsedWell(l) PROVE LockInv(l)'
    <2>1. LockInv(l)
        BY <1>5 DEF InOrder
    <2>2. QED
        BY <1>1, <1>2, <1>4, <2>1, LockUntouched
<1>6. InOrder'
    BY <1>5, OrderKept
<1>7. QED
    BY <1>3, <1>6 DEF IInv

LEMMA RequireStep ==
    ASSUME TypeInv, InOrder, NEW t \in Thread, Step(t), todo[t] # <<>>,
           pc[t] \in DOMAIN litmus.calls[t], CallOf(t).op = "require",
           todo[t] = <<Require(CallOf(t).src)>>
    PROVE  IInv'
<1> DEFINE r == CallOf(t)
<1>1. /\ litmus \in Litmus /\ MemoryOK /\ Registers /\ pc[t] \in Nat \ {0}
      /\ pc \in [Thread -> Nat \ {0}] /\ DOMAIN todo = Thread
      /\ UserLock # GlobalLock /\ Flag = {GlobalLock, UserLock}
    BY Constants DEF TypeInv, Flag
<1>2. Head(todo[t]).do = "require" /\ Tail(todo[t]) = <<>>
    BY DEF Require
<1>3. DoRequire(t)
    BY <1>2 DEF Step, DoFence, DoLoad, DoStore, DoRmw, DoFailedSwap, DoXchg, DoPlain, At
<1>4. /\ UNCHANGED <<litmus, reg, seen, raced>> /\ UNCHANGED memory
      /\ Proceed(t) \/ (todo' = [todo EXCEPT ![t] = <<>>] /\ pc' = pc)
    BY <1>3 DEF DoRequire
<1>5. history' = history
    BY <1>4 DEF memory
<1>6. Keeps(t)
    BY <1>1, <1>4, UnchangedKeeps
<1>7. Registers'
    BY <1>1, <1>4 DEF Registers
<1>8. ~IsLocked(litmus, r)
    BY DEF IsLocked, Operates, Accesses, AccessOp
<1>9. ~Holds(t, GlobalLock)
    BY <1>1, <1>8 DEF Holds, Inside
<1>10. CASE Proceed(t)
    <2>1. Branch(litmus, Tail(todo[t]), reg'[t]) = <<>>
        BY <1>2 DEF Branch
    <2>2. MovesOn(t)
        BY <1>10, <2>1, ProceedMoves
    <2>3. /\ ThreadOK(t)' /\ ~Holds(t, GlobalLock)'
          /\ Holds(t, UserLock)' <=> Holds(t, UserLock)
        BY <1>1, <1>4, <2>2, MovesHolding
    <2>4. QED
        BY <1>1, <1>4, <1>5, <1>6, <1>7, <1>9, <2>2, <2>3, OrdinaryStep DEF MovesOn
<1>11. CASE todo' = [todo EXCEPT ![t] = <<>>] /\ pc' = pc
    <2>1. StaysAt(t, <<>>)
        BY <1>1, <1>11 DEF StaysAt, Moved
    <2>2. todo'[t] = <<>>
        BY <2>1 DEF StaysAt
    <2>3. /\ ThreadOK(t)' /\ ~Holds(t, GlobalLock)'
          /\ Holds(t, UserLock)' <=> Holds(t, UserLock)
        BY <1>1, <1>4, <2>1, <2>2, StaysHolding DEF ThreadOK
    <2>4. QED
        BY <1>1, <1>4, <1>5, <1>6, <1>7, <1>9, <2>1, <2>3, OrdinaryStep DEF StaysAt
<1>12. QED
    BY <1>4, <1>10, <1>11

LEMMA FreeStep ==
    ASSUME TypeInv, InOrder, NEW t \in Thread, Step(t), todo[t] # <<>>,
           pc[t] \in DOMAIN litmus.calls[t], IsFree(litmus, CallOf(t)),
           todo[t] \in Seq(Instructions(FreeCalls(litmus)))
    PROVE  IInv'
<1> DEFINE r == CallOf(t)
           C == FreeCalls(litmus)
           nx == Tail(todo[t])
<1>1. /\ litmus \in Litmus /\ MemoryOK /\ Registers /\ pc[t] \in Nat \ {0}
      /\ UserLock # GlobalLock /\ Flag = {GlobalLock, UserLock}
    BY Constants DEF TypeInv, Flag
<1>2. \A c \in C : /\ c.op \in ComputedOp /\ c.obj \in Location
                   /\ c.src \in Nat /\ c.exp \in Nat
                   /\ c.obj \in FreeObjects(litmus)
    BY DEF FreeCalls, FreeObjects, ComputedOp, Location
<1>3. Head(todo[t]) \in Instructions(C) /\ nx \in Seq(Instructions(C))
    BY HeadTailProperties, EmptySeq
<1> HIDE DEF C
<1>4. /\ Keeps(t) /\ Registers' /\ litmus' = litmus /\ raced' = raced /\ Proceed(t)
      /\ \/ history' = history
         \/ \E c \in C, x \in Nat : Facts!Stored(c.obj, x)
    BY <1>1, <1>2, <1>3, InstructionKeeps
<1>5. Branch(litmus, nx, reg'[t]) = nx
    <2>1. \A i \in Instructions(C) : i.do \notin {"again", "spin"}
        BY DEF Instructions, Fences
    <2>2. nx # <<>> => Head(nx).do \notin {"again", "spin"}
        BY <1>3, <2>1, HeadTailProperties
    <2>3. QED
        BY <2>2 DEF Branch
<1>6. ~IsLocked(litmus, r)
    BY DEF IsFree, FreeObjects, IsLocked, Operates, Accesses, AccessOp
<1>7. ~Holds(t, GlobalLock)
    BY <1>1, <1>6 DEF Holds, Inside
<1>8. r.op # "lock" /\ r.op # "unlock"
    BY DEF IsFree, Operates, Accesses, AccessOp
<1>9. /\ Moved(t) /\ ThreadOK(t)' /\ ~Holds(t, GlobalLock)'
      /\ Holds(t, UserLock)' <=> Holds(t, UserLock)
    <2>1. CASE nx # <<>> /\ StaysAt(t, nx)
        <3>1. Control(r, nx)
            BY <1>3 DEF Control, C
        <3>2. QED
            BY <1>1, <1>4, <1>6, <2>1, <3>1, StaysHolding DEF StaysAt
    <2>2. CASE nx = <<>> /\ MovesOn(t)
        BY <1>1, <1>4, <1>8, <2>2, MovesHolding DEF MovesOn
    <2>3. QED
        BY <1>4, <1>5, <2>1, <2>2, ProceedMoves
<1>10. \A l \in Flag : Holds(t, l)' <=> Holds(t, l)
    BY <1>1, <1>7, <1>9
<1>11. \/ history' = history
       \/ \E k \in FreeObjects(litmus), v \in Nat : Facts!Stored(k, v)
    BY <1>2, <1>4
<1>12. QED
    BY <1>4, <1>9, <1>10, <1>11, OrdinaryStep

LEMMA LockingHead ==
    ASSUME litmus \in Litmus, NEW l \in Flag, NEW T, NEW back \in Seq(T),
           NEW is, Locking(l, back, is)
    PROVE  /\ is # <<>> /\ Head(is) \in Taking(l) \union Looking(l)
           /\ Head(is) \notin Leaving(GlobalLock) /\ \A r : Head(is) # Plain(r)
<1>1. is # <<>> /\ Head(is) \in Taking(l) \union Looking(l)
    <2> DEFINE v == 0
    <2>1. /\ is # <<>>
          /\ \/ /\ Head(is) \in Taking(l)
                /\ v = 0 => Branch(litmus, Tail(is), v) = back
                /\ v # 0 => Locking(l, back, Branch(litmus, Tail(is), v))
             \/ /\ Head(is) \in Looking(l)
                /\ Locking(l, back, Branch(litmus, Tail(is), v))
        BY LockingStep
    <2>2. QED
        BY <2>1
<1>2. QED
    BY <1>1, FlagInstructions

\* A thread in spinlock_lock that has not taken the lock by this step.
LEMMA StillLocking ==
    ASSUME TypeInv, InOrder, NEW t \in Thread, NEW l \in Flag, NEW T, NEW back \in Seq(T),
           Locking(l, back, todo[t]), NEW is, Locking(l, back, is), StaysAt(t, is),
           pc[t] \in DOMAIN litmus.calls[t], Control(CallOf(t), is),
           litmus' = litmus, Keeps(t), Registers', raced' = raced,
           \/ history' = history
           \/ /\ Facts!Stored(l, Newest(l).value)
              /\ Facts!AtMost(Newest(l).view, Newest(l)'.view)
    PROVE  IInv'
<1>1. /\ litmus \in Litmus /\ MemoryOK /\ raced' \in BOOLEAN /\ l \in Location
      /\ UserLock # GlobalLock /\ Flag = {GlobalLock, UserLock} /\ Moved(t)
    BY Constants, FlagLocations DEF TypeInv, Flag, StaysAt
<1>2. /\ Head(is) \notin Leaving(GlobalLock) /\ Head(is) # Plain(CallOf(t))
      /\ Head(todo[t]) \notin Leaving(GlobalLock) /\ Head(todo[t]) # Plain(CallOf(t))
    BY <1>1, LockingHead
<1>3. /\ ThreadOK(t)' /\ ~Holds(t, GlobalLock)'
      /\ Holds(t, UserLock)' <=> Holds(t, UserLock)
    BY <1>1, <1>2, StaysHolding
<1>4. ~Holds(t, GlobalLock)
    BY <1>1, <1>2 DEF Holds, Inside
<1>5. Newest(l).value \in {0, 1}
    BY NewestFlag
<1>6. /\ TypeInv'
      /\ \A u \in Thread \ {t}, k \in Flag : Holds(u, k)' <=> Holds(u, k)
    BY <1>1, <1>3, <1>5, TypeKept
<1>7. \A u \in Thread, k \in Flag : Holds(u, k)' <=> Holds(u, k)
    BY <1>1, <1>3, <1>4, <1>6
<1>8. ASSUME NEW k \in Flag, UsedWell(k) PROVE LockInv(k)'
    <2>1. LockInv(k) /\ Protected(k) \subseteq Location \ Flag
        BY <1>1, <1>8, ProtectedLocations DEF InOrder
    <2>2. CASE k = l
        <3>1. \A x \in Protected(l) : history'[x] = history[x]
            BY <2>1, <2>2 DEF Facts!Stored
        <3>2. QED
            BY <1>1, <1>7, <2>1, <2>2, <3>1, LockKept
    <2>3. CASE k # l
        <3>1. \/ history' = history
              \/ \E y \in Location, v \in Nat :
                    Facts!Stored(y, v) /\ y # k /\ y \notin Protected(k)
            BY <1>1, <1>5, <2>1, <2>3
        <3>2. QED
            BY <1>1, <1>7, <2>1, <3>1, LockUntouched
    <2>4. QED
        BY <2>2, <2>3
<1>9. InOrder'
    BY <1>8, OrderKept
<1>10. QED
    BY <1>6, <1>9 DEF IInv

\* A step of spinlock_lock: of the program's own, after which its next call
\* comes; or of the global one, after which the access does.
LEMMA LockStep ==
    ASSUME TypeInv, InOrder, NEW t \in Thread, Step(t),
           NEW l \in Flag, NEW T, NEW back \in Seq(T), Locking(l, back, todo[t]),
           pc[t] \in DOMAIN litmus.calls[t],
           \A is : Locking(l, back, is) => Control(CallOf(t), is),
           \/ l = UserLock /\ back = <<>> /\ CallOf(t).op = "lock"
           \/ /\ l = GlobalLock /\ IsLocked(litmus, CallOf(t)) /\ Control(CallOf(t), back)
              /\ back # <<>> /\ Head(back) = Plain(CallOf(t))
    PROVE  IInv'
<1> DEFINE r == CallOf(t)
           nx == Branch(litmus, Tail(todo[t]), reg'[t])
<1>1. /\ litmus \in Litmus /\ MemoryOK /\ Registers /\ pc[t] \in Nat \ {0}
      /\ raced \in BOOLEAN /\ l \in Location
      /\ UserLock # GlobalLock /\ Flag = {GlobalLock, UserLock}
    BY Constants, FlagLocations DEF TypeInv, Flag
<1>2. \/ /\ Head(todo[t]) \in Taking(l)
         /\ reg'[t] = 0 => nx = back
         /\ reg'[t] # 0 => Locking(l, back, nx)
      \/ Head(todo[t]) \in Looking(l) /\ Locking(l, back, nx)
    BY <1>1, LockingStep
<1>3. Newest(l).value \in {0, 1}
    BY NewestFlag
<1>4. ASSUME Locking(l, back, nx), Proceed(t), litmus' = litmus, Keeps(t), Registers',
             raced' = raced,
             \/ history' = history
             \/ /\ Facts!Stored(l, Newest(l).value)
                /\ Facts!AtMost(Newest(l).view, Newest(l)'.view)
      PROVE  IInv'
    <2>1. nx # <<>>
        BY <1>1, <1>4, LockingHead
    <2>2. StaysAt(t, nx)
        BY <1>4, <2>1, ProceedMoves
    <2>3. Control(r, nx)
        BY <1>4
    <2> HIDE DEF nx
    <2>4. QED
        BY <1>4, <2>2, <2>3, StillLocking
<1>5. CASE Head(todo[t]) \in Looking(l) /\ Locking(l, back, nx)
    BY <1>1, <1>4, <1>5, LookKeeps
<1>6. CASE /\ Head(todo[t]) \in Taking(l)
           /\ reg'[t] = 0 => nx = back
           /\ reg'[t] # 0 => Locking(l, back, nx)
    <2>1. /\ Keeps(t) /\ Registers' /\ litmus' = litmus /\ raced' = raced /\ Proceed(t)
          /\ Facts!Stored(l, 1) /\ reg'[t] = Newest(l).value
          /\ Facts!AtMost(Newest(l).view, current'[t])
          /\ Facts!AtMost(Newest(l).view, Newest(l)'.view)
        BY <1>1, <1>6, TakeKeeps
    <2>2. CASE Newest(l).value = 1
        <3>1. reg'[t] # 0
            BY <2>1, <2>2
        <3>2. QED
            BY <1>4, <1>6, <2>1, <2>2, <3>1
    <2>3. CASE Newest(l).value = 0
        <3>1. nx = back
            BY <1>6, <2>1, <2>3
        <3>2. ~Holds(t, GlobalLock)
            <4>1. /\ Head(todo[t]) \notin Leaving(GlobalLock)
                  /\ Head(todo[t]) # Plain(CallOf(t))
                BY <1>1, LockingHead
            <4>2. QED
                BY <1>1, <4>1 DEF Holds, Inside
        <3>3. /\ Moved(t) /\ ThreadOK(t)'
              /\ \A k \in Flag \ {l} : Holds(t, k)' <=> Holds(t, k)
            <4>1. CASE l = UserLock /\ back = <<>> /\ CallOf(t).op = "lock"
                <5>1. MovesOn(t)
                    BY <2>1, <3>1, <4>1, ProceedMoves
                <5>2. ThreadOK(t)' /\ ~Holds(t, GlobalLock)'
                    BY <1>1, <2>1, <5>1, MovesHolding
                <5>3. QED
                    BY <1>1, <3>2, <4>1, <5>1, <5>2 DEF MovesOn
            <4>2. CASE /\ l = GlobalLock /\ IsLocked(litmus, CallOf(t))
                       /\ Control(CallOf(t), back)
                       /\ back # <<>> /\ Head(back) = Plain(CallOf(t))
                <5>1. StaysAt(t, back)
                    BY <2>1, <3>1, <4>2, ProceedMoves
                <5>2. ThreadOK(t)' /\ (Holds(t, UserLock)' <=> Holds(t, UserLock))
                    BY <1>1, <2>1, <4>2, <5>1, StaysHolding
                <5>3. QED
                    BY <1>1, <4>2, <5>1, <5>2 DEF StaysAt
            <4>3. QED
                BY <4>1, <4>2
        <3>4. /\ TypeInv'
              /\ \A u \in Thread \ {t}, k \in Flag : Holds(u, k)' <=> Holds(u, k)
            BY <1>1, <2>1, <3>3, TypeKept
        <3>5. ASSUME NEW k \in Flag, UsedWell(k) PROVE LockInv(k)'
            <4>1. LockInv(k) /\ Protected(k) \subseteq Location \ Flag
                BY <1>1, <3>5, ProtectedLocations DEF InOrder
            <4>2. CASE k = l
                BY <1>1, <2>1, <2>3, <3>4, <4>1, <4>2, LockTaken
            <4>3. CASE k # l
                <5>1. \A u \in Thread : Holds(u, k)' <=> Holds(u, k)
                    BY <3>3, <3>4, <4>3
                <5>2. \E y \in Location, v \in Nat :
                        Facts!Stored(y, v) /\ y # k /\ y \notin Protected(k)
                    BY <1>1, <2>1, <4>1, <4>3
                <5>3. QED
                    BY <1>1, <2>1, <4>1, <5>1, <5>2, LockUntouched
            <4>4. QED
                BY <4>2, <4>3
        <3>6. InOrder'
            BY <2>1, <3>5, OrderKept
        <3>7. QED
            BY <3>4, <3>6 DEF IInv
    <2>4. QED
        BY <1>3, <2>2, <2>3
<1>7. QED
    BY <1>2, <1>5, <1>6

\* A step that does not branch: the last of a call, and the last but one.
LEMMA Unbranched ==
    ASSUME NEW m, NEW a, NEW v
    PROVE  Head(<<a>>) = a /\ Branch(m, Tail(<<a>>), v) = <<>>
<1>1. Head(<<a>>) = a /\ Tail(<<a>>) = <<>>
    OBVIOUS
<1>2. Branch(m, <<>>, v) = <<>>
    BY DEF Branch
<1>3. QED
    BY <1>1, <1>2

LEMMA UnbranchedPair ==
    ASSUME NEW m, NEW a, NEW b, NEW v, b.do \notin {"again", "spin"}
    PROVE  Head(<<a, b>>) = a /\ Branch(m, Tail(<<a, b>>), v) = <<b>>
<1>1. /\ Head(<<a, b>>) = a /\ Tail(<<a, b>>) = <<b>>
      /\ <<b>> # <<>> /\ Head(<<b>>) = b
    OBVIOUS
<1>2. Branch(m, <<b>>, v) = <<b>>
    BY <1>1 DEF Branch
<1>3. QED
    BY <1>1, <1>2

\* spinlock_unlock of the program's own lock.
LEMMA UnlockStep ==
    ASSUME TypeInv, InOrder, NEW t \in Thread, Step(t),
           pc[t] \in DOMAIN litmus.calls[t], CallOf(t).op = "unlock",
           NEW i \in Leaving(UserLock), todo[t] = <<i>>
    PROVE  IInv'
<1> DEFINE r == CallOf(t)
           l == UserLock
<1>1. /\ litmus \in Litmus /\ MemoryOK /\ Registers /\ pc[t] \in Nat \ {0}
      /\ raced \in BOOLEAN /\ l \in Location /\ l \in Flag
      /\ UserLock # GlobalLock /\ Flag = {GlobalLock, UserLock}
    BY Constants, FlagLocations DEF TypeInv, Flag
<1>2. Head(todo[t]) \in Leaving(l) /\ Branch(litmus, Tail(todo[t]), reg'[t]) = <<>>
    BY Unbranched
<1>3. /\ Keeps(t) /\ Registers' /\ litmus' = litmus /\ raced' = raced /\ Proceed(t)
      /\ Facts!Stored(l, 0)
      /\ Facts!AtMost(current[t], Newest(l)'.view)
    BY <1>1, <1>2, LeaveKeeps
<1>4. MovesOn(t)
    BY <1>2, <1>3, ProceedMoves
<1>5. /\ Moved(t) /\ ThreadOK(t)' /\ ~Holds(t, GlobalLock)' /\ ~Holds(t, l)'
    BY <1>1, <1>3, <1>4, MovesHolding DEF MovesOn
<1>6. ~Holds(t, GlobalLock)
    BY <1>1 DEF Holds, Inside, IsLocked, Operates, Accesses, AccessOp
<1>7. /\ TypeInv'
      /\ \A u \in Thread \ {t}, k \in Flag : Holds(u, k)' <=> Holds(u, k)
    BY <1>1, <1>3, <1>5, TypeKept
<1>8. ASSUME NEW k \in Flag, UsedWell(k) PROVE LockInv(k)'
    <2>1. LockInv(k) /\ Protected(k) \subseteq Location \ Flag
        BY <1>1, <1>8, ProtectedLocations DEF InOrder
    <2>2. CASE k = l
        <3>1. Guarded(litmus)
            BY <1>1, <1>8, <2>2 DEF UsedWell
        <3>2. Holds(t, l)
            BY <3>1 DEF Guarded, Holds, CallOf
        <3>3. QED
            BY <1>1, <1>3, <1>5, <1>7, <2>1, <2>2, <3>2, LockLeft
    <2>3. CASE k # l
        <3>1. \A u \in Thread : Holds(u, k)' <=> Holds(u, k)
            BY <1>1, <1>5, <1>6, <1>7, <2>3
        <3>2. \E y \in Location, v \in Nat :
                Facts!Stored(y, v) /\ y # k /\ y \notin Protected(k)
            BY <1>1, <1>3, <2>1, <2>3
        <3>3. QED
            BY <1>1, <1>3, <2>1, <3>1, <3>2, LockUntouched
    <2>4. QED
        BY <2>2, <2>3
<1>9. InOrder'
    BY <1>3, <1>8, OrderKept
<1>10. QED
    BY <1>7, <1>9 DEF IInv

\* A plain access to the program's data.
LEMMA DataStep ==
    ASSUME TypeInv, InOrder, NEW t \in Thread, Step(t),
           pc[t] \in DOMAIN litmus.calls[t], IsData(CallOf(t)),
           todo[t] = <<Plain(CallOf(t))>>
    PROVE  IInv'
<1> DEFINE r == CallOf(t)
<1>1. /\ litmus \in Litmus /\ MemoryOK /\ Registers /\ pc[t] \in Nat \ {0}
      /\ raced \in BOOLEAN
      /\ UserLock # GlobalLock /\ Flag = {GlobalLock, UserLock}
    BY Constants DEF TypeInv, Flag
<1>2. r \in Calls /\ Accesses(r) /\ r.obj \in Data
    <2>1. litmus.calls[t] \in Seq(Calls)
        BY <1>1, Constants
    <2>2. QED
        BY <2>1, ElementOfSeq, LenProperties DEF CallOf, IsData
<1>3. /\ r.obj \in Location /\ r.obj \notin Flag /\ r.obj \notin litmus.locked
      /\ ~IsLocked(litmus, r) /\ r.op # "lock" /\ r.op # "unlock"
    BY <1>1, <1>2, Constants DEF Location, IsLocked, Operates, Accesses, AccessOp
<1>4. Head(todo[t]) = Plain(r) /\ Branch(litmus, Tail(todo[t]), reg'[t]) = <<>>
    BY Unbranched
<1>5. /\ Keeps(t) /\ Registers' /\ litmus' = litmus /\ Proceed(t)
      /\ raced' = (raced \/ current[t][r.obj] # Len(history[r.obj]))
      /\ \E x \in Nat : Facts!Stored(r.obj, x)
      /\ current'[t][r.obj] = Len(history'[r.obj])
    BY <1>1, <1>2, <1>4, PlainKeeps DEF Operates
<1>6. MovesOn(t)
    BY <1>4, <1>5, ProceedMoves
<1>7. /\ Moved(t) /\ ThreadOK(t)' /\ ~Holds(t, GlobalLock)'
      /\ Holds(t, UserLock)' <=> Holds(t, UserLock)
    BY <1>1, <1>3, <1>5, <1>6, MovesHolding DEF MovesOn
<1>8. ~Holds(t, GlobalLock)
    BY <1>1, <1>3 DEF Holds, Inside
<1>9. raced' \in BOOLEAN
    BY <1>5
<1>10. /\ TypeInv'
       /\ \A u \in Thread \ {t}, k \in Flag : Holds(u, k)' <=> Holds(u, k)
    BY <1>1, <1>3, <1>5, <1>7, <1>9, TypeKept
<1>11. \A u \in Thread, k \in Flag : Holds(u, k)' <=> Holds(u, k)
    BY <1>1, <1>7, <1>8, <1>10
<1>12. ASSUME Guarded(litmus) PROVE Holds(t, UserLock) /\ LockInv(UserLock)
    BY <1>1, <1>12 DEF Guarded, Holds, CallOf, InOrder, UsedWell
<1>13. ASSUME NEW k \in Flag, UsedWell(k) PROVE LockInv(k)'
    <2>1. LockInv(k)
        BY <1>13 DEF InOrder
    <2>2. CASE k = UserLock
        <3>1. Holds(t, k) /\ r.obj \in Protected(k)
            BY <1>1, <1>2, <1>12, <1>13, <2>2 DEF UsedWell, Protected
        <3>2. QED
            BY <1>1, <1>5, <1>11, <2>1, <3>1, LockUsed
    <2>3. CASE k = GlobalLock
        <3>1. \E y \in Location, v \in Nat :
                Facts!Stored(y, v) /\ y # k /\ y \notin Protected(k)
            BY <1>1, <1>3, <1>5, <2>3 DEF Protected
        <3>2. QED
            BY <1>1, <1>5, <1>11, <2>1, <3>1, LockUntouched
    <2>4. QED
        BY <1>1, <2>2, <2>3
<1>14. ASSUME Guarded(litmus) PROVE raced' = raced
    <2>1. current[t][r.obj] = Len(history[r.obj])
        BY <1>2, <1>12, <1>14 DEF LockInv, Protected
    <2>2. QED
        BY <1>1, <1>5, <2>1
<1>15. InOrder'
    BY <1>5, <1>13, <1>14, OrderKept
<1>16. QED
    BY <1>10, <1>15 DEF IInv

\* The access of an operation on an object that is not lock free.
LEMMA SectionStep ==
    ASSUME TypeInv, InOrder, NEW t \in Thread, Step(t),
           pc[t] \in DOMAIN litmus.calls[t], IsLocked(litmus, CallOf(t)),
           NEW i \in Leaving(GlobalLock), todo[t] = <<Plain(CallOf(t)), i>>
    PROVE  IInv'
<1> DEFINE r == CallOf(t)
           l == GlobalLock
<1>1. /\ litmus \in Litmus /\ MemoryOK /\ Registers /\ pc[t] \in Nat \ {0}
      /\ raced \in BOOLEAN /\ l \in Flag
      /\ UserLock # GlobalLock /\ Flag = {GlobalLock, UserLock}
    BY Constants DEF TypeInv, Flag
<1>2. r \in Calls /\ Operates(r) /\ r.obj \in litmus.locked
    <2>1. litmus.calls[t] \in Seq(Calls)
        BY <1>1, Constants
    <2>2. QED
        BY <2>1, ElementOfSeq, LenProperties DEF CallOf, IsLocked
<1>3. /\ r.obj \in Location /\ r.obj \notin Flag /\ r.obj \notin Data
      /\ r.obj \in Protected(l)
    BY <1>1, <1>2, Constants DEF Location, Protected
<1>4. Head(todo[t]) = Plain(r) /\ Branch(litmus, Tail(todo[t]), reg'[t]) = <<i>>
    <2>1. i.do \notin {"again", "spin"}
        BY DEF Leaving, Xchg, Rmw, Store
    <2>2. QED
        BY <2>1, UnbranchedPair
<1>5. /\ Keeps(t) /\ Registers' /\ litmus' = litmus /\ Proceed(t)
      /\ raced' = (raced \/ current[t][r.obj] # Len(history[r.obj]))
      /\ \E x \in Nat : Facts!Stored(r.obj, x)
      /\ current'[t][r.obj] = Len(history'[r.obj])
    BY <1>1, <1>2, <1>4, PlainKeeps DEF Operates
<1>6. StaysAt(t, <<i>>)
    <2>1. <<i>> # <<>>
        OBVIOUS
    <2>2. QED
        BY <1>4, <1>5, <2>1, ProceedMoves
<1>7. Control(r, <<i>>)
    BY DEF Control
<1>8. <<i>> # <<>> /\ Head(<<i>>) = i
    OBVIOUS
<1>9. /\ Moved(t) /\ ThreadOK(t)' /\ Holds(t, l)'
      /\ Holds(t, UserLock)' <=> Holds(t, UserLock)
    BY <1>1, <1>5, <1>6, <1>7, <1>8, StaysHolding DEF StaysAt
<1>10. Holds(t, l)
    BY <1>1, <1>4 DEF Holds, Inside
<1>11. raced' \in BOOLEAN
    BY <1>5
<1>12. /\ TypeInv'
       /\ \A u \in Thread \ {t}, k \in Flag : Holds(u, k)' <=> Holds(u, k)
    BY <1>1, <1>3, <1>5, <1>9, <1>11, TypeKept
<1>13. \A u \in Thread, k \in Flag : Holds(u, k)' <=> Holds(u, k)
    BY <1>1, <1>9, <1>10, <1>12
<1>14. LockInv(l)
    BY <1>1 DEF InOrder, UsedWell
<1>15. ASSUME NEW k \in Flag, UsedWell(k) PROVE LockInv(k)'
    <2>1. CASE k = l
        BY <1>1, <1>3, <1>5, <1>10, <1>13, <1>14, <2>1, LockUsed
    <2>2. CASE k = UserLock
        <3>1. LockInv(k)
            BY <1>15 DEF InOrder
        <3>2. \E y \in Location, v \in Nat :
                Facts!Stored(y, v) /\ y # k /\ y \notin Protected(k)
            BY <1>1, <1>3, <1>5, <2>2 DEF Protected
        <3>3. QED
            BY <1>1, <1>5, <1>13, <3>1, <3>2, LockUntouched
    <2>3. QED
        BY <1>1, <2>1, <2>2
<1>16. raced' = raced
    <2>1. current[t][r.obj] = Len(history[r.obj])
        BY <1>3, <1>10, <1>14 DEF LockInv
    <2>2. QED
        BY <1>1, <1>5, <2>1
<1>17. InOrder'
    BY <1>5, <1>15, <1>16, OrderKept
<1>18. QED
    BY <1>12, <1>17 DEF IInv

\* spinlock_unlock of the global lock.
LEMMA SectionLeft ==
    ASSUME TypeInv, InOrder, NEW t \in Thread, Step(t),
           pc[t] \in DOMAIN litmus.calls[t], IsLocked(litmus, CallOf(t)),
           NEW i \in Leaving(GlobalLock), todo[t] = <<i>>
    PROVE  IInv'
<1> DEFINE r == CallOf(t)
           l == GlobalLock
<1>1. /\ litmus \in Litmus /\ MemoryOK /\ Registers /\ pc[t] \in Nat \ {0}
      /\ raced \in BOOLEAN /\ l \in Location /\ l \in Flag
      /\ UserLock # GlobalLock /\ Flag = {GlobalLock, UserLock}
    BY Constants, FlagLocations DEF TypeInv, Flag
<1>2. Head(todo[t]) = i /\ Branch(litmus, Tail(todo[t]), reg'[t]) = <<>>
    BY Unbranched
<1>3. /\ Keeps(t) /\ Registers' /\ litmus' = litmus /\ raced' = raced /\ Proceed(t)
      /\ Facts!Stored(l, 0)
      /\ Facts!AtMost(current[t], Newest(l)'.view)
    BY <1>1, <1>2, LeaveKeeps
<1>4. MovesOn(t)
    BY <1>2, <1>3, ProceedMoves
<1>5. r.op # "lock" /\ r.op # "unlock"
    BY DEF IsLocked, Operates, Accesses, AccessOp
<1>6. /\ Moved(t) /\ ThreadOK(t)' /\ ~Holds(t, l)'
      /\ Holds(t, UserLock)' <=> Holds(t, UserLock)
    BY <1>1, <1>3, <1>4, <1>5, MovesHolding DEF MovesOn
<1>7. Holds(t, l)
    BY <1>1, <1>2 DEF Holds, Inside
<1>8. /\ TypeInv'
      /\ \A u \in Thread \ {t}, k \in Flag : Holds(u, k)' <=> Holds(u, k)
    BY <1>1, <1>3, <1>6, TypeKept
<1>9. ASSUME NEW k \in Flag, UsedWell(k) PROVE LockInv(k)'
    <2>1. LockInv(k) /\ Protected(k) \subseteq Location \ Flag
        BY <1>1, <1>9, ProtectedLocations DEF InOrder
    <2>2. CASE k = l
        BY <1>1, <1>3, <1>6, <1>7, <1>8, <2>1, <2>2, LockLeft
    <2>3. CASE k # l
        <3>1. \A u \in Thread : Holds(u, k)' <=> Holds(u, k)
            BY <1>1, <1>6, <1>8, <2>3
        <3>2. \E y \in Location, v \in Nat :
                Facts!Stored(y, v) /\ y # k /\ y \notin Protected(k)
            BY <1>1, <1>3, <2>1, <2>3
        <3>3. QED
            BY <1>1, <1>3, <2>1, <3>1, <3>2, LockUntouched
    <2>4. QED
        BY <2>2, <2>3
<1>10. InOrder'
    BY <1>3, <1>9, OrderKept
<1>11. QED
    BY <1>8, <1>10 DEF IInv

LEMMA StepInOrder ==
    ASSUME TypeInv, InOrder, NEW t \in Thread, Step(t)
    PROVE  IInv'
<1> DEFINE r == CallOf(t)
<1>1. todo[t] # <<>>
    BY DEF Step, DoFence, DoLoad, DoStore, DoRmw, DoFailedSwap, DoXchg, DoPlain,
           DoRequire, At
<1>2. pc[t] \in DOMAIN litmus.calls[t] /\ Control(r, todo[t])
    BY <1>1 DEF TypeInv, ThreadOK
<1>3. GlobalLock \in Flag /\ UserLock \in Flag
    BY DEF Flag
<1>4. CASE r.op = "require" /\ todo[t] = <<Require(r.src)>>
    BY <1>1, <1>2, <1>4, RequireStep
<1>5. CASE r.op = "lock" /\ Locking(UserLock, <<>>, todo[t])
    <2>1. \A is : Locking(UserLock, <<>>, is) => Control(r, is)
        BY <1>5 DEF Control
    <2>2. <<>> \in Seq({})
        OBVIOUS
    <2>3. QED
        BY <1>2, <1>3, <1>5, <2>1, <2>2, LockStep
<1>6. CASE r.op = "unlock" /\ \E i \in Leaving(UserLock) : todo[t] = <<i>>
    BY <1>2, <1>6, UnlockStep
<1>7. CASE IsData(r) /\ todo[t] = <<Plain(r)>>
    BY <1>2, <1>7, DataStep
<1>8. CASE IsFree(litmus, r) /\ todo[t] \in Seq(Instructions(FreeCalls(litmus)))
    BY <1>1, <1>2, <1>8, FreeStep
<1>9. ASSUME IsLocked(litmus, r), NEW i \in Leaving(GlobalLock),
             \/ Locking(GlobalLock, <<Plain(r), i>>, todo[t])
             \/ todo[t] = <<Plain(r), i>>
             \/ todo[t] = <<i>>
      PROVE  IInv'
    <2>1. CASE Locking(GlobalLock, <<Plain(r), i>>, todo[t])
        <3> DEFINE back == <<Plain(r), i>>
        <3>1. \A is : Locking(GlobalLock, back, is) => Control(r, is)
            BY <1>9 DEF Control
        <3>2. Control(r, back)
            BY <1>9 DEF Control
        <3>3. back \in Seq({Plain(r), i}) /\ back # <<>> /\ Head(back) = Plain(r)
            OBVIOUS
        <3> HIDE DEF back
        <3>4. Locking(GlobalLock, back, todo[t])
            BY <2>1 DEF back
        <3>5. QED
            BY <1>2, <1>3, <1>9, <3>1, <3>2, <3>3, <3>4, LockStep
    <2>2. CASE todo[t] = <<Plain(r), i>>
        BY <1>2, <1>9, <2>2, SectionStep
    <2>3. CASE todo[t] = <<i>>
        BY <1>2, <1>9, <2>3, SectionLeft
    <2>4. QED
        BY <1>9, <2>1, <2>2, <2>3
<1>10. QED
    BY <1>2, <1>4, <1>5, <1>6, <1>7, <1>8, <1>9 DEF Control

LEMMA StutterInOrder ==
    ASSUME IInv, UNCHANGED vars
    PROVE  IInv'
<1>1. /\ litmus' = litmus /\ pc' = pc /\ todo' = todo /\ reg' = reg /\ seen' = seen
      /\ raced' = raced /\ history' = history /\ current' = current
      /\ acquired' = acquired /\ released' = released /\ order' = order
    BY DEF vars, memory
<1>2. MemoryOK' <=> MemoryOK
    BY <1>1 DEF MemoryOK, Facts!MemoryInv, Facts!Histories, Facts!ViewsType,
                Facts!ThreadViews, Facts!KnownIn, Facts!MessagesKnown, Facts!View
<1>3. (Registers' <=> Registers) /\ (FlagValues' <=> FlagValues)
    BY <1>1 DEF Registers, FlagValues
<1>4. \A t \in Thread : ThreadOK(t)' <=> ThreadOK(t)
    BY <1>1 DEF ThreadOK, CallOf, Control
<1>5. TypeInv'
    BY <1>1, <1>2, <1>3, <1>4 DEF IInv, TypeInv
<1>6. \A l \in Flag : LockInv(l)' <=> LockInv(l)
    BY <1>1 DEF LockInv, Holds, Inside, CallOf, Protected, Newest
<1>7. \A l \in Flag : UsedWell(l)' <=> UsedWell(l)
    BY <1>1 DEF UsedWell
<1>8. InOrder'
    BY <1>1, <1>6, <1>7 DEF IInv, InOrder
<1>9. QED
    BY <1>5, <1>8 DEF IInv

\* Nobody has a lock at first, and no flag is set.
LEMMA InitInOrder == Init => IInv
<1> SUFFICES ASSUME Init PROVE IInv
    OBVIOUS
<1> DEFINE zero == [l \in Location |-> 0]
           all == [l \in Location |-> 1]
<1>1. /\ litmus \in Litmus /\ pc = [t \in Thread |-> 1]
      /\ todo = [t \in Thread |-> Code(litmus, t, 1)]
      /\ reg = [t \in Thread |-> 0] /\ seen = [t \in Thread |-> <<>>]
      /\ raced = FALSE /\ Memory!MemoryInit(zero)
      /\ UserLock # GlobalLock /\ Flag = {GlobalLock, UserLock}
    BY Constants DEF Init, Flag
<1>2. zero \in [Location -> Nat] /\ Facts!MemoryInit(zero)
    BY <1>1 DEF Memory!MemoryInit, Facts!MemoryInit
<1>3. MemoryOK
    <2> HIDE DEF zero
    <2>1. QED
        BY <1>2, Facts!InitialMemory DEF MemoryOK
<1>4. \A l \in Location : history[l] = <<[value |-> 0, view |-> all]>>
    BY <1>1 DEF Memory!MemoryInit
<1>5. Registers /\ FlagValues
    BY <1>1, <1>4, FlagLocations DEF Registers, FlagValues
<1>6. ASSUME NEW t \in Thread
      PROVE  ThreadOK(t) /\ ~Holds(t, UserLock) /\ ~Holds(t, GlobalLock)
    <2> DEFINE cs == litmus.calls[t]
    <2>1. cs \in Seq(Calls) /\ pc[t] = 1 /\ todo[t] = Code(litmus, t, 1)
        BY <1>1, Constants
    <2>2. ~Holds(t, UserLock)
        BY <2>1 DEF Holds, Held
    <2>3. CASE 1 \in DOMAIN cs
        <3>1. /\ cs[1] \in Calls /\ CallOf(t) = cs[1]
              /\ todo[t] = Compile(litmus, cs[1])
            BY <2>1, <2>3, ElementOfSeq, LenProperties DEF Code, CallOf
        <3>2. /\ Control(cs[1], todo[t])
              /\ IsLocked(litmus, cs[1]) =>
                    Head(todo[t]) \notin {Plain(cs[1])} \union Leaving(GlobalLock)
            BY <1>1, <3>1, CompiledControl
        <3>3. QED
            BY <1>1, <2>1, <2>2, <2>3, <3>1, <3>2 DEF ThreadOK, Holds, Inside
    <2>4. CASE 1 \notin DOMAIN cs
        BY <1>1, <2>1, <2>2, <2>4 DEF Code, ThreadOK, Holds, Inside
    <2>5. QED
        BY <2>3, <2>4
<1>7. TypeInv
    <2>1. pc \in [Thread -> Nat \ {0}]
        BY <1>1
    <2>2. DOMAIN todo = Thread
        BY <1>1
    <2>3. litmus \in Litmus /\ raced \in BOOLEAN
        BY <1>1
    <2>4. QED
        BY <1>3, <1>5, <1>6, <2>1, <2>2, <2>3 DEF TypeInv
<1>8. ASSUME NEW l \in Flag PROVE LockInv(l)
    <2>1. \A t \in Thread : ~Holds(t, l)
        BY <1>1, <1>6
    <2>2. Protected(l) \subseteq Location /\ l \in Location
        BY <1>1, ProtectedLocations, FlagLocations
    <2>3. ASSUME NEW x \in Protected(l)
          PROVE  Newest(l).view[x] = Len(history[x])
        <3> DEFINE m == [value |-> 0, view |-> all]
        <3>1. x \in Location /\ m.view[x] = 1
            BY <2>2
        <3>2. history[l] = <<m>> /\ history[x] = <<m>>
            BY <1>4, <2>2, <3>1
        <3> HIDE DEF m, all
        <3>3. Len(<<m>>) = 1 /\ <<m>>[1] = m
            OBVIOUS
        <3>4. QED
            BY <3>1, <3>2, <3>3 DEF Newest
    <2>4. QED
        BY <2>1, <2>3 DEF LockInv
<1>9. InOrder
    BY <1>1, <1>8 DEF InOrder
<1>10. QED
    BY <1>7, <1>9 DEF IInv

LEMMA NextInOrder == IInv /\ [Next]_vars => IInv'
<1> SUFFICES ASSUME IInv, [Next]_vars PROVE IInv'
    OBVIOUS
<1>1. CASE UNCHANGED vars
    BY <1>1, StutterInOrder
<1>2. CASE Finished
    BY <1>2, StutterInOrder DEF Finished
<1>3. ASSUME NEW t \in Thread, Step(t) PROVE IInv'
    BY <1>3, StepInOrder DEF IInv
<1>4. QED
    BY <1>1, <1>2, <1>3 DEF Next

-----------------------------------------------------------------------------
(* The theorems                                                            *)

\* The kinds of the instructions.
Kinds ==
    {"fence", "load", "store", "rmw", "xchg", "plain", "again", "spin", "require"}

LEMMA ControlKinds ==
    ASSUME litmus \in Litmus, NEW r, NEW is, Control(r, is)
    PROVE  \A i \in DOMAIN is : is[i].do \in Kinds
<1> DEFINE L == UNION {Taking(l) \union Looking(l) \union Leaving(l)
                           \union {Spin(l), Again(l)} : l \in Flag}
           S == L \union {Plain(r), Require(r.src)} \union Instructions(FreeCalls(litmus))
<1>1. GlobalLock \in Flag /\ UserLock \in Flag
    BY DEF Flag
<1>2. \A i \in S : i.do \in Kinds
    BY DEF Kinds, Taking, Looking, Leaving, Spin, Again, Plain, Require, Instructions,
           Fences, Fence, Load, Store, Rmw, Xchg
<1>3. ASSUME NEW l \in Flag, NEW back \in Seq(S), Locking(l, back, is)
      PROVE  is \in Seq(S)
    <2>1. /\ Looking(l) \subseteq S /\ Taking(l) \subseteq S
          /\ Spin(l) \in S /\ Again(l) \in S
        OBVIOUS
    <2> HIDE DEF S
    <2>2. CASE \E i \in Taking(l) : is = <<i, Again(l)>> \o back
        BY <2>1, <2>2, ConcatProperties
    <2>3. ASSUME NEW f \in Seq(Looking(l)), is = f \o (<<Spin(l)>> \o back)
          PROVE  is \in Seq(S)
        <3>1. f \in Seq(S) /\ <<Spin(l)>> \in Seq(S)
            BY <2>1, SeqMonotonic
        <3>2. <<Spin(l)>> \o back \in Seq(S)
            BY <3>1, ConcatProperties
        <3>3. QED
            BY <2>3, <3>1, <3>2, ConcatProperties
    <2>4. QED
        BY <1>3, <2>2, <2>3 DEF Locking
<1>4. /\ Plain(r) \in S /\ Require(r.src) \in S
      /\ Leaving(GlobalLock) \subseteq S /\ Leaving(UserLock) \subseteq S
      /\ Instructions(FreeCalls(litmus)) \subseteq S
    BY <1>1
<1> HIDE DEF S
<1>5. is \in Seq(S)
    <2>1. CASE \/ is = <<Require(r.src)>> \/ is = <<Plain(r)>>
               \/ \E i \in Leaving(UserLock) \union Leaving(GlobalLock) : is = <<i>>
               \/ \E i \in Leaving(GlobalLock) : is = <<Plain(r), i>>
        <3>1. \A a, b \in S : <<a>> \in Seq(S) /\ <<a, b>> \in Seq(S)
            OBVIOUS
        <3>2. QED
            BY <1>4, <2>1, <3>1
    <2>2. CASE Locking(UserLock, <<>>, is)
        <3>1. <<>> \in Seq(S)
            OBVIOUS
        <3>2. QED
            BY <1>1, <1>3, <2>2, <3>1
    <2>3. CASE is \in Seq(Instructions(FreeCalls(litmus)))
        BY <1>4, <2>3, SeqMonotonic
    <2>4. ASSUME NEW i \in Leaving(GlobalLock), Locking(GlobalLock, <<Plain(r), i>>, is)
          PROVE  is \in Seq(S)
        <3>1. <<Plain(r), i>> \in Seq(S)
            BY <1>4
        <3>2. QED
            BY <1>1, <1>3, <2>4, <3>1
    <2>5. QED
        BY <2>1, <2>2, <2>3, <2>4 DEF Control
<1>6. QED
    BY <1>2, <1>5, ElementOfSeq, LenProperties

LEMMA InvType == IInv => TypeOK
<1> SUFFICES ASSUME IInv PROVE TypeOK
    OBVIOUS
<1>1. TypeInv /\ litmus \in Litmus
    BY DEF IInv, TypeInv
<1>2. ASSUME NEW t \in Thread, NEW i \in DOMAIN todo[t]
      PROVE  todo[t][i].do \in Kinds
    <2>1. todo[t] # <<>>
        BY <1>2
    <2>2. Control(CallOf(t), todo[t])
        BY <1>1, <2>1 DEF TypeInv, ThreadOK
    <2>3. QED
        BY <1>1, <1>2, <2>2, ControlKinds
<1>3. Memory!MemoryTypeOK
    <2>1. Facts!MemoryTypeOK
        BY <1>1, Facts!MemoryInvType DEF TypeInv, MemoryOK
    <2>2. QED
        BY <2>1 DEF Memory!MemoryTypeOK, Facts!MemoryTypeOK, Memory!View, Facts!View
<1>4. QED
    BY <1>1, <1>2, <1>3 DEF TypeOK, TypeInv, Registers, Kinds

THEOREM Invariance == Spec => []IInv
<1>1. QED
    BY InitInOrder, NextInOrder, PTL DEF Spec

THEOREM TypeCorrect == Spec => []TypeOK
<1>1. QED
    BY Invariance, InvType, PTL

\* Whatever the path and whatever the objects that are not lock free: where
\* every thread only unlocks what it has locked, and only accesses the data in
\* between, no two plain accesses race, neither to the data nor to an object
\* that the operations access under the global lock.
THEOREM SpinlockOrders == Spec => [](Guarded(litmus) => NoDataRace)
<1>1. IInv => (Guarded(litmus) => NoDataRace)
    BY DEF IInv, InOrder, NoDataRace
<1>2. QED
    BY <1>1, Invariance, PTL

\* The section of an operation on an object that is not lock free is ordered
\* after every such section before it, on any path, whatever the program does:
\* its access never races.
THEOREM SectionsOrdered ==
    Spec => [](\A t \in Thread :
                At(t, "plain") /\ Head(todo[t]).call.obj \in litmus.locked =>
                    Memory!Ordered(t, Head(todo[t]).call.obj))
<1> DEFINE Sections ==
            \A t \in Thread :
                At(t, "plain") /\ Head(todo[t]).call.obj \in litmus.locked =>
                    Memory!Ordered(t, Head(todo[t]).call.obj)
<1>1. IInv => Sections
    <2> SUFFICES ASSUME IInv, NEW t \in Thread, At(t, "plain"),
                        Head(todo[t]).call.obj \in litmus.locked
                 PROVE  Memory!Ordered(t, Head(todo[t]).call.obj)
        OBVIOUS
    <2> DEFINE r == CallOf(t)
               i == Head(todo[t])
    <2>1. /\ litmus \in Litmus /\ todo[t] # <<>> /\ i.do = "plain"
          /\ pc[t] \in DOMAIN litmus.calls[t] /\ Control(r, todo[t])
        BY DEF At, IInv, TypeInv, ThreadOK
    <2>2. /\ litmus.locked \subseteq Object \union Locals /\ GlobalLock \in Flag /\ UserLock \in Flag
          /\ UserLock # GlobalLock
        BY <2>1, Constants DEF Flag
    <2>3. ASSUME NEW l \in Flag, NEW T, NEW back \in Seq(T), Locking(l, back, todo[t])
          PROVE  FALSE
        <3>1. i \in Taking(l) \union Looking(l)
            BY <2>1, <2>3, LockingHead
        <3>2. QED
            BY <2>1, <3>1 DEF Taking, Looking, Fence, Load, Rmw, Xchg
    <2>4. CASE \/ r.op = "require" /\ todo[t] = <<Require(r.src)>>
               \/ r.op = "unlock" /\ \E j \in Leaving(UserLock) : todo[t] = <<j>>
               \/ \E j \in Leaving(GlobalLock) : todo[t] = <<j>>
        BY <2>1, <2>4 DEF Require, Leaving, Xchg, Rmw, Store
    <2>5. CASE r.op = "lock" /\ Locking(UserLock, <<>>, todo[t])
        <3>1. <<>> \in Seq({})
            OBVIOUS
        <3>2. QED
            BY <2>2, <2>3, <2>5, <3>1
    <2>6. CASE IsData(r) /\ todo[t] = <<Plain(r)>>
        <3>1. i.call.obj \in Data
            BY <2>6 DEF Plain, IsData
        <3>2. QED
            BY <2>2, <3>1, Constants
    <2>7. CASE todo[t] \in Seq(Instructions(FreeCalls(litmus)))
        <3>1. i \in Instructions(FreeCalls(litmus))
            BY <2>1, <2>7, HeadTailProperties, EmptySeq
        <3>2. QED
            BY <2>1, <3>1 DEF Instructions, Fences
    <2>8. ASSUME NEW j \in Leaving(GlobalLock), Locking(GlobalLock, <<Plain(r), j>>, todo[t])
          PROVE  FALSE
        <3>1. <<Plain(r), j>> \in Seq({Plain(r), j})
            OBVIOUS
        <3>2. QED
            BY <2>2, <2>3, <2>8, <3>1
    <2>9. ASSUME NEW j \in Leaving(GlobalLock), IsLocked(litmus, r),
                 todo[t] = <<Plain(r), j>>
          PROVE  Memory!Ordered(t, i.call.obj)
        <3>1. i = Plain(r) /\ i.call = r
            BY <2>9 DEF Plain
        <3>2. Holds(t, GlobalLock)
            BY <2>1, <2>2, <2>9, <3>1 DEF Holds, Inside
        <3>3. LockInv(GlobalLock) /\ r.obj \in Protected(GlobalLock)
            BY <2>2, <2>9 DEF IInv, InOrder, UsedWell, Protected, IsLocked
        <3>4. current[t][r.obj] = Len(history[r.obj])
            BY <3>2, <3>3 DEF LockInv
        <3>5. QED
            BY <3>1, <3>4 DEF Memory!Ordered
    <2>10. QED
        BY <2>1, <2>4, <2>5, <2>6, <2>7, <2>8, <2>9 DEF Control
<1>2. QED
    BY <1>1, Invariance, PTL
=============================================================================
