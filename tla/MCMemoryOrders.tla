--------------------------- MODULE MCMemoryOrders ---------------------------
(***************************************************************************)
(* The litmus programs MemoryOrders runs, on every code path: x is a       *)
(* 32-bit object, y a 32- or 64-bit one, d plain data.                     *)
(***************************************************************************)
EXTENDS MemoryOrders

\* The ways to compile operations on x and y. LEGACY_MSVC is the same code as
\* MODERN_MSVC. (For two mechanisms on one object, the retry loops among them,
\* see AtomicOps.)
Uniform(c, w, m) ==
    \A op \in {"load", "store", "store_relaxed", "exchange", "compare_and_swap"} :
        Table(c, w)[op] = m

\* Only with MSVC does the CPU make a difference of its own.
PlatformOf(c, w) ==
    [path   |-> IF c.path = "LEGACY_MSVC" THEN "MODERN_MSVC" ELSE c.path,
     cpu    |-> IF c.path = "MODERN_MSVC" THEN c.cpu
                ELSE IF c.path = "LEGACY_MSVC_ASM" THEN "x86" ELSE "x64",
     locked |-> {o \in Object : Uniform(c, IF o = "x" THEN 32 ELSE w, "lock")}
                    \union {l \in Locals : c.path = "MODERN_MSVC" /\ Uniform(c, 32, "lock")}]

Platforms ==
    {PlatformOf(z[1], z[2]) : z \in {z \in Config \X {32, 64} :
        \A w \in {32, z[2]} : \E m \in {"native", "lock"} : Uniform(z[1], w, m)}}

\* Programs of up to four threads.
Of(calls) == [t \in Thread |-> IF t \in DOMAIN calls THEN calls[t] ELSE <<>>]

load(o, ord) == Call("load", o, ord, 0, 0)
store(o, v, ord) == Call("store", o, ord, v, 0)
exchange(o, v, ord) == Call("exchange", o, ord, v, 0)
fetch_add(o, v, ord) == Call("fetch_add", o, ord, v, 0)
compare_and_swap(o, e, v) == Call("compare_and_swap", o, seq_cst, v, e)
fence(t, ord) == Call("fence", Local[t], ord, 0, 0)
require(v) == Call("require", "x", relaxed, v, 0)
write == store("d", 1, relaxed)
read == load("d", relaxed)
lock == Call("lock", UserLock, acquire, 0, 0)
unlock == Call("unlock", UserLock, release, 0, 0)

-----------------------------------------------------------------------------
(* d is handed over from one thread to another.                            *)

Releasing ==
    {store("x", 1, o) : o \in {release, seq_cst}} \union
    UNION {{exchange("x", 1, o), fetch_add("x", 1, o)} :
            o \in {release, acq_rel, seq_cst}} \union
    {compare_and_swap("x", 0, 1)}

Acquiring ==
    {load("x", o) : o \in {consume, acquire, seq_cst}} \union
    UNION {{exchange("x", 1, o), fetch_add("x", 0, o)} :
            o \in {consume, acquire, acq_rel, seq_cst}} \union
    {compare_and_swap("x", 1, 2)}

Handover ==
    {Of(<< <<write, r>>, <<a, require(1), read>> >>) :
        r \in Releasing, a \in Acquiring}

\* By a fence of one of the releasing orders R and a relaxed store, or a fence
\* of one of the acquiring orders A after a relaxed load, or both.
FenceHandover(R, A) ==
    LET gives == {<<write, fence(1, r), store("x", 1, relaxed)>> : r \in R}
        takes == {<<load("x", relaxed), require(1), fence(2, a), read>> : a \in A}
    IN  {Of(<<g, k>>) : g \in gives, k \in takes \union {<<load("x", acquire), require(1), read>>}}
            \union {Of(<< <<write, store("x", 1, release)>>, k>>) : k \in takes}

\* Through a third thread, and past a relaxed read-modify-write of one.
Relays ==
    {Of(<< <<write, fence(1, relaxed), store("x", 1, release)>>,
           <<load("x", acquire), require(1), store("y", 1, release)>>,
           <<load("y", acquire), require(1), read>> >>),
     Of(<< <<write, store("x", 1, release)>>,
           <<fetch_add("x", 2, relaxed)>>,
           <<load("x", acquire), require(3), read>> >>)}

Sections ==
    {Of([t \in 1 .. 3 |-> <<lock, fetch_add("d", 1, relaxed), unlock>>])}

-----------------------------------------------------------------------------
(* Programs that are to be sequentially consistent.                        *)

Ops(o, v) ==
    {load(o, seq_cst), store(o, v, seq_cst), exchange(o, v, seq_cst)}

Crossed ==
    {Of(<< <<a, b>>, <<c, e>> >>) :
        a \in Ops("x", 1), b \in Ops("y", 1), c \in Ops("y", 2), e \in Ops("x", 2)}

Parallel ==
    {Of(<< <<store("x", 1, seq_cst), b>>, <<c, e>> >>) :
        b \in Ops("y", 1), c \in Ops("x", 2), e \in Ops("y", 2)}

Independent ==
    {Of(<< <<store("x", 1, seq_cst)>>, <<store("y", 1, seq_cst)>>,
           <<load("x", seq_cst), load("y", seq_cst)>>,
           <<load("y", seq_cst), load("x", seq_cst)>> >>)}

Fenced ==
    {Of(<< <<store("x", 1, relaxed), fence(1, seq_cst), load("y", relaxed)>>,
           <<store("y", 1, relaxed), fence(2, seq_cst), load("x", relaxed)>> >>)}

\* The fetch operations of CHIBICC are loops.
Has(m, op) == \E t \in Thread : \E i \in DOMAIN m[t] :
                    m[t][i].op = op /\ m[t][i].obj \in Object

On(platforms, programs, ordered) ==
    {[path |-> z[1].path, cpu |-> z[1].cpu, locked |-> z[1].locked,
      calls |-> z[2], ordered |-> ordered] :
        z \in {z \in platforms \X programs :
                    z[1].path = "CHIBICC" => ~Has(z[2], "fetch_add")}}

\* MODERN_GCC leaves seq_cst calls to the compiler. (Four threads and a lock
\* have too many states.)
Compiled == {p \in Platforms : p.path # "MODERN_GCC"}

\* Where a fence orders no more than a fetch_add of its order to a variable
\* nobody else reads. (On x86 that is a full barrier, whatever the order.)
FenceByOrder == {p \in Platforms : p.path = "MODERN_MSVC" /\ p.cpu = "arm32"}

AllLitmus ==
    On(Platforms, Handover \union Relays \union Sections, FALSE)
        \union On(Platforms \ FenceByOrder,
                  FenceHandover({release, acq_rel, seq_cst},
                                {consume, acquire, acq_rel, seq_cst}), FALSE)
        \union On(FenceByOrder,
                  FenceHandover({acq_rel, seq_cst}, {acq_rel, seq_cst}), FALSE)
        \union On(Platforms, Fenced, TRUE)
        \union On(Compiled, Crossed \union Parallel, TRUE)
        \union On({p \in Compiled : p.locked = {}}, Independent, TRUE)

\* What is left out: the fences that are to release or to acquire only.
OneSidedFences == On(FenceByOrder, FenceHandover({release}, {consume, acquire}), FALSE)

LocalOf == <<"local 1", "local 2", "local 3", "local 4">>
=============================================================================
