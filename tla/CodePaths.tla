----------------------------- MODULE CodePaths ------------------------------
(***************************************************************************)
(* Which mechanism (see AtomicOps) each operation of c89atomic.h is        *)
(* compiled to: the preprocessor conditions of the seven code paths, as a  *)
(* function of the compiler, the CPU and the width of the object.          *)
(***************************************************************************)
\* The operations that have an implementation of their own per width. (The
\* relaxed store is told apart because one path compiles it differently.)
PrimOp == {"load", "store", "store_relaxed", "exchange", "compare_and_swap",
           "fetch_add", "fetch_sub", "fetch_and", "fetch_or", "fetch_xor"}

Mechanism == {"native", "lock", "loop"}

Width == {8, 16, 32, 64}

BitwiseOp == {"fetch_and", "fetch_or", "fetch_xor"}

Arm == {"arm32", "arm64"}

Ppc == {"ppc32", "ppc64"}

Cpu == {"x86", "x64", "other"} \union Arm \union Ppc

Is32Bit(cpu) == cpu \in {"x86", "arm32", "ppc32"}

\* What a compiler may tell of its CPU: _M_IX86 >= 400 and >= 500 with MSVC,
\* __i486__ and __i586__ with GCC (where neither implies the other), one of
\* __ARM_ARCH_7A__, 7R, 6K, 6Z, 6ZK with GCC for 32-bit ARM.
MsvcDefines(cpu) ==
    IF cpu = "x86" THEN {{}, {"i486"}, {"i486", "i586"}} ELSE {{}}

GnuDefines(cpu) ==
    CASE cpu = "x86"   -> SUBSET {"i486", "i586"}
      [] cpu = "arm32" -> SUBSET {"dword"}
      [] OTHER         -> {{}}

\* The CPUs the compilers of a path produce code for: MSVC-style inline
\* assembly is taken for everything but x64, and is x86 code; GCC-style
\* inline assembly is x86 or x64 code, anything else is an #error.
CpusOf(path) ==
    CASE path = "MODERN_MSVC"     -> {"x86", "x64"} \union Arm
      [] path = "LEGACY_MSVC"     -> {"x64"}
      [] path = "LEGACY_MSVC_ASM" -> {"x86"}
      [] path = "MODERN_GCC"      -> Cpu
      [] path = "LEGACY_GCC"      -> Cpu
      [] path = "LEGACY_GCC_ASM"  -> {"x86", "x64"}
      [] path = "CHIBICC"         -> {"x64"}

MsvcPath == {"MODERN_MSVC", "LEGACY_MSVC", "LEGACY_MSVC_ASM"}

GnuPath == {"MODERN_GCC", "LEGACY_GCC", "LEGACY_GCC_ASM", "CHIBICC"}

DefinesOf(path, cpu) ==
    IF path \in MsvcPath THEN MsvcDefines(cpu) ELSE GnuDefines(cpu)

Config ==
    {c \in [path    : MsvcPath \union GnuPath,
            cpu     : Cpu,
            defines : SUBSET {"i486", "i586", "dword"}] :
        /\ c.cpu \in CpusOf(c.path)
        /\ c.defines \in DefinesOf(c.path, c.cpu)}

\* C89ATOMIC_IS_LOCK_FREE_<w>. PowerPC is only met here with a GCC that is
\* too old for its 8- and 16-bit intrinsics to be trusted.
IsLockFree(c, w) ==
    \/ /\ c.cpu = "x64" \/ (c.cpu = "x86" /\ "i486" \in c.defines)
       /\ w = 64 => c.cpu = "x64" \/ "i586" \in c.defines
       /\ w \in {8, 16} => c.path # "LEGACY_MSVC"
    \/ c.cpu \in Arm /\ (w = 64 => c.cpu = "arm64" \/ "dword" \in c.defines)
    \/ c.cpu \in Ppc /\ (w = 32 \/ (w = 64 /\ c.cpu = "ppc64"))

\* Mutant of ReportsLockFree: the 32-bit test pasted into every width.
ReportsLockFreeAsks32(c, w) == c.path # "MODERN_GCC" /\ IsLockFree(c, 32)

\* What c89atomic_is_lock_free_<w> answers: the paths that define the macros
\* go by them, chibicc always says yes, __atomic_* leaves it to the compiler
\* (whose answer is not modelled).
ReportsLockFree(c, w) ==
    \/ c.path = "CHIBICC"
    \/ c.path # "MODERN_GCC" /\ IsLockFree(c, w)

NativeOrLock(b) == IF b THEN "native" ELSE "lock"

\* 64-bit operations a 32-bit CPU has no instruction for loop on its
\* double-word compare and swap.
LoopNativeOrLock(c, w) ==
    IF IsLockFree(c, w) /\ w = 64 /\ Is32Bit(c.cpu)
    THEN "loop"
    ELSE NativeOrLock(IsLockFree(c, w))

-----------------------------------------------------------------------------
(* MODERN_MSVC and LEGACY_MSVC: _Interlocked* intrinsics. The 64-bit       *)
(* compare_and_swap and load ask whether 32-bit atomics are lock free.     *)

MsvcCas(c, w) == NativeOrLock(IsLockFree(c, IF w = 64 THEN 32 ELSE w))

\* Mutant of MsvcLoad: the 64-bit text pasted over the other widths.
MsvcLoadAsks32(c, w) == NativeOrLock(IsLockFree(c, 32))

MsvcLoad(c, w) == NativeOrLock(IsLockFree(c, IF w = 64 THEN 32 ELSE w))

\* Mutant of MsvcExchange: the test of IS_LOCK_FREE is missing.
MsvcExchangeUnguarded(c, w) == IF w = 64 THEN LoopNativeOrLock(c, w) ELSE "native"

MsvcExchange(c, w) == LoopNativeOrLock(c, w)

MsvcStore(c, w) == MsvcExchange(c, w)

MsvcFetchAdd(c, w) == LoopNativeOrLock(c, w)

MsvcFetchSub(c, w) == MsvcFetchAdd(c, w)

MsvcBitwise(c, w) == IF c.cpu \in Arm THEN "native" ELSE "loop"

-----------------------------------------------------------------------------
(* LEGACY_MSVC_ASM: x86 instructions in MSVC-style inline assembly.        *)

MsvcAsmCas(c, w) == NativeOrLock(IsLockFree(c, w))

\* The 64-bit load is always a compare_and_swap of 0 and 0.
MsvcAsmLoad(c, w) ==
    IF w = 64 THEN MsvcAsmCas(c, w) ELSE NativeOrLock(IsLockFree(c, w))

MsvcAsmStore(c, w) == LoopNativeOrLock(c, w)

\* A relaxed store of up to 32 bits is a mov, on any CPU.
MsvcAsmStoreRelaxed(c, w) == IF w = 64 THEN MsvcAsmStore(c, w) ELSE "native"

MsvcAsmExchange(c, w) == LoopNativeOrLock(c, w)

MsvcAsmFetchAdd(c, w) == LoopNativeOrLock(c, w)

MsvcAsmFetchSub(c, w) ==
    IF w = 64 THEN "loop" ELSE NativeOrLock(IsLockFree(c, w))

MsvcAsmBitwise(c, w) == "loop"

-----------------------------------------------------------------------------
(* LEGACY_GCC: __sync_* intrinsics.                                        *)

GccCas(c, w) == NativeOrLock(IsLockFree(c, w))

GccLoad(c, w) ==
    IF IsLockFree(c, w) THEN GccCas(c, w) ELSE "lock"

GccExchange(c, w) == NativeOrLock(IsLockFree(c, w))

GccStore(c, w) == GccExchange(c, w)

\* Mutant of GccFetchAdd: the test of IS_LOCK_FREE is missing.
GccFetchAddUnguarded(c, w) == "native"

GccFetchAdd(c, w) == NativeOrLock(IsLockFree(c, w))

GccFetchSub(c, w) == NativeOrLock(IsLockFree(c, w))

GccBitwise(c, w) == IF IsLockFree(c, w) THEN "native" ELSE "loop"

-----------------------------------------------------------------------------
(* LEGACY_GCC_ASM: x86 instructions in GCC-style inline assembly.          *)

GccAsmCas(c, w) == NativeOrLock(IsLockFree(c, w))

GccAsmLoad(c, w) == NativeOrLock(IsLockFree(c, w))

GccAsmExchange(c, w) == LoopNativeOrLock(c, w)

GccAsmStore(c, w) == LoopNativeOrLock(c, w)

GccAsmFetchAdd(c, w) == LoopNativeOrLock(c, w)

GccAsmFetchSub(c, w) == GccAsmFetchAdd(c, w)

GccAsmBitwise(c, w) == "loop"

-----------------------------------------------------------------------------
\* MODERN_GCC: __atomic_* intrinsics throughout.
ModernGcc(op) == "native"

\* CHIBICC: exchange and compare_and_swap builtins; a load is a swap of 0
\* and 0, a store is an exchange, the fetch operations are loops.
Chibicc(op) ==
    IF op \in {"load", "store", "store_relaxed", "exchange", "compare_and_swap"}
    THEN "native" ELSE "loop"

MsvcMechanism(c, w, op) ==
    CASE op = "compare_and_swap" -> MsvcCas(c, w)
      [] op = "load" -> MsvcLoad(c, w)
      [] op \in {"store", "store_relaxed"} -> MsvcStore(c, w)
      [] op = "exchange" -> MsvcExchange(c, w)
      [] op = "fetch_add" -> MsvcFetchAdd(c, w)
      [] op = "fetch_sub" -> MsvcFetchSub(c, w)
      [] op \in BitwiseOp -> MsvcBitwise(c, w)

MsvcAsmMechanism(c, w, op) ==
    CASE op = "compare_and_swap" -> MsvcAsmCas(c, w)
      [] op = "load" -> MsvcAsmLoad(c, w)
      [] op = "store" -> MsvcAsmStore(c, w)
      [] op = "store_relaxed" -> MsvcAsmStoreRelaxed(c, w)
      [] op = "exchange" -> MsvcAsmExchange(c, w)
      [] op = "fetch_add" -> MsvcAsmFetchAdd(c, w)
      [] op = "fetch_sub" -> MsvcAsmFetchSub(c, w)
      [] op \in BitwiseOp -> MsvcAsmBitwise(c, w)

GccMechanism(c, w, op) ==
    CASE op = "compare_and_swap" -> GccCas(c, w)
      [] op = "load" -> GccLoad(c, w)
      [] op \in {"store", "store_relaxed"} -> GccStore(c, w)
      [] op = "exchange" -> GccExchange(c, w)
      [] op = "fetch_add" -> GccFetchAdd(c, w)
      [] op = "fetch_sub" -> GccFetchSub(c, w)
      [] op \in BitwiseOp -> GccBitwise(c, w)

GccAsmMechanism(c, w, op) ==
    CASE op = "compare_and_swap" -> GccAsmCas(c, w)
      [] op = "load" -> GccAsmLoad(c, w)
      [] op \in {"store", "store_relaxed"} -> GccAsmStore(c, w)
      [] op = "exchange" -> GccAsmExchange(c, w)
      [] op = "fetch_add" -> GccAsmFetchAdd(c, w)
      [] op = "fetch_sub" -> GccAsmFetchSub(c, w)
      [] op \in BitwiseOp -> GccAsmBitwise(c, w)

\* How configuration c compiles the operations on objects of w bits.
Table(c, w) == [op \in PrimOp |->
    CASE c.path \in {"MODERN_MSVC", "LEGACY_MSVC"} -> MsvcMechanism(c, w, op)
      [] c.path = "LEGACY_MSVC_ASM" -> MsvcAsmMechanism(c, w, op)
      [] c.path = "LEGACY_GCC" -> GccMechanism(c, w, op)
      [] c.path = "LEGACY_GCC_ASM" -> GccAsmMechanism(c, w, op)
      [] c.path = "MODERN_GCC" -> ModernGcc(op)
      [] c.path = "CHIBICC" -> Chibicc(op)]

-----------------------------------------------------------------------------
\* All primitives of one object exclude one another the same way: all are
\* native, or all take the global lock. (A loop excludes nobody itself.)
Coherent(table) ==
    \E m \in {"native", "lock"} :
        \A op \in PrimOp : table[op] \in {m, "loop"}

\* Where they do not: the 64-bit operations of MSVC for a CPU whose 32-bit
\* atomics only are lock free, and the relaxed stores of MSVC-style assembly
\* for an i386.
Split(c, w) ==
    \/ /\ c.path = "MODERN_MSVC" /\ w = 64
       /\ IsLockFree(c, 32) /\ ~IsLockFree(c, 64)
    \/ c.path = "LEGACY_MSVC_ASM" /\ w # 64 /\ ~IsLockFree(c, w)
=============================================================================
