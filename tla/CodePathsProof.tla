-------------------------- MODULE CodePathsProof ---------------------------
(***************************************************************************)
(* The preprocessor conditions of c89atomic.h give every configuration and *)
(* every width operations that work together, except where Split says.     *)
(***************************************************************************)
EXTENDS CodePaths, TLAPS

\* What AtomicOps asks of a table, whoever made it.
WellFormed(table) ==
    /\ table \in [PrimOp -> Mechanism]
    /\ table["load"] # "loop" /\ table["compare_and_swap"] # "loop"
    /\ \A op \in BitwiseOp : table[op] # "lock"

NeverLocks(table) == \A op \in PrimOp : table[op] # "lock"

LEMMA ConfigFacts ==
    ASSUME NEW c \in Config
    PROVE  /\ c.path \in MsvcPath \union GnuPath /\ c.cpu \in Cpu
           /\ c.cpu \in CpusOf(c.path)
           /\ c.path \in MsvcPath /\ c.cpu # "x86" => c.defines = {}
           /\ c.path \in GnuPath /\ c.cpu \notin {"x86", "arm32"} => c.defines = {}
           /\ c.path \in MsvcPath /\ "i586" \in c.defines => "i486" \in c.defines
<1>1. /\ c.path \in MsvcPath \union GnuPath /\ c.cpu \in Cpu
      /\ c.cpu \in CpusOf(c.path) /\ c.defines \in DefinesOf(c.path, c.cpu)
    BY DEF Config
<1>2. MsvcPath \intersect GnuPath = {}
    BY DEF MsvcPath, GnuPath
<1>3. QED
    BY <1>1, <1>2 DEF DefinesOf, MsvcDefines, GnuDefines

\* A table by its ten entries.
LEMMA TenEntries ==
    ASSUME NEW T, T = [op \in PrimOp |-> T[op]],
           \A op \in PrimOp : T[op] \in Mechanism
    PROVE  /\ T \in [PrimOp -> Mechanism]
           /\ Coherent(T) <=> \/ \A op \in PrimOp : T[op] # "lock"
                              \/ \A op \in PrimOp : T[op] # "native"
    BY DEF Coherent, Mechanism

LEMMA PrimOps ==
    \A op : op \in PrimOp <=>
        \/ op = "load" \/ op = "store" \/ op = "store_relaxed" \/ op = "exchange"
        \/ op = "compare_and_swap" \/ op = "fetch_add" \/ op = "fetch_sub"
        \/ op = "fetch_and" \/ op = "fetch_or" \/ op = "fetch_xor"
    BY DEF PrimOp

LEMMA Choices ==
    ASSUME NEW c, NEW w
    PROVE  /\ NativeOrLock(IsLockFree(c, w)) \in {"native", "lock"}
           /\ NativeOrLock(IsLockFree(c, w)) = "lock" <=> ~IsLockFree(c, w)
           /\ LoopNativeOrLock(c, w) \in Mechanism
           /\ LoopNativeOrLock(c, w) = "lock" <=> ~IsLockFree(c, w)
           /\ LoopNativeOrLock(c, w) = "loop" => w = 64
<1>1. CASE IsLockFree(c, w)
    BY <1>1 DEF NativeOrLock, LoopNativeOrLock, Mechanism
<1>2. CASE ~IsLockFree(c, w)
    <2>1. NativeOrLock(IsLockFree(c, w)) = "lock"
        BY <1>2 DEF NativeOrLock
    <2>2. LoopNativeOrLock(c, w) = "lock"
        BY <1>2, <2>1 DEF LoopNativeOrLock
    <2>3. QED
        BY <1>2, <2>1, <2>2 DEF Mechanism
<1>3. QED
    BY <1>1, <1>2

LEMMA MsvcTable ==
    ASSUME NEW c \in Config, NEW w \in Width, c.path \in {"MODERN_MSVC", "LEGACY_MSVC"}
    PROVE  /\ WellFormed(Table(c, w))
           /\ Coherent(Table(c, w)) <=> ~Split(c, w)
           /\ IsLockFree(c, w) => NeverLocks(Table(c, w))
<1> DEFINE T == Table(c, w)
           cas == MsvcCas(c, w)
           xchg == LoopNativeOrLock(c, w)
           bits == MsvcBitwise(c, w)
<1>1. T = [op \in PrimOp |-> MsvcMechanism(c, w, op)]
    BY DEF Table
<1>2. /\ T["compare_and_swap"] = cas /\ T["load"] = cas
      /\ T["store"] = xchg /\ T["store_relaxed"] = xchg /\ T["exchange"] = xchg
      /\ T["fetch_add"] = xchg /\ T["fetch_sub"] = xchg
      /\ T["fetch_and"] = bits /\ T["fetch_or"] = bits /\ T["fetch_xor"] = bits
    BY <1>1 DEF MsvcMechanism, PrimOp, BitwiseOp, MsvcLoad, MsvcCas, MsvcStore,
                MsvcExchange, MsvcFetchAdd, MsvcFetchSub
<1>3. T = [op \in PrimOp |-> T[op]]
    BY <1>1
<1> HIDE DEF T
<1>4. /\ cas \in {"native", "lock"} /\ xchg \in Mechanism /\ bits \in {"native", "loop"}
      /\ (cas = "lock" <=> ~IsLockFree(c, IF w = 64 THEN 32 ELSE w))
      /\ (xchg = "lock" <=> ~IsLockFree(c, w))
      /\ (bits = "native" <=> c.cpu \in Arm)
    <2>1. cas \in {"native", "lock"} /\ (cas = "lock" <=> ~IsLockFree(c, IF w = 64 THEN 32 ELSE w))
        BY Choices DEF MsvcCas
    <2>2. bits \in {"native", "loop"} /\ (bits = "native" <=> c.cpu \in Arm)
        BY DEF MsvcBitwise
    <2>3. QED
        BY <2>1, <2>2, Choices
<1>5. /\ c.cpu \in Arm => IsLockFree(c, 32) /\ (w # 64 => IsLockFree(c, w))
      /\ IsLockFree(c, 64) => IsLockFree(c, 32)
      /\ xchg = "loop" => w = 64
      /\ Split(c, w) <=> w = 64 /\ IsLockFree(c, 32) /\ ~IsLockFree(c, w)
    BY ConfigFacts DEF Split, IsLockFree, LoopNativeOrLock, NativeOrLock, Arm, Ppc, Width,
                       CpusOf, MsvcPath, GnuPath
<1> HIDE DEF cas, xchg, bits
<1>6. \A op \in PrimOp : T[op] \in Mechanism
    BY <1>2, <1>4, PrimOps DEF Mechanism
<1>7. WellFormed(T)
    BY <1>2, <1>3, <1>4, <1>6, TenEntries DEF WellFormed, BitwiseOp
<1>8. /\ (\A op \in PrimOp : T[op] # "lock") <=> cas # "lock" /\ xchg # "lock"
      /\ (\A op \in PrimOp : T[op] # "native") <=> cas = "lock" /\ xchg # "native" /\ bits # "native"
    BY <1>2, <1>4, PrimOps
<1>9. Coherent(T) <=> ~Split(c, w)
    BY <1>3, <1>4, <1>5, <1>6, <1>8, TenEntries DEF Mechanism
<1>10. IsLockFree(c, w) => NeverLocks(T)
    BY <1>4, <1>5, <1>8, ConfigFacts DEF NeverLocks, Width
<1>11. QED
    BY <1>7, <1>9, <1>10 DEF T
\* The other paths: no operation asks for another width than its own. All are
\* of their width's mechanism or loops, but the relaxed store of MSVC-style
\* assembly.
LEMMA OwnWidth ==
    ASSUME NEW c \in Config, NEW w \in Width, NEW T, T = [op \in PrimOp |-> T[op]],
           NEW m \in {"native", "lock"}, T["load"] = m, T["compare_and_swap"] = m,
           \A op \in BitwiseOp : T[op] \in {"native", "loop"} /\ (m = "lock" => T[op] = "loop"),
           \A op \in PrimOp \ {"store_relaxed"} : T[op] \in {m, "loop"},
           T["store_relaxed"] \in Mechanism
    PROVE  /\ WellFormed(T)
           /\ Coherent(T) <=> T["store_relaxed"] \in {m, "loop"}
<1>1. \A op \in PrimOp : T[op] \in Mechanism
    BY DEF Mechanism
<1>2. WellFormed(T)
    BY <1>1, TenEntries DEF WellFormed
<1>3. /\ "load" \in PrimOp /\ "store_relaxed" \in PrimOp
    BY DEF PrimOp
<1>4. Coherent(T) <=> T["store_relaxed"] \in {m, "loop"}
    <2>1. CASE T["store_relaxed"] \in {m, "loop"}
        BY <1>1, <2>1, TenEntries
    <2>2. CASE T["store_relaxed"] \notin {m, "loop"}
        BY <1>1, <1>3, <2>2, TenEntries DEF Mechanism
    <2>3. QED
        BY <2>1, <2>2
<1>5. QED
    BY <1>2, <1>4

LEMMA MsvcAsmTable ==
    ASSUME NEW c \in Config, NEW w \in Width, c.path = "LEGACY_MSVC_ASM"
    PROVE  /\ WellFormed(Table(c, w))
           /\ Coherent(Table(c, w)) <=> ~Split(c, w)
           /\ IsLockFree(c, w) => NeverLocks(Table(c, w))
<1> DEFINE T == Table(c, w)
           m == NativeOrLock(IsLockFree(c, w))
           x == LoopNativeOrLock(c, w)
<1>1. T = [op \in PrimOp |-> MsvcAsmMechanism(c, w, op)]
    BY DEF Table
<1>2. /\ T["compare_and_swap"] = m /\ T["load"] = m
      /\ T["store"] = x /\ T["exchange"] = x /\ T["fetch_add"] = x
      /\ T["store_relaxed"] = IF w = 64 THEN x ELSE "native"
      /\ T["fetch_sub"] = IF w = 64 THEN "loop" ELSE m
      /\ T["fetch_and"] = "loop" /\ T["fetch_or"] = "loop" /\ T["fetch_xor"] = "loop"
    BY <1>1 DEF MsvcAsmMechanism, PrimOp, BitwiseOp, MsvcAsmLoad, MsvcAsmCas, MsvcAsmStore,
                MsvcAsmStoreRelaxed, MsvcAsmExchange, MsvcAsmFetchAdd, MsvcAsmFetchSub,
                MsvcAsmBitwise
<1>3. T = [op \in PrimOp |-> T[op]]
    BY <1>1
<1>4. Split(c, w) <=> w # 64 /\ ~IsLockFree(c, w)
    BY DEF Split
<1> HIDE DEF T, m, x
<1>5. /\ m \in {"native", "lock"} /\ x \in {m, "loop"} /\ (m = "lock" <=> ~IsLockFree(c, w))
      /\ (x = "loop" => w = 64)
    BY Choices DEF m, x, Mechanism
<1>6. \A op \in BitwiseOp : T[op] \in {"native", "loop"} /\ (m = "lock" => T[op] = "loop")
    BY <1>2 DEF BitwiseOp
<1>7. \A op \in PrimOp \ {"store_relaxed"} : T[op] \in {m, "loop"}
    BY <1>2, <1>5, PrimOps
<1>8. T["store_relaxed"] \in Mechanism
    BY <1>2, <1>5 DEF Mechanism
<1>9. WellFormed(T) /\ (Coherent(T) <=> T["store_relaxed"] \in {m, "loop"})
    BY <1>2, <1>3, <1>5, <1>6, <1>7, <1>8, OwnWidth
<1>10. T["store_relaxed"] \in {m, "loop"} <=> ~Split(c, w)
    BY <1>2, <1>4, <1>5
<1>11. IsLockFree(c, w) => NeverLocks(T)
    BY <1>2, <1>5, <1>7 DEF NeverLocks
<1>12. QED
    BY <1>9, <1>10, <1>11 DEF T

\* The GCC paths and chibicc are sound for every CPU and width.
LEMMA GnuTable ==
    ASSUME NEW c \in Config, NEW w \in Width, c.path \in GnuPath
    PROVE  /\ WellFormed(Table(c, w))
           /\ Coherent(Table(c, w)) <=> ~Split(c, w)
           /\ IsLockFree(c, w) \/ c.path = "CHIBICC" => NeverLocks(Table(c, w))
<1> DEFINE T == Table(c, w)
           m == IF c.path \in {"MODERN_GCC", "CHIBICC"}
                THEN "native" ELSE NativeOrLock(IsLockFree(c, w))
<1>1. T = [op \in PrimOp |-> T[op]]
    <2> DEFINE e(op) ==
            CASE c.path = "LEGACY_GCC" -> GccMechanism(c, w, op)
              [] c.path = "LEGACY_GCC_ASM" -> GccAsmMechanism(c, w, op)
              [] c.path = "MODERN_GCC" -> ModernGcc(op)
              [] c.path = "CHIBICC" -> Chibicc(op)
    <2>1. T = [op \in PrimOp |-> e(op)]
        BY DEF Table, GnuPath
    <2> HIDE DEF e, T
    <2>2. QED
        BY <2>1
<1>2. /\ T["load"] = m /\ T["compare_and_swap"] = m
      /\ \A op \in PrimOp : T[op] \in {m, "loop"}
      /\ \A op \in BitwiseOp : T[op] \in {"native", "loop"} /\ (m = "lock" => T[op] = "loop")
    <2>1. CASE c.path = "MODERN_GCC"
        BY <2>1 DEF Table, ModernGcc, PrimOp, BitwiseOp
    <2>2. CASE c.path = "CHIBICC"
        BY <2>2 DEF Table, Chibicc, PrimOp, BitwiseOp
    <2>3. CASE c.path = "LEGACY_GCC"
        <3>1. T = [op \in PrimOp |-> GccMechanism(c, w, op)]
            BY <2>3 DEF Table
        <3>2. \A op \in PrimOp \ BitwiseOp : GccMechanism(c, w, op) = NativeOrLock(IsLockFree(c, w))
            BY PrimOps DEF GccMechanism, BitwiseOp, GccCas, GccLoad, GccStore, GccExchange,
                           GccFetchAdd, GccFetchSub, NativeOrLock
        <3>3. \A op \in BitwiseOp : GccMechanism(c, w, op) = IF IsLockFree(c, w) THEN "native" ELSE "loop"
            BY DEF GccMechanism, BitwiseOp, GccBitwise
        <3>4. QED
            BY <2>3, <3>1, <3>2, <3>3, PrimOps, Choices DEF BitwiseOp
    <2>4. CASE c.path = "LEGACY_GCC_ASM"
        <3>1. T = [op \in PrimOp |-> GccAsmMechanism(c, w, op)]
            BY <2>4 DEF Table
        <3>2. \A op \in PrimOp \ BitwiseOp : GccAsmMechanism(c, w, op)
                    \in {NativeOrLock(IsLockFree(c, w)), LoopNativeOrLock(c, w)}
            BY PrimOps DEF GccAsmMechanism, BitwiseOp, GccAsmCas, GccAsmLoad, GccAsmStore,
                           GccAsmExchange, GccAsmFetchAdd, GccAsmFetchSub
        <3>3. \A op \in BitwiseOp : GccAsmMechanism(c, w, op) = "loop"
            BY DEF GccAsmMechanism, BitwiseOp, GccAsmBitwise
        <3>4. /\ GccAsmMechanism(c, w, "load") = NativeOrLock(IsLockFree(c, w))
              /\ GccAsmMechanism(c, w, "compare_and_swap") = NativeOrLock(IsLockFree(c, w))
            BY DEF GccAsmMechanism, BitwiseOp, GccAsmCas, GccAsmLoad
        <3>5. LoopNativeOrLock(c, w) \in {NativeOrLock(IsLockFree(c, w)), "loop"}
            BY Choices DEF Mechanism
        <3>6. QED
            BY <2>4, <3>1, <3>2, <3>3, <3>4, <3>5, PrimOps DEF BitwiseOp
    <2>5. QED
        BY <2>1, <2>2, <2>3, <2>4 DEF GnuPath
<1>3. m \in {"native", "lock"} /\ (IsLockFree(c, w) \/ c.path = "CHIBICC" => m = "native")
    BY Choices
<1>4. ~Split(c, w)
    BY DEF Split, GnuPath
<1> HIDE DEF T, m
<1>5. "store_relaxed" \in PrimOp
    BY DEF PrimOp
<1>6. WellFormed(T) /\ (Coherent(T) <=> T["store_relaxed"] \in {m, "loop"})
    BY <1>1, <1>2, <1>3, <1>5, OwnWidth DEF Mechanism
<1>7. IsLockFree(c, w) \/ c.path = "CHIBICC" => NeverLocks(T)
    BY <1>2, <1>3 DEF NeverLocks
<1>8. QED
    BY <1>2, <1>4, <1>5, <1>6, <1>7 DEF T

\* Every operation on an object of w bits excludes the others exactly where the
\* preprocessor has not split them: on MODERN_MSVC the 64-bit ones of a CPU that
\* has 32-bit atomics only, in MSVC-style assembly those of an i386.
THEOREM PathsAreCoherent ==
    ASSUME NEW c \in Config, NEW w \in Width
    PROVE  /\ WellFormed(Table(c, w))
           /\ Coherent(Table(c, w)) <=> ~Split(c, w)
<1>1. \/ c.path \in {"MODERN_MSVC", "LEGACY_MSVC"}
      \/ c.path = "LEGACY_MSVC_ASM"
      \/ c.path \in GnuPath
    BY ConfigFacts DEF MsvcPath
<1>2. QED
    BY <1>1, MsvcTable, MsvcAsmTable, GnuTable
\* Where c89atomic_is_lock_free_<w> says yes, no operation of that width ever
\* takes the global lock. (What LockFreeAsReported rests on.)
THEOREM ReportedNeverLocks ==
    ASSUME NEW c \in Config, NEW w \in Width, ReportsLockFree(c, w)
    PROVE  NeverLocks(Table(c, w))
<1>1. \/ c.path \in {"MODERN_MSVC", "LEGACY_MSVC"}
      \/ c.path = "LEGACY_MSVC_ASM"
      \/ c.path \in GnuPath
    BY ConfigFacts DEF MsvcPath
<1>2. QED
    BY <1>1, MsvcTable, MsvcAsmTable, GnuTable DEF ReportsLockFree
=============================================================================
