-------------------------- MODULE CompiledOpsProof --------------------------
(***************************************************************************)
(* AtomicOps with the tables the preprocessor really produces: what        *)
(* AtomicOpsProof asks of a table is what CodePathsProof shows of them.    *)
(***************************************************************************)
EXTENDS AtomicOpsProof, CodePathsProof

\* A program is compiled by one configuration, its objects are of any widths.
\* This one has no object whose operations Split tears apart.
SoundFor(width) ==
    {[o \in Object |-> Table(c, width[o])] :
        c \in {d \in Config : \A o \in Object : ~Split(d, width[o])}}

LEMMA CompiledTable ==
    ASSUME NEW width \in [Object -> Width], Impls \subseteq SoundFor(width),
           NEW i \in Impls, NEW o \in Object
    PROVE  \E c \in Config : /\ i[o] = Table(c, width[o])
                             /\ ~Split(c, width[o])
    BY DEF SoundFor

\* ImplsAssumption and CoherentImpls hold of the compiled tables.
LEMMA CompiledTablesAreSound ==
    ASSUME NEW width \in [Object -> Width], Impls \subseteq SoundFor(width)
    PROVE  /\ \A i \in Impls, o \in Object : WellFormed(i[o])
           /\ CoherentImpls
    BY CompiledTable, PathsAreCoherent DEF CoherentImpls

\* All operations on an object exclude one another the same way, in every
\* program compiled by any of the seven paths, where Split allows it.
THEOREM PreprocessorIsCoherent ==
    ASSUME NEW width \in [Object -> Width], Impls \subseteq SoundFor(width)
    PROVE  Spec => []CompiledCoherently
<1>1. IInv => CompiledCoherently
    BY CompiledTablesAreSound, CoherenceKept
<1>2. QED
    BY <1>1, Invariance, PTL

\* The atomic operations as compiled: whatever the compiler, the CPU, the
\* widths and the number of threads, every call takes effect at one instant
\* between its invocation and its return.
THEOREM CompiledLinearizability ==
    ASSUME NEW width \in [Object -> Width], Impls \subseteq SoundFor(width)
    PROVE  Spec => Linearizable
<1>1. CoherentImpls
    BY CompiledTablesAreSound
<1>2. QED
    BY <1>1, Linearizability

\* The operations of the objects of table T never touch the global lock.
KeepsOffLock(T) ==
    \A t \in Thread :
        pc[t] # "idle" /\ impl[call[t].obj] = T
            => pc[t] \in {"start", "finish"}

\* Where c89atomic_is_lock_free_<w> says yes, no call on an object of that
\* width waits for the global lock or holds it, so that no other thread can
\* keep it waiting by stopping. (The safety half of LockFreeAsReported.)
THEOREM ReportedKeepsOffLock ==
    ASSUME NEW c \in Config, NEW w \in Width, ReportsLockFree(c, w)
    PROVE  Spec => []KeepsOffLock(Table(c, w))
<1>1. IInv => KeepsOffLock(Table(c, w))
    <2> SUFFICES ASSUME IInv, NEW t \in Thread, pc[t] # "idle",
                        impl[call[t].obj] = Table(c, w)
                 PROVE  pc[t] \in {"start", "finish"}
        BY DEF KeepsOffLock
    <2>1. /\ prim[t].op \in PrimOp
          /\ impl[prim[t].obj] = Table(c, w)
        BY DEF IInv, ThreadInv, PrimRequest
    <2>2. impl[prim[t].obj][prim[t].op] # "lock"
        BY <2>1, ReportedNeverLocks DEF NeverLocks
    <2>3. pc[t] \notin {"spin", "read", "reread", "write", "unlock"}
        BY <2>2 DEF IInv, ThreadInv, Uses, Dst
    <2>4. QED
        BY <2>3 DEF IInv, TypeOK
<1>2. QED
    BY <1>1, Invariance, PTL
=============================================================================
