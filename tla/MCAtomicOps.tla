---------------------------- MODULE MCAtomicOps -----------------------------
(***************************************************************************)
(* AtomicOps on the words of Word, compiled as CodePaths says.             *)
(***************************************************************************)
EXTENDS AtomicOps, Word, TLC

CONSTANTS Widths    \* the widths of the objects: an object is its width

ASSUME WidthsAssumption == Widths \subseteq Width

\* The fetch operations compute what they are meant to, unsigned and signed.
ASSUME FetchAssumption ==
    \A op \in {"fetch_add", "fetch_sub", "fetch_and", "fetch_or", "fetch_xor"} :
        /\ \A v, s \in Word : WordArith(op, v, s) = MeantArith(op, v, s)
        /\ \A v, s \in SignedWord :
            SignedArith(op, v, s) = MeantSignedArith(op, v, s)

\* Every object compiled by one configuration.
TablesOf(C) == {[w \in Widths |-> Table(c, w)] : c \in C}

SoundConfig == {c \in Config : \A w \in Width : ~Split(c, w)}

MsvcSplit == {c \in Config : c.path = "MODERN_MSVC"} \ SoundConfig

MovSplit == {c \in Config : c.path = "LEGACY_MSVC_ASM"} \ SoundConfig

SoundImpls == TablesOf(SoundConfig)

\* One object of each of the ways any width is compiled that is not split.
AnyWidthImpls ==
    {[o \in {"dst"} |-> Table(x[1], x[2])] :
        x \in {y \in Config \X Width : ~Split(y[1], y[2])}}

MsvcSplitImpls == TablesOf(MsvcSplit)

MovSplitImpls == TablesOf(MovSplit)

\* The tables of objects for which is_lock_free answers yes.
Reported ==
    {Table(x[1], x[2]) : x \in {y \in Config \X Width : ReportsLockFree(y[1], y[2])}}

\* is_lock_free tells the truth, in the configurations AnyWidthImpls has.
LockFreeAsReported == LockFreeFor(Reported)

Req(op, obj, src, exp) == [op |-> op, obj |-> obj, src |-> src, exp |-> exp]

\* One call of every kind on a signed object, with operands that can undo
\* each other and the one that is its own negation. (Where the table is sound,
\* a relaxed store is of the same mechanism as any other.)
AllCalls ==
    LET Do(op, src, exp) == Req(op, "dst", src, exp) IN
    {Do("load", 0, 0), Do("store", 1, 0),
     Do("exchange", -1, 0), Do("compare_and_swap", -2, 1),
     Do("compare_exchange", 1, 0),
     Do("fetch_add", 1, 0), Do("fetch_sub", -2, 0),
     Do("fetch_and", 1, 0), Do("fetch_or", -2, 0), Do("fetch_xor", -1, 0)}

\* The calls that make the three mechanisms meet, on every object.
MixedCalls == UNION {
    {Req("store", o, 0, 0), Req("fetch_add", o, 1, 0),
     Req("fetch_xor", o, 1, 0)} : o \in Widths}

\* Relaxed stores against calls that read, and calls that read and store.
RelaxedCalls == UNION {
    {Req("store_relaxed", o, 0, 0), Req("fetch_add", o, 1, 0),
     Req("load", o, 0, 0)} : o \in Widths}

Threads == Permutations(Thread)
=============================================================================
