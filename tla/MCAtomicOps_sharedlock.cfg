SPECIFICATION Spec
CONSTANTS
    Thread = {t1, t2, t3}
    Object = {8, 64}
    Widths = {8, 64}
    Bits = 1
    Value <- Word
    Requests <- MixedCalls
    NoRequest = NoRequest
    NoResult = NoResult
    Impls <- SoundImpls
    Arith <- WordArith
    RefArith <- MeantArith
SYMMETRY Threads
INVARIANTS MutualExclusion SectionIsolated
PROPERTY Linearizable
