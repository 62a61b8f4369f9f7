SPECIFICATION Spec
CONSTANTS
    Thread = {t1, t2}
    Object = {8}
    Widths = {8}
    Bits = 2
    Value <- Word
    Requests <- RelaxedCalls
    NoRequest = NoRequest
    NoResult = NoResult
    Impls <- MovSplitImpls
    Arith <- WordArith
    RefArith <- MeantArith
PROPERTY Linearizable
