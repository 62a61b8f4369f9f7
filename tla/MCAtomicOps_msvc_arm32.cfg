SPECIFICATION Spec
CONSTANTS
    Thread = {t1, t2}
    Object = {64}
    Widths = {64}
    Bits = 2
    Value <- Word
    Requests <- MixedCalls
    NoRequest = NoRequest
    NoResult = NoResult
    Impls <- MsvcSplitImpls
    Arith <- WordArith
    RefArith <- MeantArith
PROPERTY Linearizable
