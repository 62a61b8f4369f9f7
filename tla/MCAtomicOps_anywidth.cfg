SPECIFICATION Spec
CONSTANTS
    Thread = {t1, t2}
    Object = {"dst"}
    Widths = {}
    Bits = 2
    Value <- SignedWord
    Requests <- AllCalls
    NoRequest = NoRequest
    NoResult = NoResult
    Impls <- AnyWidthImpls
    Arith <- SignedArith
    RefArith <- MeantSignedArith
INVARIANTS TypeOK MutualExclusion CompiledCoherently
PROPERTIES Linearizable SomeCallReturns LoneCallReturns LockFreeAsReported
