SPECIFICATION Spec
CONSTANTS
    Thread = {t1, t2}
    NoSlot = NoSlot
    Nobody = Nobody
    Bits = 1
    Words = 3
    IndexRange = 2
    MaxCalls = 6
CHECK_DEADLOCK FALSE
SYMMETRY Threads
INVARIANT NoDoubleFree
