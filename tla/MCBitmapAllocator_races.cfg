SPECIFICATION FairSpec
CONSTANTS
    Thread = {t1, t2}
    NoSlot = NoSlot
    Nobody = Nobody
    Bits = 2
    Words = 2
    IndexRange = 4
    MaxCalls = 3
CHECK_DEADLOCK FALSE
INVARIANTS TypeOK BitmapIsExact NoDoubleFree NoFalseOutOfMemory ContentsHandedOver
PROPERTIES ImplementsPool CallsReturn
