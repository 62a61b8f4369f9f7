SPECIFICATION Spec
CONSTANTS
    Thread = {1, 2, 3, 4}
    Object = {"x", "y"}
    Data = {"d"}
    GlobalLock = "global_lock"
    UserLock = "lock"
    Local <- LocalOf
    Litmus <- AllLitmus
INVARIANTS TypeOK NoDataRace SequentiallyConsistent
