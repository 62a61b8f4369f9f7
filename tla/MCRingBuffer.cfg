SPECIFICATION Spec
CONSTANTS
    W = 4
    Capacities = {0, 1, 2, 3}
    Tags = 12
    StaleBound = 1
INVARIANTS TypeOK NoDataRace WindowIsFront AssertsHold LengthIsSafe
PROPERTY ImplementsFifo
