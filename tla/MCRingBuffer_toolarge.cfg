SPECIFICATION Spec
CONSTANTS
    W = 3
    Capacities = {3}
    Tags = 6
    StaleBound = 1
PROPERTY ImplementsFifo
