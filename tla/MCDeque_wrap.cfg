SPECIFICATION Spec
CONSTANTS
    Owner = Owner
    Thief = {s1}
    Capacity = 2
    W = 3
    Start = 0
    MaxPushes = 5
    MaxTakes = 4
    MaxSteals = 0
PROPERTY ImplementsDeque
CHECK_DEADLOCK FALSE
