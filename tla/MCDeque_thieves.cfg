SPECIFICATION Spec
CONSTANTS
    Owner = Owner
    Thief = {s1, s2}
    Capacity = 2
    W = 4
    Start = 15
    MaxPushes = 4
    MaxTakes = 2
    MaxSteals = 1
SYMMETRY Thieves
INVARIANTS TypeOK PayloadVisible
PROPERTY ImplementsDeque
CHECK_DEADLOCK FALSE
