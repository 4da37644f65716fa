SPECIFICATION FlexFairSpec
CONSTANTS
    o1 = o1
    c1 = c1
    c2 = c2
    Operator = {o1}
    Client = {c1, c2}
    Action = {"move", "descend", "grasp", "stop", "read", "shutdown"}
    SlowBoots = FALSE
    MaxPids = 2
    MaxCalls = 1
    MaxCrashes = 1
CHECK_DEADLOCK FALSE
INVARIANTS   MovingArmIsOwned
PROPERTY NothingHangs
