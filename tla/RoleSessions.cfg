SPECIFICATION SessionFairSpec
CONSTANTS
    p1 = p1
    p2 = p2
    Process = {p1, p2}
    Nobody = Nobody
    RollAt = 2
    MaxTurns = 2
    MaxThreads = 6
    MaxSetbacks = 1
    MaxByHand = 1
CHECK_DEADLOCK FALSE
INVARIANTS  SharedSessionForgetsNothing
PROPERTY TurnsEnd
