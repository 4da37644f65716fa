SPECIFICATION Spec
CONSTANTS
    p1 = p1
    p2 = p2
    p3 = p3
    t1 = t1
    t2 = t2
    Task = {t1, t2}
    Proposal = {p1, p2, p3}
    SourceOf <- TwoTasks
    New = {p1, p2}
    Shared = Shared
    NoText = NoText
    Shipped = Shipped
    GitMayFail = TRUE
CHECK_DEADLOCK FALSE
INVARIANTS SharedTextPassedBothGates 
