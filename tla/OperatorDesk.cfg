SPECIFICATION OperatorFairSpec
CONSTANTS
    d1 = d1
    c1 = c1
    m1 = m1
    m2 = m2
    w1 = w1
    chat = chat
    Draft = {d1}
    Candidate = {c1}
    Message = {m1, m2}
    Walker = {w1}
    Clerk <- MCClerk
    ChatOf <- MCChatOf
    Command <- MCCommand
    MaxDeliveries <- MCDeliveries
    MaxCommands = 1
CHECK_DEADLOCK FALSE
PROPERTIES   NoProposalIsLost 
