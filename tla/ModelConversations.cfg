SPECIFICATION Spec
CONSTANTS
    ToolBudget = 4
    CallsPerTurn = 2
    SummarizeAt = 8
    KeepRecent = 4
    ReflectEvery = 2
    RetryCap = 2
    MaxRepairs = 2
    MaxHops = 2
INVARIANTS AnswersFollowTheirCalls OnlyAbandonedCallsHang SentIsUsable
