SPECIFICATION EpisodeFairSpec
CONSTANTS
    e1 = e1
    e2 = e2
    Episode = {e1, e2}
    Manager = Manager
    Old = Old
    Missing = Missing
    Free = Free
    MaxTraces = 1
    MaxRounds = 2
    ToolBudget = 2
    RoundBudget = 2
    ContinueAt = 1
    CallsPerTurn = 2
    MaxKills = 1
CHECK_DEADLOCK FALSE
INVARIANTS BudgetIsShared LessonsFitTheOutcome 
PROPERTIES FrozenMemoryIsUntouched EpisodesEnd
