SPECIFICATION LhFairSpec
CONSTANTS
    Atomics = 3
    RetryCap = 2
    MaxRollbacks = 1
    ToolBudget = 2
    MaxLeaks = 1
CHECK_DEADLOCK FALSE
INVARIANTS  SuccessIsConfirmed TimedOutAttemptIsNotJudged
 
