SPECIFICATION LoopFairSpec
CONSTANTS
    Proposal = {1, 2}
    Candidate = {}
    FolderOf <- LeadAndCompound
    ReviewModes = {"manager"}
    MaxFaults = 1
    MaxSeeds = 2
CHECK_DEADLOCK FALSE
PROPERTIES EveryProposalIsTakenUp StopReturns
