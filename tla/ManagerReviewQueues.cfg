SPECIFICATION Spec
CONSTANTS
    Proposal = {1, 2, 3}
    Candidate = {2}
    FolderOf <- PlanSkillCompound
    ReviewModes = {"manager", "human"}
    MaxFaults = 1
INVARIANTS InstalledCodePassedItsGate AppliedAtMostOnce
 
