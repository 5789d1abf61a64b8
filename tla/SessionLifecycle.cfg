SPECIFICATION FairSpec
CONSTANTS
    MaxGen = 2
    MaxOps = 4
    MaxCancels = 1
    KillMayFail = TRUE
INVARIANTS TypeOK ProcessHasHandle
PROPERTIES OnlyAcceptedServes ToolEnds
