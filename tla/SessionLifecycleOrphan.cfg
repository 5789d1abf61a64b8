SPECIFICATION Spec
CONSTANTS
    MaxGen = 2
    MaxOps = 2
    MaxCancels = 1
    KillMayFail = FALSE
INVARIANT OneManagedProcess
