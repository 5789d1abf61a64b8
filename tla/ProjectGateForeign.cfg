SPECIFICATION ToolsSpec
CONSTANTS
    p1 = p1
    p2 = p2
    None = None
    Paths = {p1, p2}
    Existing = {p1}
    MaxGen = 1
    MaxOutside = 0
    MaxCancels = 0
    sim_1 = sim_1
    sim_2 = sim_2
    Simsets = {sim_1, sim_2}
    MaxEdits = 0
    MaxSets = 0
    MaxRuns = 0
    MaxGui = 0
INVARIANT ForeignUntouched
