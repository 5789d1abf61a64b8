\* The gate: two paths, one with a project of the user, two sessions, two
\* interventions and a cancelled tool.  Simulation: two simsets, two launches,
\* one edit, two changes of properties, one simulation of the user's.
SPECIFICATION ToolsSpec
CONSTANTS
    p1 = p1
    p2 = p2
    None = None
    Paths = {p1, p2}
    Existing = {p1}
    MaxGen = 2
    MaxOutside = 2
    MaxCancels = 1
    sim_1 = sim_1
    sim_2 = sim_2
    Simsets = {sim_1, sim_2}
    MaxEdits = 1
    MaxSets = 2
    MaxRuns = 2
    MaxGui = 1
SYMMETRY Symmetric
INVARIANTS TypeOK OnlyRepairStrays ForeignIsReadOnly TrustIsCurrent ShadowAgrees
           OnlyTrustedFilesRun AcceptedRunIsAttested ResultIsOfLastLaunch
PROPERTY CheckpointReopens
