\* Two edits of the closure, two executions of the run and two sessions, at most four
\* of these six in one behaviour; the bitstream of each execution is overwritten once.
SPECIFICATION Spec
CONSTANTS
    None = None
    MaxEdits = 2
    MaxExecs = 2
    MaxGen = 2
    MaxEvents = 4
INVARIANTS
    AcceptedArtifactsAreTrue
    FreshAuditIsOneBuild
    BundleMatchesAudit
CHECK_DEADLOCK FALSE
