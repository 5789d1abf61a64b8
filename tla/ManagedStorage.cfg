\* Two servers.  Managed writes: five files and edits.  Runtime directory: four
\* files the servers make, one change from outside.  Trust directory: three
\* tokens, one removal by the user.  Bundles: two collections, one edit or new
\* version of the reports, a trace that is written to once more, perhaps torn.
SPECIFICATION Spec
CONSTANTS
    server_1 = server_1
    server_2 = server_2
    staged_1 = staged_1
    staged_2 = staged_2
    Writers = {server_1, server_2}
    Servers = {server_1, server_2}
    StagedNames = {staged_1, staged_2}
    User = User
    NoFile = NoFile
    None = None
    Absent = Absent
    Edited = Edited
    MaxFile = 5
    MaxMade = 4
    MaxWorld = 1
    MaxToken = 3
    MaxRemovals = 1
    MaxCollections = 2
    MaxTrail = 2
    MaxTampering = 1
SYMMETRY Symmetric
 
PROPERTIES ReplacementIsSafe OnlyReviewedDeleted ProgrammedAsConfirmed
CHECK_DEADLOCK FALSE
