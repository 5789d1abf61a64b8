SPECIFICATION FairSpec
CONSTANTS
    s1 = s1
    s2 = s2
    p1 = p1
    o1 = o1
    o2 = o2
    NoProject = NoProject
    NoServer = NoServer
    Servers = {s1, s2}
    Projects = {p1}
    Ops = {o1, o2}
    Deeds <- MCDeeds
    MaxCalls = 3
    MaxFaults = 1
INVARIANTS TypeOK OneWriter AcknowledgedIsRecorded NoFailureForgotten
           MirrorFollowsGlobal
PROPERTY EveryCallAnswered
