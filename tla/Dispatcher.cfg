SPECIFICATION FairSpec
CONSTANTS
    r1 = r1
    r2 = r2
    r3 = r3
    None = None
    Requests = {r1, r2, r3}
    MaxRecancels = 1
INVARIANTS TypeOK AbortHitsOnlyItsOwner CancelledIsSettled ShutdownIsQuiet
           NothingOutlivesShutdownAbort
PROPERTIES EveryRequestSettles ShutdownEnds
