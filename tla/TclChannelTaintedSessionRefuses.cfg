SPECIFICATION Spec
CONSTANTS
    c1 = c1
    c2 = c2
    k1 = k1
    k2 = k2
    NoCaller = NoCaller
    NoCall = NoCall
    NoItem = NoItem
    Callers = {c1}
    Calls = {k1, k2}
    Guarded = {k1}
    MaxReplays = 0
    MaxStops = 1
INVARIANT TaintedSessionRefuses
