SPECIFICATION Spec
CONSTANTS
    c1 = c1  c2 = c2
    v1 = v1  v2 = v2
    s1 = s1  s2 = s2
    t1 = t1  t2 = t2
    NoRequest = NoRequest
    Call = {c1, c2}
    Vol = {v1}
    Path = {s1, t1}
    Staging <- OneStaging
    Target <- OneTarget
    Whitelist = {v1, s1}
    ReaderOnly = {v1}
    NoWrite = {}
    MaxFaults = 0
SYMMETRY Interchangeable
INVARIANT
    StagedIsOwned
CHECK_DEADLOCK FALSE
