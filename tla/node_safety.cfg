SPECIFICATION Spec
CONSTANTS
    c1 = c1  c2 = c2
    v1 = v1  v2 = v2
    s1 = s1  s2 = s2
    t1 = t1  t2 = t2
    NoRequest = NoRequest
    Call = {c1, c2}
    Vol = {v1, v2}
    Path = {s1, s2, t1, t2}
    Staging <- MCStaging
    Target <- MCTarget
    Whitelist = {v1, v2, s1, s2}
    ReaderOnly = {v2}
    NoWrite = {}
    MaxFaults = 2
SYMMETRY Interchangeable
INVARIANTS
    NodeTypeOK
    BelievedIsMounted
    BelievedIsUnmounted
    NoOtherShows
    OwnedUnlessFailed
    TakeDownAllowed
PROPERTIES
    ImplementsNodeService
CHECK_DEADLOCK FALSE
