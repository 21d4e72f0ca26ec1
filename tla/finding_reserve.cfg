SPECIFICATION Spec
CONSTANTS
    c1 = c1  c2 = c2
    u1 = u1  u2 = u2  u3 = u3
    l1 = l1  l2 = l2
    n1 = n1  n2 = n2
    NoName = NoName  NoRange = NoRange  NoId = NoId
    NoVolume = NoVolume  NoRequest = NoRequest
    Call = {c1, c2}
    Uuid = {u1, u2, u3}
    LvName = {l1, l2}
    Name = {n1, n2}
    Hash <- MCHash
    Request <- TwoNames
    VgSize = 16
    Extent = 4
    Sector = 2
    Spare = 4
    MinSize = 4
    ReportsFree = TRUE
    MaxFaults = 1
    MaxVolumes = 4
SYMMETRY Interchangeable
INVARIANT
    ReserveKept
