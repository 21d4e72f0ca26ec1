SPECIFICATION Spec
CONSTANTS
    l1 = l1  l2 = l2  l3 = l3
    u1 = u1  u2 = u2  u3 = u3
    NoToken = NoToken  BadToken = BadToken
    NoQuery = NoQuery
    LvName = {l1, l2, l3}
    Uuid = {u1, u2, u3}
    MaxEntries <- MCMaxEntries
    Tokens = {NoToken, BadToken, 1}
    Sizes = {4, 6}
    VgSize = 16
    Extent = 4
    Sector = 2
    Spare = 2
    ReportsFree = TRUE
    MaxVolumes = 3
INVARIANTS
    QueriesTypeOK
    UnrestrictedShowsAll
    OfferStaysUsable
