SPECIFICATION FairSpec
CONSTANTS
    a1 = a1  a2 = a2
    b1 = b1
    m1 = m1  n1 = n1
    NoSlot = NoSlot
    Slot = {a1, a2, b1, m1, n1}
    Runs <- MCRuns
    MaxFaults = 1
    MaxStops = 1
INVARIANTS
    LifecycleTypeOK
    ServesAtItsSocket
PROPERTIES
    StaysUp
    SigintHeeded
    Recovers
    ReadyAgain
