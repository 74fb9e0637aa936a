SPECIFICATION OrderedSpec
CONSTANTS
    n1 = n1
    n2 = n2
    i1 = i1
    i2 = i2
    i3 = i3
    p1 = p1
    p2 = p2
    noContainer = noContainer
    c1 = c1
    NIC = {n1, n2}
    IP = {i1, i2, i3}
    Device = {1, 2}
    Pod = {p1, p2}
    Container = {noContainer, c1}
    addressCoolingPeriod = 1
    addressNICCoolingPeriod = 2
    minLifeTime = 2
    AgeCap = 2
SYMMETRY StoreSymmetry
INVARIANTS
    StoreTypeOK
    Accounting
    DistinctHolders
    Ownership
PROPERTIES
    RemovedNICIsCold
    ImplementsPool
