SPECIFICATION Spec
CONSTANTS
    n1 = n1
    n2 = n2
    i1 = i1
    i2 = i2
    p1 = p1
    p2 = p2
    s1 = s1
    s2 = s2
    s3 = s3
    NoContainer = NoContainer
    NoStatus = NoStatus
    NoIP = NoIP
    NoNIC = NoNIC
    AppContainer = AppContainer
    NIC = {n1, n2}
    IP = {i1, i2}
    Device = {1}
    Pod = {p1, p2}
    Sandbox = {s1, s3}
    Container = {s1, s3, NoContainer, AppContainer}
    PodOf <- TwoPods
    AddrOf <- TwoNICsAddr
    IfIndex <- OneDevice
    Sequence <- OneDevice
    addressCoolingPeriod = 0
    addressNICCoolingPeriod = 1
    minLifeTime = 1
    AgeCap = 1
    poolSize = 1
    maxPoolSize = 1
    MaxTries = 2
    MaxCrash = 1
    Faults = {"setup"}
SYMMETRY NodeSymmetry
INVARIANTS
    NoDoubleUse
    UsedAddressHeld
    UsedNICAttached
