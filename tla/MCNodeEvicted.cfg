SPECIFICATION FairSpec
CONSTANTS
    n1 = n1
    n2 = n2
    i1 = i1
    i2 = i2
    p1 = p1
    p2 = p2
    s1 = s1
    s2 = s2
    s3 = s3
    NoContainer = NoContainer
    NoStatus = NoStatus
    NoIP = NoIP
    NoNIC = NoNIC
    AppContainer = AppContainer
    NIC = {n1}
    IP = {i1}
    Device = {1, 2, 3, 4}
    Pod = {p1}
    Sandbox = {s1, s2}
    Container = {s1, s2, NoContainer, AppContainer}
    PodOf <- TwoSandboxes
    AddrOf <- OneNICAddr
    IfIndex <- OneNICIfIndex
    Sequence <- OneNICSequence
    addressCoolingPeriod = 0
    addressNICCoolingPeriod = 1
    minLifeTime = 1
    AgeCap = 1
    poolSize = 1
    maxPoolSize = 1
    MaxTries = 2
    MaxCrash = 0
    Faults = {"evicted"}
PROPERTIES
    DaemonReady
