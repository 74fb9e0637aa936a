SPECIFICATION Spec
CONSTANTS
    n1 = n1
    n2 = n2
    n3 = n3
    a1 = a1
    a2 = a2
    p1 = p1
    p2 = p2
    s1 = s1
    s2 = s2
    vpc = vpc
    vpn = vpn
    NIC = {n1, n2, n3}
    Addr = {a1, a2}
    AddrOf <- NICAddr
    IfIndex <- FarIfIndex
    Sequence <- NICSequence
    toCIDRs <- VPCThenVPN
    AnyDst = AnyDst
    Pod = {p1, p2}
    Sandbox = {s1, s2}
    PodOf <- PodOfTwo
    AppContainer = AppContainer
    NoContainer = NoContainer
    None = None
    MaxCrash = 1
    MaxFailures = 1
    Faults = {"setup", "teardown", "nic", "update"}
SYMMETRY PodNetworkSymmetry
CONSTRAINT FirstBeforeThird
CHECK_DEADLOCK FALSE
INVARIANTS
    PodNetworkTypeOK
    PodReachable
    OwnNICOnly
    RunningPodsRouted
    NothingLeftBehind
