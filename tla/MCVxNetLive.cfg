SPECIFICATION FairSpec
CONSTANTS
    a = a
    b = b
    v1 = v1
    v2 = v2
    v3 = v3
    v4 = v4
    NoNode = NoNode
    NoVxNet = NoVxNet
    Node = {a, b}
    VxNet = {v1, v2, v3, v4}
    Subnet = {1, 2, 3, 4, 5}
    InUse = {1}
    JoinAttempts = 2
    Faults = {"crash", "call", "lost", "stale", "list", "api"}
    MaxFaults = 2
INVARIANTS
    ReadyJoined
    AnnotationSound
PROPERTIES
    Guaranteed
CHECK_DEADLOCK FALSE
