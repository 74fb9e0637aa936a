SPECIFICATION Spec
CONSTANTS
    a = a
    b = b
    v1 = v1
    v2 = v2
    v3 = v3
    v4 = v4
    NoNode = NoNode
    NoVxNet = NoVxNet
    Node = {a, b}
    VxNet = {v1, v2, v3, v4}
    Subnet = {1, 2}
    InUse = {1}
    JoinAttempts = 2
    Faults = {}
    MaxFaults = 0
INVARIANTS
    ReadyJoined
CHECK_DEADLOCK FALSE
