SPECIFICATION FairSpec
CONSTANTS
    c1 = c1
    c2 = c2
    c3 = c3
    mark1 = mark1
    mark2 = mark2
    CIDR = {c1, c2, c3}
    Elsewhere = Elsewhere
    AnyDst = AnyDst
    Lists <- SomeLists
    MaxNetworks = 3
    Environment <- SomeEnvironments
    Mark = {mark1, mark2}
    defaultConnmark = mark1
    HasRandomFully = TRUE
    PrimaryIntf = "ens3"
    None = None
    MaxStops = 2
CHECK_DEADLOCK FALSE
INVARIANTS
    HostTypeOK
    TranslatedOutsideVPC
    NeverTranslatedInVPC
    NodePortReplies
PROPERTY
    HostReady
