SPECIFICATION Spec
CONSTANTS
    A = A
    B = B
    h1 = h1
    h2 = h2
    Account = {A, B}
    Host = {h1, h2}
    Port <- MCPort
    Obj = {o1, o2, o3, o4}
    NetworkMaps <- TwoOrMoved
    Epoch = 3
    MaxTime = 5
    DefaultMinBackoff = 1
    DefaultMaxBackoff = 2
    MinBackoffs = {}
    MaxBackoffs = {}
    ReadmitPeriods = {}
    Securities = {TRUE}
    MaxNodesPerTransaction <- Unlimited
SYMMETRY ObjSymmetry
INVARIANTS
    TypeOK
    ListsHoldCurrentNodes
    OpenChannelsAreReachable
PROPERTIES
    SetNetworkInstallsMap
    OnlyClonesListedUnhealthy
CHECK_DEADLOCK FALSE
