SPECIFICATION FairExecSpec
CONSTANTS
    A = A
    B = B
    C = C
    h1 = h1
    h2 = h2
    r1 = r1
    r2 = r2
    NoObj = NoObj
    NoRequest = NoRequest
    Host = {h1, h2}
    Port <- MCPort
    Account = {A, B, C}
    Obj = {o1, o2}
    NetworkMaps <- OnlyOne
    Epoch = 3
    MaxTime = 5
    DefaultMinBackoff = 1
    DefaultMaxBackoff = 2
    MinBackoffs = {}
    MaxBackoffs = {}
    ReadmitPeriods = {}
    Securities = {}
    Request = {r1, r2}
    Checked = {r1}
    UserNodes <- OneChooses
    RequestMaxAttempts = 3
    ClientMaxAttempts = 0
    RequestTimeout = 2
    GrpcDeadline = 1
    RequestMinBackoff = 1
    RequestMaxBackoff = 2
    IsLocalNode = FALSE
    LocalNodeAttempts = 4
    InitialNetwork <- TwoNodes
    MaxNodesPerTransaction <- Unlimited
INVARIANTS
    ExecInv
PROPERTIES
    NoNewSendToBackedOffNode
    ImplementsContract
    EveryExecuteSettles
CHECK_DEADLOCK FALSE
