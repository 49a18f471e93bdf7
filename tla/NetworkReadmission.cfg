SPECIFICATION LiveSpec
CONSTANTS
    A = A
    B = B
    h1 = h1
    h2 = h2
    Account = {A, B}
    Host = {h1, h2}
    Port <- MCPort
    Obj = {o1, o2}
    NetworkMaps <- OneAndTwo
    Epoch = 3
    MaxTime = 6
    DefaultMinBackoff = 1
    DefaultMaxBackoff = 2
    MinBackoffs = {2}
    MaxBackoffs = {2}
    ReadmitPeriods = {2}
    Securities = {}
    MaxNodesPerTransaction <- Unlimited
PROPERTIES
    EveryNodeIsReadmitted
CHECK_DEADLOCK FALSE
