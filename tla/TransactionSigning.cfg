SPECIFICATION Spec
CONSTANTS
    n1 = n1
    n2 = n2
    k1 = k1
    k2 = k2
    NoSigner = NoSigner
    NoNode = NoNode
    Nodes <- TwoNodes
    Key = {k1, k2}
    Operator = k1
    MaxId = 2
    MaxCalls = 4
INVARIANTS
    SigningInv
    SentRequestIsForItsNode
    SignaturesAreByTheirKeys
    GivenOutForEveryNode
CHECK_DEADLOCK FALSE
