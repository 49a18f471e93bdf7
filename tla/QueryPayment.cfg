SPECIFICATION Spec
CONSTANTS
    n1 = n1
    n2 = n2
    c1 = c1
    c2 = c2
    None = None
    Nodes <- TwoNodes
    Call = {c1, c2}
    Costs = {9, 10, 30}
    Limits = {10, 20}
    Amounts = {3}
    Width = 5
    MaxAttempts = 2
    MaxSets = 1
SYMMETRY CallSymmetry
INVARIANTS
    PaymentInv
    SmallPaymentsWithinMaximum
    SettlesWithFinalReceipt
CHECK_DEADLOCK FALSE
