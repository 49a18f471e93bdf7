SPECIFICATION Spec
CONSTANTS
    n1 = n1
    n2 = n2
    a = a
    b = b
    c1 = c1
    c2 = c2
    c3 = c3
    c4 = c4
    g1 = g1
    g2 = g2
    g3 = g3
    k1 = k1
    k2 = k2
    None = None
    Node = {n1, n2}
    Address = {a, b}
    Secure = {b}
    Channel = {c1, c2, c3, c4}
    Grpc = {g1, g2, g3}
    Call = {k1, k2}
SYMMETRY Symmetry
INVARIANTS
    CacheInv
    OpenClientsHaveOwners
PROPERTIES
    RequestsLeaveByOpenClients
CHECK_DEADLOCK FALSE
