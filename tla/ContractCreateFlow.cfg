SPECIFICATION Spec
CONSTANTS
    Call = {c1, c2, c3}
    Lengths = {1, 2, 3, 6, 7}
    FirstPart = 2
    ChunkSize = 2
    DefaultMaxChunks = 2
    MaxChunksSet = {1, 3}
    None = None
    MaxIds = 2
    MaxFiles = 3
SYMMETRY CallSymmetry
INVARIANTS
    FlowInv
    FileIsKeptForContract
    ResolvedCallsCleanUp
CHECK_DEADLOCK FALSE
