SPECIFICATION Spec
CONSTANTS
    n1 = n1
    n2 = n2
    Nodes <- TwoNodes
    Lengths = {1, 3, 5}
    ChunkSize = 2
    MaxChunks = 2
    MaxAttempts = 2
    MaxCalls = 3
INVARIANTS
    ChunkInv
    FileIsPrefixOfContents
    ChunksAreAppliedOnce
    ResolvedMeansSubmitted
CHECK_DEADLOCK FALSE
