SPECIFICATION Spec
CONSTANTS
    Unedited = Unedited
    Chunks = {c1, c2}
    Observations = {1, 2, 3}
    Times = {1, 2}
    Pages <- MCPages
SYMMETRY ChunkSymmetry
INVARIANTS
    TypeOK
    ChunkIsBestKnown
    MergeIsBestKnown
CHECK_DEADLOCK FALSE
