SPECIFICATION Spec
CONSTANTS
    N = 3
    MaxMult = 2
    Top = 3
    ChunkSize = {0, 2}
    MaxFreed = {1, 3}
    Size <- MCSize
INVARIANTS TypeOK ReferrersFirst BudgetKept ChunkNeverEmpty
PROPERTY SweepSpec
