SPECIFICATION FairSpec
CONSTANTS
    a = a
    b = b
    c = c
    a1 = a1
    a2 = a2
    b1 = b1
    b2 = b2
    c1 = c1
    Path = {a, b, c}
    File = {a1, a2, b1, b2, c1}
    FilesOf <- MCFilesOf
    NoPath = NoPath
    NoFile = NoFile
    Jobs = 2
    Slots = 1
CHECK_DEADLOCK FALSE
INVARIANTS
    WorkedPathsKept
    NothingLeftOut
    ListsBounded
PROPERTIES
    RunEnds
