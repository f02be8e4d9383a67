SPECIFICATION FairSpec
CONSTANTS
    Pid = {p1}
    Path = {r1, r2}
    Inode = {i1, i2}
    NoInode = NoInode
    NoPid = NoPid
    Gc = Gc
    MaxRuns = 3
INVARIANTS CreatedFileUnmarked ListedRootsFound
PROPERTY AddReturns
