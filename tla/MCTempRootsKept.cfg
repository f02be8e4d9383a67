SPECIFICATION Spec
CONSTANTS
    Pid = {p1}
    Path = {r1, r2}
    Inode = {i1, i2}
    NoInode = NoInode
    NoPid = NoPid
    Gc = Gc
    MaxRuns = 2
INVARIANT AddedRootsKept
