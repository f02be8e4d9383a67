SPECIFICATION MCSpec
CONSTANTS
    f1 = f1
    f2 = f2
    f3 = f3
    d = d
    root = root
    i1 = i1
    i2 = i2
    i3 = i3
    spare = spare
    torn = torn
    bad = bad
    same = same
    short = short
    wrong = wrong
    File <- MCFile
    Dir = {d}
    Root = root
    ParentOf <- MCParentOf
    Inode <- MCInode
    Content = {same, short, wrong}
    ContentOf <- MCContentOf
    SizeOf <- MCSizeOf
    NoInode = NoInode
    NoFile = NoFile
    MaxRuns = 2
    MaxCleans = 1
INVARIANTS
    Deduped
    DirSealed
PROPERTIES
    ContentKept
SYMMETRY Siblings
CONSTRAINT MCBound
