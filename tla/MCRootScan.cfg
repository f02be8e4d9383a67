SPECIFICATION MCSpec
CONSTANTS
    d1 = d1  d2 = d2  s1 = s1  a1 = a1  a2 = a2  exe = exe
    known = known  other = other  odd = odd  gone = gone
    Deleter = {d1, d2}
    Switcher = {s1}
    Mode <- MCMode
    MaxGen = 3
    Inode = {i1, i2, i3}
    NoInode = NoInode  NoProc = NoProc  NoGen = NoGen
    AutoLink = {a1}
    Profile = Profile
    Path = {known, other, odd, gone}
    Known = {known, other}
    OnDisk = {known, other, odd}
    GenPath <- MCGenPath
    Slot = {exe}
    Resolved = {exe}
    Aliased = TRUE
    Absent = Absent  Plain = Plain  NoEntry = NoEntry  NoRoot = NoRoot
INVARIANTS OneHolder CurrentKept SteadyRootsFound
PROPERTIES RollbackTargetKept AcquireReturns
