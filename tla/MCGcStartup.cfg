SPECIFICATION Spec
CONSTANTS
    lib = lib  new = new  newlock = newlock
    b1 = b1  b2 = b2
    NoPath = NoPath
    Path <- MCPath
    Refs <- MCRefs
    GcRoot = {}
    Builder = {b1, b2}
    Goal <- MCGoal
    LockOf <- MCLockOf
INVARIANTS TypeOK HeldRootsCovered ListedLocksKept WaitsForServer
