SPECIFICATION CycleSpec
CONSTANTS
    app = app  lib = lib  drv = drv  out = out  new = new  tmp = tmp
    b1 = b1  b2 = b2
    NoPath = NoPath
    Path <- CyclePath
    Node <- CycleNode
    Edge <- CycleEdge
    Refs <- CycleRefs
    Goal <- CycleGoal
    Client = {b1, b2}
    TmpDir = {tmp}
    MaxChunk = 1
    HasBudget = TRUE
INVARIANTS RefsClosed CollectsAll HeldTmpDirKept
PROPERTIES RequestsAnswered GcEnds
