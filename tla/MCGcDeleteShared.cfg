SPECIFICATION Spec
CONSTANTS
    app = app  lib = lib  drv = drv  out = out  new = new  tmp = tmp
    b1 = b1  b2 = b2
    NoPath = NoPath
    Path <- SharedPath
    Node <- SharedNode
    Edge <- SharedEdge
    Refs <- SharedRefs
    Goal <- SharedGoal
    Client = {b1, b2}
    TmpDir = {}
    MaxChunk = 2
    HasBudget = FALSE
INVARIANTS TypeOK NoDanglingRows RefsClosed UsesIntact BuildKept SleepersHaveCause PruneIsIdle
PROPERTY AckedNeverUnlinked
