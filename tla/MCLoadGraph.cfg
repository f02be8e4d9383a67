SPECIFICATION MCSpec
CONSTANTS
    drv = drv  out = out  lib = lib
    Node = {drv, out, lib}
    NoDeriver = NoDeriver
    MaxCommits = 1
    Listed <- MCListed
INVARIANTS WalkIsClosure AliveAsNixKeeps
PROPERTY LoadReturns
