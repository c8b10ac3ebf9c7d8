CONSTANTS
    a = a
    b = b
    c = c
    nobody = nobody
    Nobody = nobody
    stale = stale
    Stale = stale
    Threads <- TwoThreads
    Mutexes = {0}
SPECIFICATION Spec
INVARIANT FreedBlocksNobody
CONSTRAINT KilledByOthers
