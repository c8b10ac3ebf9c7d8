CONSTANTS
    a = a
    b = b
    c = c
    nobody = nobody
    Nobody = nobody
    stale = stale
    Stale = stale
    Threads <- ThreeThreads
    Mutexes = {0}
SPECIFICATION FairSpec
INVARIANTS TypeOK RecordsSound OwnersSound
PROPERTIES ImplementsLifecycle CorpsesFreed
CONSTRAINT TwoAtMutexes
