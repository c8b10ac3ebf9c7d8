CONSTANTS
    scanf_mutex = scanf_mutex
    malloc_mutex = malloc_mutex
    p = p
    q = q
    r = r
    none = none
    Threads <- MCThreads
    Mutexes <- MCMutexes
    Rank <- MCRank
    Base <- MCBase
    Realtime = 2
    NoThread = none
    Short <- MCShort
SPECIFICATION FairSpec
INVARIANTS TypeOK MutualExclusion LockerSound PriorityNotLeaked
PROPERTIES ImplementsFifoLock WaitersEnter
CHECK_DEADLOCK FALSE
