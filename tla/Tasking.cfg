CONSTANTS
    idle = idle
    manager = manager
    a = a
    Threads <- ThreeThreads
    Idle = idle
    Manager = manager
    Medium = 0
    Realtime = 1
    SleepTimes = {2}
    WordMod = 16
SPECIFICATION Spec
INVARIANTS TypeOK ListsAgree AgeBound ElectionIsTheLoop
PROPERTY CorpseStaysDown
VIEW LiveData
