CONSTANTS
    idle = idle
    manager = manager
    a = a
    Threads <- ThreeThreads
    Idle = idle
    Manager = manager
    Medium = 0
    Realtime = 1
    SleepTimes = {2}
    WordMod = 8
SPECIFICATION FairSpec
PROPERTIES NoStarvation SleepersRun
CONSTRAINT CorpsesOnProcessor
