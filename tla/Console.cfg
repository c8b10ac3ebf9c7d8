CONSTANTS
    Slots = 2
    TabCounts = {2}
    MaxKeys = 4
    WordMod = 8
SPECIFICATION FairSpec
INVARIANTS TypeOK KeysInOrder StoreReachesReader
PROPERTIES EnterEndsLine
CHECK_DEADLOCK FALSE
