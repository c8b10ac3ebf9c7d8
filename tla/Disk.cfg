SPECIFICATION FairSpec
CONSTANTS
    Boards <- MCBoards
    Requests = {0, 3}
    Counts = {1, 2}
    Words = 2
    MaxTrys = 1
    LbaMod = 4
    Identity = Identity
    Junk = Junk
CHECK_DEADLOCK FALSE
INVARIANT TypeOK
INVARIANT RightSector
INVARIANT DevicesReal
PROPERTY ReadsReturn
