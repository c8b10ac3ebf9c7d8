CONSTANTS
    p = p
    q = q
    r = r
    NoThread = NoThread
    Threads <- MCThreads
    Capacity = 4
SPECIFICATION Spec
PROPERTY FifoUntilTorn
CONSTRAINT Untorn
