CONSTANTS
    p = p
    q = q
    heap = heap
    Threads <- MCThreads
    Scrubber = heap
    Sizes = {1, 2}
    HeapBegin = 1
    HeapEnd = 13
    Header = 2
    Gap = 1
SPECIFICATION FairSpec
INVARIANTS TypeOK ChainSound LoansBacked ScrubsFreeBlocks
PROPERTIES ImplementsAllocator MallocAnswers
VIEW Chain
CHECK_DEADLOCK FALSE
