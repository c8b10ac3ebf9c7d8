CONSTANTS
    Disks <- MCDisks
    Names <- Pieces
    Args <- MCArgs
    MaxPath = 4
    WordSize = 64
    PerSector = 3
    Sector = 4
    SectorsPerCluster = 1
SPECIFICATION Spec
INVARIANTS LookupRight ReadsWhole
PROPERTY OnlyLongCdLeavesTree
