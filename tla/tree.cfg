CONSTANTS
    Dimensions = 2
    MaxChildren = 2
    MinChildren = 1
    MaxArea = 7
    Boxes <- MCBoxes
    MaxInserts = 6
SPECIFICATION FairDestroySpec
INVARIANTS TypeOK HeightsStep Occupancy NodesLinkedOnce BoxesExact EntriesKept IndexInBounds FreedUnlessStale LowTreesFreed
PROPERTIES InsertReturns DestroyEnds
