CONSTANTS
    Dimensions = 2
    MaxChildren = 2
    MinChildren = 1
    MaxArea = 100
    Boxes <- MCBoxes
    MaxInserts = 6
SPECIFICATION FairDestroySpec
INVARIANT DeletesEachNodeOnce
