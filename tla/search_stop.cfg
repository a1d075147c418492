CONSTANTS
    Dimensions = 2
    MaxChildren = 2
    MinChildren = 1
    MaxArea = 100
    Boxes <- MCBoxes
    Targets <- MCTargets
    MaxInserts = 3
SPECIFICATION FairSearchSpec
INVARIANT StopsWhenTold
