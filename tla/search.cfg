CONSTANTS
    Dimensions = 2
    MaxChildren = 3
    MinChildren = 1
    MaxArea = 100
    Boxes <- MCBoxes
    Targets <- MCTargets
    MaxInserts = 6
SPECIFICATION FairSearchSpec
INVARIANTS MissesExplained CallsBounded
PROPERTIES ImplementsStore SearchReturns
