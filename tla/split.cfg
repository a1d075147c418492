CONSTANTS
    Dimensions = 2
    MaxChildren = 4
    MinChildren = 2
    MaxArea = 8
    Splittable <- MCSplittablePlane
SPECIFICATION FairSpec
INVARIANTS TypeOK SplitBalanced CountsMatch GroupBoxExact ChoicesMatchScans AbortsOnlyWithoutSpread
PROPERTIES SplitEnds
