CONSTANTS
    Dimensions = 1
    MaxChildren = 4
    MinChildren = 3
    MaxArea = 100
    Splittable <- MCSplittableLine
SPECIFICATION FairSpec
INVARIANT MinimumReached
