CONSTANTS
    Dimensions = 1
    MaxChildren = 4
    MinChildren = 2
    MaxArea = 100
    Splittable <- MCSplittableLine
SPECIFICATION FairSpec
INVARIANT SeedsDiffer
