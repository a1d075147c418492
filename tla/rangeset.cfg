CONSTANTS
    Objects = {1, 2}
    Universe <- MCUniverse
SPECIFICATION FairSpec
INVARIANTS Canonical EqualIffSame QueriesExact DifferenceInLoop
PROPERTIES ImplementsSets OperationEnds
