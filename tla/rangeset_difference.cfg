CONSTANTS
    Objects = {1, 2}
    Universe <- MCCharacters
SPECIFICATION FairSpec
PROPERTY DifferenceExact
