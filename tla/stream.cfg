CONSTANTS
    Files <- MCFiles
    Samples <- MCSamples
    WORD = 65536
    MaxArgument = 2
SPECIFICATION Spec
INVARIANT DecodesUtf8
PROPERTY ImplementsTape
