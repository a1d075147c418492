SPECIFICATION FairSpec
CONSTANTS
  Grammars <- MCGrammars
  Lists <- MCLists
  Texts <- MCTexts
  EPSILON = "epsilon"
  END = "$"
  ID = "#ID"
  NAME = "x"
  UNKNOWN = "unknown"
  Letter <- MCLetter
  UNDERSCORE = "_"
  Space <- MCSpace
  STRING_SYMBOL <- MCStringSymbol
  TOKENSYMBOL <- MCTOKENSYMBOL
  Capacity = 3
  MaxTokens = 6
INVARIANTS FirstsExact FollowsReachTopDown SpacedListsExact TokensSuffice AcceptsOnlySentences RejectsNoSentence StackIsPath LeavesInOrder
PROPERTIES BuildEnds ParseEnds
CHECK_DEADLOCK FALSE
