SPECIFICATION Spec
CONSTANTS
  Grammars <- OrdersOnly
  Lists <- MCLists
  Texts <- NoTexts
  EPSILON = "epsilon"
  END = "$"
  ID = "#ID"
  NAME = "x"
  UNKNOWN = "unknown"
  Letter <- MCLetter
  UNDERSCORE = "_"
  Space <- MCSpace
  STRING_SYMBOL <- MCStringSymbol
  TOKENSYMBOL <- MCTOKENSYMBOL
  Capacity = 3
  MaxTokens = 4
INVARIANT HandlersSeeSourceOrder
CHECK_DEADLOCK FALSE
