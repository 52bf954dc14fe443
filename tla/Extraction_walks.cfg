SPECIFICATION Spec
CONSTANTS
  DefaultBlockSize = 48
  MaxBlocks = 3
  MaxFailures = 1
  MaxScopes = 3
  InitCap = 1
  ItemSize = 12
  TextSize = 5
  None = None
  MCNodes = 4
  Grammar <- MCGrammar
  Files <- MCFiles
INVARIANTS
  RegionsDisjoint
  NoStaleParse
  ItemsSurvive
  AttributedToNearest
  CallersAreDefined
  ResultIsOfTheTree
