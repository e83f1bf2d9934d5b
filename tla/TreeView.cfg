SPECIFICATION Spec
CONSTANTS
  Shape <- MCShape
  Kind <- MCKind
  Letters <- MCLetters
  Ranked <- MCRanked
  Passing <- MCPassing
  SortKeys <- MCSortKeys
  Facet <- MCFacet
  Sizes <- MCSizes
  Body <- MCBody
  WheelStep = 3
  Jumps <- MCJumps
  None = None
  MaxQuery = 1
  MaxBurst = 2
INVARIANTS
  TypeOK
  SelectionIsARow
  RowsAreCurrent
  SelectionIsOnScreen
PROPERTIES
  ArrowsFollowTheTree
  RevealLands
