CONSTANTS
  Width = 3
  Height = 3
  MaxDepth = 4
SPECIFICATION FairSpec
INVARIANTS TypeOK PathIsWalkable EndsAsCloseAsPossible
PROPERTIES SearchEnds
CHECK_DEADLOCK FALSE
