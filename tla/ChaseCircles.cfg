CONSTANTS
  Width = 6
  Height = 6
  MaxDepth = 10
  MapFile <- MazeFile
  MonsterCell <- Below
  PlayerCell <- Beyond
SPECIFICATION FairChaseSpec
PROPERTIES TargetIsReached
CHECK_DEADLOCK FALSE
