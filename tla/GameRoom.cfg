CONSTANTS
  s1 = s1
  s2 = s2
  Sessions <- TwoSessions
  TheMonster = TheMonster
  NoPlayer = NoPlayer
  Walkable <- Corridor
  SpawnCell <- Entry
  MonsterCell <- NextDoor
  PlayerHp = 2
  MonsterHp = 15
  MaxDepth = 3
  Attacks = {12, 15}
  MaxMoves = 2
SPECIFICATION FairSpec
INVARIANTS TypeOK Replicated
PROPERTIES EveryWoundIsABlow CorneredIsHit
CHECK_DEADLOCK FALSE
