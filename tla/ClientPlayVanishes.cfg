CONSTANTS
  s1 = s1
  s2 = s2
  Sessions <- OneSession
  TheMonster = TheMonster
  NoPlayer = NoPlayer
  Walkable <- Corridor
  SpawnCell <- Entry
  MonsterCell <- FarEnd
  PlayerHp = 9
  MonsterHp = 25
  MaxDepth = 3
  Attacks = {15}
  MaxMoves = 3
  Watched <- OneSession
  OtherMoves = 0
  Keys = {"right"}
  MaxPending = 1
SPECIFICATION PlaySpec
INVARIANTS ShowsTheRoom
CHECK_DEADLOCK FALSE
