CONSTANTS
  s1 = s1
  s2 = s2
  Sessions <- TwoSessions
  TheMonster = TheMonster
  NoPlayer = NoPlayer
  Walkable <- Corridor
  SpawnCell <- Entry
  MonsterCell <- FarEnd
  PlayerHp = 1
  MonsterHp = 25
  MaxDepth = 3
  Attacks = {12, 15}
  MaxMoves = 3
  Watched <- OneSession
  OtherMoves = 1
  Keys = {"right"}
  MaxPending = 1
SPECIFICATION FairPlaySpec
INVARIANTS PlayTypeOK OwnPlayerInStep CopiesAgree
PROPERTIES RoomSpec ComesIntoStep

CHECK_DEADLOCK FALSE
