-------------------------------- MODULE Chase --------------------------------
(***************************************************************************)
(* A monster that follows a player who stays where it is: Monster::        *)
(* UpdateIdle calls FindPath and takes the first step of the path, and     *)
(* after UpdateMove calls FindPath again from the new cell, until it stands*)
(* next to the player.  Nobody else is in the room.                        *)
(***************************************************************************)
EXTENDS FindPath, Tilemap

CONSTANTS
  MapFile,     (* the digits of the map, after its size                    *)
  MonsterCell, (* where the monster starts                                 *)
  PlayerCell   (* where the player stands                                  *)

(* CanGo: the tile can be entered and no object is there.                  *)
CanGo(cells) ==
  LET tiles == LoadFile(MapFile, <<Width, Height>>)
  IN  {c \in Cells : TileIsWalkable(tiles, c)} \ cells

ChaseInit ==
  /\ {MonsterCell, PlayerCell} \subseteq CanGo({})
  /\ MonsterCell # PlayerCell
  /\ Start(CanGo({MonsterCell, PlayerCell}), MonsterCell, PlayerCell)

(* path[1]: the last cell before the monster's own, coming from the end.   *)
NextPos == {c \in DOMAIN parent \ {src} : parent[c] = src /\ \E n \in DOMAIN Back : Back[n] = c}

(* The monster is IDLE again: it has a path, is not next to the player, and*)
(* goes on to the next cell, where it searches again.                      *)
Follow ==
  /\ Done
  /\ Dist(src, goal) # 1
  /\ \E c \in NextPos \cap walkable :
       /\ walkable' = CanGo({c, goal})
       /\ src' = c
       /\ dest' = goal
       /\ pq' = {c}
       /\ best' = [x \in {c} |-> Dist(goal, c)]
       /\ parent' = [x \in {c} |-> c]
       /\ phase' = IF Dist(c, goal) >= MaxDepth THEN "refused" ELSE "search"
  /\ UNCHANGED goal

ChaseNext == Next \/ Follow

(* Server.cpp updates the room for ever, and every delay passes.           *)
FairChaseSpec == ChaseInit /\ [][ChaseNext]_vars /\ WF_vars(ChaseNext)

-----------------------------------------------------------------------------
(* What the README says of the monster, and the code does not do.          *)

(* README.md:27, the monster pursues the nearest player: a player within   *)
(* its range to whom a way leads, and who stays where it is, is reached.   *)
TargetIsReached == <>(Dist(src, goal) = 1)
=============================================================================
