------------------------------- MODULE Tilemap -------------------------------
(***************************************************************************)
(* The map of the room, as Tilemap::LoadFile reads it from a text file:    *)
(* the sizes, then one digit a tile, row after row, all other characters   *)
(* being skipped; a file of the newer format has a second digit for every  *)
(* tile after them, which says whether the tile can be entered.            *)
(***************************************************************************)
EXTENDS Integers, Sequences

(* A tile of a map of the given size; rawValues[0] is the first digit.     *)
LoadTile(rawValues, size, pos) ==
  LET totalTiles == size[1] * size[2]
      index == pos[2] * size[1] + pos[1]
      Has(i) == i < Len(rawValues)
      Raw(i) == rawValues[i + 1]
      value == IF Has(index) THEN Raw(index) ELSE 0
  IN  [value |-> value,
       walkable |-> IF Has(totalTiles + index) THEN Raw(totalTiles + index) # 0
                    ELSE value = 0]

LoadFile(rawValues, size) ==
  [pos \in (0 .. size[1] - 1) \X (0 .. size[2] - 1) |-> LoadTile(rawValues, size, pos)]

(* GetTileAt finds a tile at pos, and it can be entered.                   *)
TileIsWalkable(tiles, pos) == pos \in DOMAIN tiles /\ tiles[pos].walkable
=============================================================================
