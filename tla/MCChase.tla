------------------------------- MODULE MCChase -------------------------------
(* A map of 6 by 6 tiles in the format of Tilemap_01.txt.  The player at   *)
(* <<0, 2>> is 5 cells from the monster at <<2, 5>>, which has to go round *)
(* by the right and the top.  MaxDepth is that of the code.                *)
EXTENDS Chase

MazeFile ==
  <<0, 0, 0, 0, 0, 0,
    0, 1, 1, 1, 0, 0,
    0, 1, 1, 0, 1, 0,
    0, 1, 1, 1, 0, 0,
    1, 0, 0, 1, 1, 0,
    1, 1, 0, 0, 0, 0>>

Below  == <<2, 5>>
Beyond == <<0, 2>>
=============================================================================
