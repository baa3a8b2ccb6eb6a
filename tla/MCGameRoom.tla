------------------------------ MODULE MCGameRoom ------------------------------
(* Small instances of GameRoom: two sessions on a small map.   *)
EXTENDS GameRoom

CONSTANTS s1, s2

TwoSessions == {s1, s2}

(* A corridor of four cells with a branch in the middle.                   *)
Corridor == {<<0, 0>>, <<1, 0>>, <<2, 0>>, <<3, 0>>, <<1, 1>>}
Entry    == <<0, 0>>
FarEnd   == <<3, 0>>
NextDoor == <<2, 0>>
=============================================================================
