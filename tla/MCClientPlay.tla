----------------------------- MODULE MCClientPlay -----------------------------
(* Small instances of ClientPlay: a corridor of three cells.               *)
EXTENDS ClientPlay

CONSTANTS s1, s2

OneSession  == {s1}
TwoSessions == {s1, s2}

Corridor == {<<0, 0>>, <<1, 0>>, <<2, 0>>}
Entry    == <<0, 0>>
FarEnd   == <<2, 0>>
=============================================================================
