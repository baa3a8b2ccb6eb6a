---------------------------- MODULE MCSessionLife ----------------------------
(* Small instances of SessionLife: accept events are interchangeable.      *)
EXTENDS SessionLife, TLC

CONSTANTS a1, a2

OneSlot  == {a1}
TwoSlots == {a1, a2}

SlotSymmetry == Permutations(Slots)
=============================================================================
