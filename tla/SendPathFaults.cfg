CONSTANTS
  t1 = t1
  t2 = t2
  t3 = t3
  Threads <- ThreeThreads
  MaxSends = 5
  TransientErrors = TRUE
SPECIFICATION Spec
SYMMETRY ThreadSymmetry
INVARIANTS SingleSender NeverReordered
PROPERTIES OnlyTheRefusedAreLost
CHECK_DEADLOCK FALSE
