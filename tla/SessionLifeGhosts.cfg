CONSTANTS
  a1 = a1
  a2 = a2
  MaxSessions = 3
  Slots <- OneSlot
  None = None
  MaxPackets = 1
  TransientErrors = FALSE
SPECIFICATION Spec
INVARIANTS NoGhosts
CHECK_DEADLOCK FALSE
