CONSTANTS
  a1 = a1
  a2 = a2
  MaxSessions = 4
  Slots <- TwoSlots
  None = None
  MaxPackets = 2
  TransientErrors = TRUE
SPECIFICATION Spec
SYMMETRY SlotSymmetry
INVARIANTS TypeOK FreedByRefusedSendOnly ListedWhileConnected ReleasesWhatItHas EveryoneIsAccepted
CHECK_DEADLOCK FALSE
