CONSTANTS
  t1 = t1
  t2 = t2
  t3 = t3
  Threads <- ThreeThreads
  MaxSends = 5
  TransientErrors = FALSE
SPECIFICATION FairSpec
INVARIANTS TypeOK SingleSender NoLostWakeup
PROPERTIES BuffersStayPosted StreamSpec EverythingLeaves
CHECK_DEADLOCK FALSE
