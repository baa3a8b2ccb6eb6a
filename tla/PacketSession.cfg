CONSTANTS
  BufferSize = 3
  BufferCount = 3
  HeaderSize = 2
  MaxPacketSize = 3
  MaxPackets = 5
  TransientErrors = TRUE
SPECIFICATION FairSpec
INVARIANTS TypeOK BufferHoldsStream RoomToReceive CopyIsDisjoint HeaderIsAligned EndsForAReason
PROPERTIES ChannelSpec PacketsArrive
CHECK_DEADLOCK FALSE
