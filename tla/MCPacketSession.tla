--------------------------- MODULE MCPacketSession ---------------------------
(* Small instances of PacketSession: a buffer of 3 times 3 bytes, headers  *)
(* of 2 bytes and packets of 2 or 3, so that packets are split at every    *)
(* offset and the cursors reach the end of the buffer more than once.      *)
EXTENDS PacketSession
=============================================================================
