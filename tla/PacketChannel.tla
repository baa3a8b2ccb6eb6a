---------------------------- MODULE PacketChannel ----------------------------
(***************************************************************************)
(* What a PacketSession promises the code above it, whatever TCP does to   *)
(* the byte stream: OnRecvPacket is called with the packets of the peer,   *)
(* each one whole, in the order they were sent, and none twice.            *)
(***************************************************************************)
EXTENDS Integers, Sequences

VARIABLES
  sentPackets,   (* the packets the peer sent, in order                    *)
  received       (* the packets OnRecvPacket was called with, in order     *)

vars == <<sentPackets, received>>

Init == sentPackets = <<>> /\ received = <<>>

Send ==
  /\ Len(sentPackets') = Len(sentPackets) + 1
  /\ \A i \in 1 .. Len(sentPackets) : sentPackets'[i] = sentPackets[i]
  /\ UNCHANGED received

Deliver ==
  /\ Len(received) < Len(sentPackets)
  /\ received' = Append(received, sentPackets[Len(received) + 1])
  /\ UNCHANGED sentPackets

Next == Send \/ Deliver

Spec == Init /\ [][Next]_vars
=============================================================================
