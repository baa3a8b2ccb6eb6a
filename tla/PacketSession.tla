---------------------------- MODULE PacketSession ----------------------------
(***************************************************************************)
(* The receive side of one session: RegisterRecv, ProcessRecv and          *)
(* HandleError of ServerCore/Session.cpp, the framing loop of              *)
(* PacketSession::OnRecv, the receive buffer under them, and the TCP       *)
(* stream of a peer that sends well-formed packets.                        *)
(*                                                                         *)
(* At most one WSARecv is outstanding per session, and only its completion *)
(* posts the next one, so the steps of one session are sequential; what    *)
(* runs beside them is the peer, the kernel and another thread (or another *)
(* handler of the same thread) that disconnects the session.               *)
(***************************************************************************)
EXTENDS RecvBuffer, Sequences

CONSTANTS
  HeaderSize,      (* sizeof(PacketHeader)                                 *)
  MaxPacketSize,   (* the largest value of PacketHeader::size              *)
  MaxPackets,      (* bound: how many packets the peer sends               *)
  TransientErrors  (* may WSARecv fail with an error that is no reset      *)

ASSUME PacketSessionAssumption ==
  /\ HeaderSize \in Nat \ {0}
  /\ MaxPacketSize \in Nat
  /\ HeaderSize <= MaxPacketSize
  /\ MaxPacketSize <= BufferSize
  /\ MaxPackets \in Nat
  /\ TransientErrors \in BOOLEAN

VARIABLES
  sent,        (* the packets of the peer: position in the stream and size *)
  peer,        (* "open", "closed" (FIN after its last byte) or "reset"    *)
  arrived,     (* how many bytes of the stream the kernel has handed over  *)
  connected,   (* Session::_connected                                      *)
  cause,       (* who cleared it: "none", "recv0", "overflow", "error",    *)
               (* or "elsewhere" (send side, another handler)              *)
  pc,          (* where the receive path is                                *)
  processLen,  (* the local of OnRecv and ProcessRecv                      *)
  delivered    (* what OnRecvPacket was called with                        *)

vars == <<bufferVars, sent, peer, arrived, connected, cause, pc, processLen, delivered>>

Packet == [pos : Nat, size : HeaderSize .. MaxPacketSize]

PcValues == {"posted",    (* a WSARecv is outstanding                      *)
             "framing",   (* in the loop of OnRecv                         *)
             "cleaning",  (* after OnRead, before Clean and RegisterRecv   *)
             "idle"}      (* no WSARecv outstanding, none will be posted   *)

(* The length of the stream: where the next packet of the peer starts.     *)
StreamEnd == IF sent = <<>> THEN 0 ELSE sent[Len(sent)].pos + sent[Len(sent)].size

(* Where the next packet to deliver starts.                                *)
NextPos ==
  IF Len(delivered) < Len(sent) THEN sent[Len(delivered) + 1].pos ELSE StreamEnd

(* The bytes of a packet as they stand in the stream.                      *)
Payload(packet) == [i \in 0 .. (packet.size - 1) |-> packet.pos + i]

(* PacketHeader::size as read at a byte of the stream: only the first byte *)
(* of a packet is a header, anything else reads as some number.            *)
SizeAt(byte) ==
  IF \E k \in DOMAIN sent : sent[k].pos = byte
  THEN sent[CHOOSE k \in DOMAIN sent : sent[k].pos = byte].size
  ELSE byte

-----------------------------------------------------------------------------
Init ==
  /\ BufferInit
  /\ sent = <<>>
  /\ peer = "open"
  /\ arrived = 0
  /\ connected = TRUE
  /\ cause = "none"
  /\ pc = "posted"
  /\ processLen = 0
  /\ delivered = <<>>

(* Session::Disconnect: only the first caller gets past the exchange.      *)
Disconnect(why) ==
  IF connected
  THEN connected' = FALSE /\ cause' = why
  ELSE UNCHANGED <<connected, cause>>

-----------------------------------------------------------------------------
(* The peer and the network.                                               *)

PeerSends(size) ==
  /\ peer = "open"
  /\ Len(sent) < MaxPackets
  /\ sent' = Append(sent, [pos |-> StreamEnd, size |-> size])
  /\ UNCHANGED <<bufferVars, peer, arrived, connected, cause, pc, processLen, delivered>>

PeerEnds(how) ==
  /\ peer = "open"
  /\ peer' = how
  /\ UNCHANGED <<bufferVars, sent, arrived, connected, cause, pc, processLen, delivered>>

(* Disconnect called from the send path or from another handler.           *)
DisconnectElsewhere ==
  /\ connected
  /\ Disconnect("elsewhere")
  /\ UNCHANGED <<bufferVars, sent, peer, arrived, pc, processLen, delivered>>

-----------------------------------------------------------------------------
(* IocpCore::Dispatch hands a completion with n > 0 bytes to ProcessRecv.  *)
(* The kernel fills at most the length RegisterRecv passed, FreeSize.      *)
RecvCompletes(n) ==
  /\ pc = "posted"
  /\ n <= StreamEnd - arrived
  /\ n <= FreeSize
  /\ Fill(arrived, n)
  /\ arrived' = arrived + n
  /\ IF CanWrite(n)
     THEN /\ OnWrite(n)
          /\ pc' = "framing"
          /\ processLen' = 0
          /\ UNCHANGED <<connected, cause>>
     ELSE /\ Disconnect("overflow")
          /\ pc' = "idle"
          /\ UNCHANGED <<readPos, writePos, processLen>>
  /\ UNCHANGED <<sent, peer, delivered>>

(* A completion with 0 bytes: the end of the stream, a failed receive      *)
(* (Dispatch passes numOfBytes = 0), or a receive posted with no room.     *)
RecvZero ==
  /\ pc = "posted"
  /\ \/ peer = "closed" /\ arrived = StreamEnd
     \/ peer = "reset"
     \/ ~connected
     \/ FreeSize = 0 /\ arrived < StreamEnd
  /\ Disconnect("recv0")
  /\ pc' = "idle"
  /\ UNCHANGED <<bufferVars, sent, peer, arrived, processLen, delivered>>

(* The two tests of the OnRecv loop, on what is left after processLen.     *)
HeaderFits == DataSize - processLen >= HeaderSize
FrameSize  == SizeAt(mem[readPos + processLen])

(* Seeded fault: wants one byte more than the packet has.                  *)
FrameFits_OffByOne == HeaderFits /\ DataSize - processLen > FrameSize

FrameFits  == HeaderFits /\ DataSize - processLen >= FrameSize

(* One turn of the loop: a whole packet is handed to OnRecvPacket.         *)

(* Seeded fault: takes PacketHeader::size for the size without the header. *)
DeliverPacket_SizeWithoutHeader ==
  /\ pc = "framing"
  /\ FrameFits
  /\ delivered' = Append(delivered,
                    [i \in 0 .. (FrameSize - 1) |-> mem[readPos + processLen + i]])
  /\ processLen' = processLen + FrameSize - HeaderSize
  /\ UNCHANGED <<bufferVars, sent, peer, arrived, connected, cause, pc>>

DeliverPacket ==
  /\ pc = "framing"
  /\ FrameFits
  /\ delivered' = Append(delivered,
                    [i \in 0 .. (FrameSize - 1) |-> mem[readPos + processLen + i]])
  /\ processLen' = processLen + FrameSize
  /\ UNCHANGED <<bufferVars, sent, peer, arrived, connected, cause, pc>>

(* The loop is left, and ProcessRecv advances the read cursor.             *)
EndFraming ==
  /\ pc = "framing"
  /\ ~FrameFits
  /\ IF CanRead(processLen)
     THEN /\ OnRead(processLen)
          /\ pc' = "cleaning"
          /\ UNCHANGED <<connected, cause>>
     ELSE /\ Disconnect("overflow")
          /\ pc' = "idle"
          /\ UNCHANGED bufferVars
  /\ processLen' = 0
  /\ UNCHANGED <<sent, peer, arrived, delivered>>

(* Clean, then RegisterRecv: not connected, posted, or refused by WSARecv. *)
(* HandleError disconnects on a reset and does nothing on other errors.    *)
CleanAndRegisterRecv ==
  /\ pc = "cleaning"
  /\ Clean
  /\ \/ ~connected /\ pc' = "idle" /\ UNCHANGED <<connected, cause>>
     \/ connected /\ pc' = "posted" /\ UNCHANGED <<connected, cause>>
     \/ connected /\ peer = "reset" /\ pc' = "idle" /\ Disconnect("error")
     \/ connected /\ TransientErrors /\ pc' = "idle" /\ UNCHANGED <<connected, cause>>
  /\ UNCHANGED <<sent, peer, arrived, processLen, delivered>>

-----------------------------------------------------------------------------
PeerStep == (\E size \in HeaderSize .. MaxPacketSize : PeerSends(size))
            \/ (\E how \in {"closed", "reset"} : PeerEnds(how))

RecvStep == (\E n \in 1 .. FreeSize : RecvCompletes(n)) \/ RecvZero

ProcessStep == DeliverPacket \/ EndFraming \/ CleanAndRegisterRecv

Next == PeerStep \/ DisconnectElsewhere \/ RecvStep \/ ProcessStep

Spec == Init /\ [][Next]_vars

(* The kernel completes a receive for which there is data or an end, and a *)
(* worker that dequeued a completion runs the handler to its end.  Nothing *)
(* obliges the peer to send, to close, or anyone to disconnect.            *)
FairSpec == Spec /\ WF_vars(RecvStep) /\ WF_vars(ProcessStep)

-----------------------------------------------------------------------------
TypeOK ==
  /\ mem \in [Slots -> Nat]
  /\ readPos \in 0 .. Capacity
  /\ writePos \in 0 .. Capacity
  /\ sent \in Seq(Packet)
  /\ peer \in {"open", "closed", "reset"}
  /\ arrived \in Nat
  /\ connected \in BOOLEAN
  /\ cause \in {"none", "recv0", "overflow", "error", "elsewhere"}
  /\ pc \in PcValues
  /\ processLen \in Nat
  /\ DOMAIN delivered = 1 .. Len(delivered)
  /\ \A k \in DOMAIN delivered :
       \E n \in 1 .. MaxPacketSize : delivered[k] \in [0 .. (n - 1) -> Nat]

(***************************************************************************)
(* Safety                                                                  *)
(***************************************************************************)

(* Between the cursors lie, in order and without a gap, the last DataSize  *)
(* bytes the kernel handed over: neither OnWrite, OnRead nor the memcpy of *)
(* Clean ever lets the buffer and the stream drift apart.                  *)
BufferHoldsStream ==
  \A i \in readPos .. (writePos - 1) : mem[i] = arrived - writePos + i

(* Every WSARecv is posted with room for BufferSize bytes, so none is      *)
(* posted with length 0, whose completion ProcessRecv would take for the   *)
(* end of the connection.                                                  *)
RoomToReceive == pc = "posted" => FreeSize >= BufferSize

(* When Clean copies, the source and the destination do not overlap, as    *)
(* memcpy requires.                                                        *)
CopyIsDisjoint == pc = "cleaning" /\ MustCompact => DataSize <= readPos

(* OnRecv reads PacketHeader::size only where a packet starts.             *)
HeaderIsAligned ==
  pc = "framing" /\ HeaderFits =>
    \E k \in DOMAIN sent : sent[k].pos = mem[readPos + processLen]

(* The receive path ends a connection only when the peer did: cursor       *)
(* arithmetic never reports an overflow, and a peer that closed after its  *)
(* last byte has had every one of its packets delivered.                   *)
EndsForAReason ==
  /\ cause # "overflow"
  /\ cause = "recv0" => peer # "open"
  /\ cause = "recv0" /\ peer = "closed" => Len(delivered) = Len(sent)

(* A connected session has a receive outstanding or is processing one.     *)
StaysListening == connected => pc # "idle"

-----------------------------------------------------------------------------
(* The session implements the channel of whole packets.                    *)
Channel == INSTANCE PacketChannel WITH
             sentPackets <- [k \in DOMAIN sent |-> Payload(sent[k])],
             received    <- delivered

ChannelSpec == Channel!Spec

(* HandleError only logs an error that is no reset: the session is deaf,   *)
(* connected with no receive posted, from then on.                         *)
Deaf == connected /\ pc = "idle"

(* Every packet of the peer reaches OnRecvPacket, or the session ends or   *)
(* has gone deaf.                                                          *)
PacketsArrive ==
  \A k \in 1 .. MaxPackets :
    (Len(sent) >= k) ~> (Len(delivered) >= k \/ ~connected \/ Deaf)
=============================================================================
