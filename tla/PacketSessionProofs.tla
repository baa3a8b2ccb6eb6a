------------------------- MODULE PacketSessionProofs -------------------------
(***************************************************************************)
(* Proofs about PacketSession, for any buffer size, any buffer count of at *)
(* least three and any packet sizes up to the buffer size.                 *)
(***************************************************************************)
EXTENDS PacketSession, SequenceTheorems, TLAPS

USE RecvBufferAssumption, PacketSessionAssumption

LEMMA CapacityFact == Capacity \in Nat /\ Capacity >= 3 * BufferSize
<1>1. BufferSize * BufferCount \in Nat
  OBVIOUS
<1>2. BufferSize * (BufferCount - 3) >= 0
  OBVIOUS
<1>3. BufferSize * BufferCount = BufferSize * (BufferCount - 3) + 3 * BufferSize
  OBVIOUS
<1> QED
  BY <1>1, <1>2, <1>3 DEF Capacity

(***************************************************************************)
(* The inductive invariant, one conjunct per concern.                      *)
(***************************************************************************)

(* The packets of the peer lie end to end in the stream.                   *)
SentInv ==
  /\ sent \in Seq(Packet)
  /\ \A k \in 1 .. Len(sent) : sent[k].pos + sent[k].size <= StreamEnd
  /\ \A j, k \in 1 .. Len(sent) : j < k => sent[j].pos + sent[j].size <= sent[k].pos
  /\ \A k \in 1 .. (Len(sent) - 1) : sent[k + 1].pos = sent[k].pos + sent[k].size
  /\ Len(sent) > 0 => sent[1].pos = 0

(* The cursors are in order, and the buffer holds what lies between them.  *)
BufferInv ==
  /\ mem \in [Slots -> Nat]
  /\ readPos \in Nat /\ writePos \in Nat
  /\ readPos <= writePos /\ writePos <= Capacity
  /\ arrived \in Nat /\ arrived <= StreamEnd
  /\ DataSize <= arrived
  /\ BufferHoldsStream

(* What was delivered is a prefix of what was sent, and the framing loop   *)
(* stands at the start of the next packet.                                 *)
FrameInv ==
  /\ Len(delivered) \in Nat
  /\ delivered = [k \in 1 .. Len(delivered) |-> Payload(sent[k])]
  /\ Len(delivered) <= Len(sent)
  /\ processLen \in Nat /\ processLen <= DataSize
  /\ pc # "framing" => processLen = 0
  /\ arrived - DataSize + processLen = NextPos

(* Outside the loop, what remains in the buffer is less than a packet.     *)
RestInv ==
  /\ pc \in PcValues
  /\ pc \in {"posted", "cleaning"} => DataSize < BufferSize
  /\ pc \in {"posted", "cleaning"} /\ Len(delivered) < Len(sent)
       => arrived < NextPos + sent[Len(delivered) + 1].size
  /\ pc = "posted" => FreeSize >= BufferSize

(* The reasons for which the session has ended.                            *)
CauseInv ==
  /\ connected \in BOOLEAN
  /\ peer \in {"open", "closed", "reset"}
  /\ cause \in {"none", "recv0", "overflow", "error", "elsewhere"}
  /\ cause = "recv0" => pc = "idle"
  /\ EndsForAReason

IInv == SentInv /\ BufferInv /\ FrameInv /\ RestInv /\ CauseInv

-----------------------------------------------------------------------------
LEMMA StreamEndType ==
  ASSUME sent \in Seq(Packet)
  PROVE  StreamEnd \in Nat
<1>1. CASE sent = <<>>
  BY <1>1 DEF StreamEnd
<1>2. CASE sent # <<>>
  <2>1. Len(sent) \in 1 .. Len(sent)
    BY <1>2, EmptySeq, LenProperties
  <2>2. sent[Len(sent)] \in Packet
    BY <2>1, ElementOfSeq
  <2>3. sent[Len(sent)].pos \in Nat /\ sent[Len(sent)].size \in Nat
    BY <2>2 DEF Packet
  <2> QED
    BY <1>2, <2>3 DEF StreamEnd
<1> QED
  BY <1>1, <1>2

(* The header read at the start of the k-th packet holds its size.         *)
LEMMA SizeAtStart ==
  ASSUME SentInv, NEW k \in 1 .. Len(sent)
  PROVE  SizeAt(sent[k].pos) = sent[k].size
<1>1. \A j \in 1 .. Len(sent) : sent[j] \in Packet
  BY ElementOfSeq DEF SentInv
<1>2. \A j \in 1 .. Len(sent) : sent[j].pos = sent[k].pos => j = k
  <2> SUFFICES ASSUME NEW j \in 1 .. Len(sent), sent[j].pos = sent[k].pos, j # k
               PROVE  FALSE
    OBVIOUS
  <2>1. Len(sent) \in Nat
    BY LenProperties DEF SentInv
  <2>2. j < k \/ k < j
    BY <2>1
  <2>3. sent[j].size > 0 /\ sent[k].size > 0 /\ sent[j].pos \in Nat /\ sent[k].pos \in Nat
        /\ sent[j].size \in Nat /\ sent[k].size \in Nat
    BY <1>1 DEF Packet
  <2> QED
    BY <2>2, <2>3 DEF SentInv
<1>3. DOMAIN sent = 1 .. Len(sent)
  BY LenProperties DEF SentInv
<1> QED
  BY <1>2, <1>3 DEF SizeAt

(* A header that fits in what is left is the next packet's, and its size   *)
(* is that packet's.                                                       *)
LEMMA FrameFacts ==
  ASSUME IInv, HeaderFits
  PROVE  /\ Len(delivered) < Len(sent)
         /\ mem[readPos + processLen] = NextPos
         /\ FrameSize = sent[Len(delivered) + 1].size
         /\ FrameSize \in HeaderSize .. MaxPacketSize
<1>1. /\ readPos \in Nat /\ writePos \in Nat /\ processLen \in Nat /\ arrived \in Nat
      /\ readPos + processLen + HeaderSize <= writePos
      /\ Len(sent) \in Nat /\ Len(delivered) \in Nat
  BY LenProperties DEF IInv, BufferInv, FrameInv, SentInv, HeaderFits, DataSize
<1>2. readPos + processLen \in readPos .. (writePos - 1)
  BY <1>1
<1>3. mem[readPos + processLen] = arrived - writePos + readPos + processLen
  BY <1>1, <1>2 DEF IInv, BufferInv, BufferHoldsStream
<1>4. mem[readPos + processLen] = NextPos
  BY <1>1, <1>3 DEF IInv, FrameInv, DataSize
<1>5. NextPos < arrived /\ arrived <= StreamEnd
  BY <1>1, <1>3, <1>4 DEF IInv, BufferInv
<1>6. Len(delivered) < Len(sent)
  <2>1. StreamEnd \in Nat
    BY StreamEndType DEF IInv, SentInv
  <2>2. ASSUME ~(Len(delivered) < Len(sent)) PROVE FALSE
    <3>1. NextPos = StreamEnd
      BY <2>2 DEF NextPos
    <3> QED
      BY <1>1, <1>5, <2>1, <3>1
  <2> QED
    BY <2>2
<1>7. Len(delivered) + 1 \in 1 .. Len(sent)
  BY <1>1, <1>6
<1>8. FrameSize = sent[Len(delivered) + 1].size
  BY <1>4, <1>6, <1>7, SizeAtStart DEF FrameSize, NextPos, IInv
<1>9. sent[Len(delivered) + 1] \in Packet
  BY <1>7, ElementOfSeq DEF IInv, SentInv
<1> QED
  BY <1>4, <1>6, <1>8, <1>9 DEF Packet

-----------------------------------------------------------------------------
(* The initial state.                                                      *)
LEMMA InitInv == Init => IInv
<1> SUFFICES ASSUME Init PROVE IInv
  OBVIOUS
<1>1. StreamEnd = 0 /\ Len(sent) = 0 /\ sent \in Seq(Packet)
  BY EmptySeq DEF Init, StreamEnd
<1>2. SentInv
  BY <1>1 DEF SentInv
<1>3. BufferInv
  BY <1>1, CapacityFact DEF Init, BufferInit, BufferInv, BufferHoldsStream, DataSize, Slots
<1>4. FrameInv
  BY <1>1, EmptySeq DEF Init, BufferInit, FrameInv, DataSize, NextPos
<1>5. RestInv
  BY <1>1, CapacityFact DEF Init, BufferInit, RestInv, DataSize, FreeSize, PcValues
<1>6. CauseInv
  BY DEF Init, CauseInv, EndsForAReason
<1> QED
  BY <1>2, <1>3, <1>4, <1>5, <1>6 DEF IInv

-----------------------------------------------------------------------------
(* The steps of the receive path, one lemma per action.                    *)

LEMMA SentPreserved ==
  ASSUME SentInv, UNCHANGED sent
  PROVE  SentInv' /\ StreamEnd' = StreamEnd
BY DEF SentInv, StreamEnd

LEMMA RecvCompletesStep ==
  ASSUME IInv, NEW n \in 1 .. FreeSize, RecvCompletes(n)
  PROVE  IInv'
<1> USE DEF RecvCompletes
<1>1. SentInv' /\ StreamEnd' = StreamEnd
  BY SentPreserved DEF IInv
<1>2. /\ n \in Nat /\ n > 0 /\ n <= Capacity - writePos /\ n <= StreamEnd - arrived
      /\ readPos \in Nat /\ writePos \in Nat /\ arrived \in Nat /\ Capacity \in Nat
      /\ readPos <= writePos /\ writePos - readPos <= arrived
      /\ StreamEnd \in Nat
  BY CapacityFact, StreamEndType DEF IInv, BufferInv, SentInv, FreeSize, DataSize
<1>3. /\ writePos' = writePos + n /\ readPos' = readPos /\ arrived' = arrived + n
      /\ pc' = "framing" /\ processLen' = 0 /\ UNCHANGED <<connected, cause>>
  BY <1>2 DEF CanWrite, OnWrite, FreeSize
<1>4. BufferInv'
  <2>1. mem' \in [Slots -> Nat]
    <3>1. \A i \in Slots : i \in writePos .. (writePos + n - 1) => arrived + (i - writePos) \in Nat
      BY <1>2 DEF Slots
    <3> QED
      BY <3>1 DEF Fill, IInv, BufferInv
  <2>2. ASSUME NEW i \in readPos' .. (writePos' - 1)
        PROVE  mem'[i] = arrived' - writePos' + i
    <3>1. i \in Slots /\ i \in Int
      BY <1>2, <1>3 DEF Slots
    <3>2. CASE i < writePos
      <4>1. mem'[i] = mem[i]
        BY <3>1, <3>2, <1>2 DEF Fill
      <4>2. mem[i] = arrived - writePos + i
        BY <3>2, <1>3, <1>2 DEF IInv, BufferInv, BufferHoldsStream
      <4> QED
        BY <4>1, <4>2, <1>2, <1>3, <3>1
    <3>3. CASE i >= writePos
      BY <3>1, <3>3, <1>2, <1>3 DEF Fill
    <3> QED
      BY <3>1, <3>2, <3>3, <1>2
  <2> QED
    BY <2>1, <2>2, <1>1, <1>2, <1>3 DEF BufferInv, BufferHoldsStream, DataSize
<1>5. FrameInv'
  <2>1. NextPos' = NextPos /\ UNCHANGED delivered
    BY <1>1 DEF NextPos
  <2>2. arrived - DataSize = NextPos /\ processLen = 0
    BY <1>2 DEF IInv, FrameInv, DataSize
  <2>3. delivered' = [k \in 1 .. Len(delivered') |-> Payload(sent'[k])]
    BY <2>1 DEF IInv, FrameInv
  <2>4. arrived' - DataSize' + processLen' = NextPos'
    BY <2>1, <2>2, <1>2, <1>3 DEF DataSize
  <2>5. processLen' <= DataSize'
    BY <1>2, <1>3 DEF DataSize
  <2> QED
    BY <2>1, <2>3, <2>4, <2>5, <1>2, <1>3 DEF IInv, FrameInv
<1>6. RestInv'
  BY <1>3 DEF RestInv, PcValues
<1>7. CauseInv'
  BY <1>3 DEF IInv, CauseInv, EndsForAReason
<1> QED
  BY <1>1, <1>4, <1>5, <1>6, <1>7 DEF IInv

LEMMA RecvZeroStep ==
  ASSUME IInv, RecvZero
  PROVE  IInv'
<1> USE DEF RecvZero
<1>1. SentInv' /\ StreamEnd' = StreamEnd
  BY SentPreserved DEF IInv
<1>2. UNCHANGED <<bufferVars, sent, arrived, processLen, delivered>> /\ pc' = "idle"
  OBVIOUS
<1>3. BufferInv'
  BY <1>1, <1>2 DEF IInv, BufferInv, BufferHoldsStream, DataSize, bufferVars
<1>4. FrameInv'
  BY <1>1, <1>2 DEF IInv, FrameInv, NextPos, DataSize, bufferVars
<1>5. RestInv'
  BY <1>2 DEF RestInv, PcValues
<1>6. CauseInv'
  <2>1. FreeSize >= BufferSize /\ FreeSize \in Int
    BY CapacityFact DEF IInv, RestInv, BufferInv, FreeSize
  <2>2. CASE ~connected
    BY <2>2, <1>2 DEF IInv, CauseInv, EndsForAReason, Disconnect
  <2>3. CASE connected /\ peer = "reset"
    BY <2>3, <1>2 DEF IInv, CauseInv, EndsForAReason, Disconnect
  <2>4. CASE connected /\ peer = "closed" /\ arrived = StreamEnd
    (* a packet not yet delivered would reach beyond the end of the stream *)
    <3>1. Len(delivered) = Len(sent)
      <4>1. Len(delivered) \in Nat /\ Len(sent) \in Nat /\ Len(delivered) <= Len(sent)
        BY LenProperties DEF IInv, FrameInv, SentInv
      <4>2. ASSUME Len(delivered) < Len(sent) PROVE FALSE
        <5>1. Len(delivered) + 1 \in 1 .. Len(sent)
          BY <4>1, <4>2
        <5>2. sent[Len(delivered) + 1].pos + sent[Len(delivered) + 1].size <= StreamEnd
          BY <5>1 DEF IInv, SentInv
        <5>3. arrived < sent[Len(delivered) + 1].pos + sent[Len(delivered) + 1].size
          BY <4>2 DEF IInv, RestInv, NextPos
        <5>4. sent[Len(delivered) + 1] \in Packet /\ StreamEnd \in Nat
          BY <5>1, ElementOfSeq, StreamEndType DEF IInv, SentInv
        <5> QED
          BY <5>2, <5>3, <5>4, <2>4 DEF Packet
      <4> QED
        BY <4>1, <4>2
    <3> QED
      BY <2>4, <3>1, <1>2 DEF IInv, CauseInv, EndsForAReason, Disconnect
  <2>5. FreeSize # 0
    BY <2>1
  <2> QED
    BY <2>2, <2>3, <2>4, <2>5 DEF IInv, CauseInv
<1> QED
  BY <1>1, <1>3, <1>4, <1>5, <1>6 DEF IInv

LEMMA DeliverPacketStep ==
  ASSUME IInv, DeliverPacket
  PROVE  /\ IInv'
         /\ Len(delivered) < Len(sent)
         /\ delivered' = Append(delivered, Payload(sent[Len(delivered) + 1]))
<1> USE DEF DeliverPacket
<1>1. SentInv' /\ StreamEnd' = StreamEnd
  BY SentPreserved DEF IInv
<1> DEFINE next == Len(delivered) + 1
<1>2. /\ Len(delivered) < Len(sent)
      /\ FrameSize = sent[next].size
      /\ FrameSize \in HeaderSize .. MaxPacketSize
      /\ mem[readPos + processLen] = NextPos
  BY FrameFacts DEF FrameFits
<1>3. /\ readPos \in Nat /\ writePos \in Nat /\ processLen \in Nat /\ arrived \in Nat
      /\ FrameSize \in Nat /\ processLen + FrameSize <= writePos - readPos
      /\ Len(delivered) \in Nat /\ Len(sent) \in Nat /\ next \in 1 .. Len(sent)
  <2>1. readPos \in Nat /\ writePos \in Nat /\ processLen \in Nat /\ arrived \in Nat
        /\ Len(delivered) \in Nat
    BY DEF IInv, BufferInv, FrameInv
  <2>2. FrameSize \in Nat
    BY <1>2
  <2>3. writePos - readPos - processLen >= FrameSize
    BY DEF FrameFits, DataSize
  <2>4. Len(sent) \in Nat
    BY LenProperties DEF IInv, SentInv
  <2>5. processLen + FrameSize <= writePos - readPos
    BY ONLY <2>1, <2>2, <2>3
  <2>6. Len(delivered) + 1 \in 1 .. Len(sent)
    BY ONLY <1>2, <2>1, <2>4
  <2> QED
    BY ONLY <2>1, <2>2, <2>4, <2>5, <2>6
<1>4. sent[next] \in Packet /\ NextPos = sent[next].pos /\ NextPos \in Nat
  <2>1. sent[next] \in Packet
    BY <1>3, ElementOfSeq DEF IInv, SentInv
  <2> QED
    BY <2>1, <1>2 DEF NextPos, Packet
<1>5. [i \in 0 .. (FrameSize - 1) |-> mem[readPos + processLen + i]] = Payload(sent[next])
  <2>1. ASSUME NEW i \in 0 .. (FrameSize - 1)
        PROVE  mem[readPos + processLen + i] = sent[next].pos + i
    <3>1. readPos + processLen + i \in readPos .. (writePos - 1)
      BY <1>3
    <3>2. mem[readPos + processLen + i] = arrived - writePos + (readPos + processLen + i)
      BY <3>1 DEF IInv, BufferInv, BufferHoldsStream
    <3>3. arrived - (writePos - readPos) + processLen = sent[next].pos
      BY <1>4 DEF IInv, FrameInv, DataSize
    <3> QED
      BY <3>2, <3>3, <1>3, <1>4
  <2> QED
    BY <2>1, <1>2 DEF Payload
<1>6. delivered' = Append(delivered, Payload(sent[next]))
  BY <1>5
<1>7. BufferInv'
  BY <1>1 DEF IInv, BufferInv, BufferHoldsStream, DataSize, bufferVars
<1>8. FrameInv'
  <2>1. delivered' = [k \in 1 .. next |-> Payload(sent[k])] /\ Len(delivered') = next
    <3> DEFINE D == [k \in 1 .. Len(delivered) |-> Payload(sent[k])]
    <3>1. delivered = D /\ Len(D) = Len(delivered)
      BY DEF IInv, FrameInv
    <3>2. Append(D, Payload(sent[next])) = [k \in 1 .. next |-> Payload(sent[k])]
      BY <3>1, <1>3
    <3> QED
      BY <3>1, <3>2, <1>6, <1>3
  <2>2. NextPos' = NextPos + FrameSize
    <3>1. CASE next < Len(sent)
      <4>1. next \in 1 .. (Len(sent) - 1)
        BY <3>1, <1>3
      <4>2. sent[next + 1].pos = sent[next].pos + sent[next].size
        BY <4>1 DEF IInv, SentInv
      <4>3. NextPos' = sent[next + 1].pos
        BY <3>1, <2>1 DEF NextPos
      <4> QED
        BY <4>2, <4>3, <1>2, <1>4
    <3>2. CASE ~(next < Len(sent))
      <4>1. next = Len(sent) /\ sent # <<>>
        BY <3>2, <1>3
      <4>2. NextPos' = StreamEnd
        BY <3>2, <2>1, <1>1 DEF NextPos
      <4> QED
        BY <4>1, <4>2, <1>2, <1>4 DEF StreamEnd
    <3> QED
      BY <3>1, <3>2
  <2>3. processLen' = processLen + FrameSize /\ DataSize' = DataSize /\ arrived' = arrived
    BY DEF DataSize, bufferVars
  <2>4. arrived - DataSize + processLen = NextPos /\ DataSize \in Nat
    BY <1>3 DEF IInv, FrameInv, BufferInv, DataSize
  <2>5. arrived' - DataSize' + processLen' = NextPos'
    BY <2>2, <2>3, <2>4, <1>3, <1>4
  <2>6. processLen' \in Nat /\ processLen' <= DataSize'
    BY <2>3, <1>3 DEF DataSize
  <2>7. delivered' = [k \in 1 .. Len(delivered') |-> Payload(sent'[k])]
    BY <2>1
  <2>8. Len(delivered') \in Nat /\ Len(delivered') <= Len(sent')
    BY <2>1, <1>3
  <2> QED
    BY <2>5, <2>6, <2>7, <2>8 DEF FrameInv
<1>9. RestInv'
  BY DEF RestInv, PcValues
<1>10. CauseInv'
  BY DEF IInv, CauseInv, EndsForAReason
<1> QED
  BY <1>1, <1>2, <1>6, <1>7, <1>8, <1>9, <1>10 DEF IInv

LEMMA EndFramingStep ==
  ASSUME IInv, EndFraming
  PROVE  IInv'
<1> USE DEF EndFraming
<1>1. SentInv' /\ StreamEnd' = StreamEnd
  BY SentPreserved DEF IInv
<1>2. /\ readPos \in Nat /\ writePos \in Nat /\ processLen \in Nat /\ arrived \in Nat
      /\ processLen <= writePos - readPos
      /\ Len(delivered) \in Nat /\ Len(sent) \in Nat /\ Len(delivered) <= Len(sent)
  BY LenProperties DEF IInv, BufferInv, FrameInv, SentInv, DataSize
<1>3. /\ readPos' = readPos + processLen /\ UNCHANGED <<mem, writePos, connected, cause>>
      /\ pc' = "cleaning" /\ processLen' = 0
  BY <1>2 DEF CanRead, OnRead, DataSize
<1>4. BufferInv'
  BY <1>1, <1>2, <1>3 DEF IInv, BufferInv, BufferHoldsStream, DataSize
<1>5. NextPos' = NextPos /\ NextPos = arrived - (writePos - readPos) + processLen
  BY <1>1 DEF NextPos, IInv, FrameInv, DataSize
<1>6. FrameInv'
  <2>1. delivered' = [k \in 1 .. Len(delivered') |-> Payload(sent'[k])]
    BY DEF IInv, FrameInv
  <2> QED
    BY <2>1, <1>2, <1>3, <1>5 DEF FrameInv, DataSize
<1>7. RestInv'
  (* the loop was left because the rest is no header or no whole packet    *)
  <2>1. CASE ~HeaderFits
    <3>1. DataSize' < HeaderSize
      BY <2>1, <1>2, <1>3 DEF HeaderFits, DataSize
    <3>2. ASSUME Len(delivered) < Len(sent)
          PROVE  arrived < NextPos + sent[Len(delivered) + 1].size
      <4>1. sent[Len(delivered) + 1] \in Packet
        BY <3>2, <1>2, ElementOfSeq DEF IInv, SentInv
      <4> QED
        BY <4>1, <3>1, <1>2, <1>3, <1>5 DEF Packet, DataSize
    <3> QED
      BY <3>1, <3>2, <1>2, <1>3, <1>5 DEF RestInv, PcValues, DataSize
  <2>2. CASE HeaderFits
    <3>1. /\ FrameSize = sent[Len(delivered) + 1].size
          /\ FrameSize \in HeaderSize .. MaxPacketSize
      BY <2>2, FrameFacts
    <3>2. ~(DataSize - processLen >= FrameSize)
      BY <2>2 DEF FrameFits
    <3>3. DataSize' < FrameSize /\ DataSize' \in Int
      BY <3>1, <3>2, <1>2, <1>3 DEF DataSize
    <3>4. DataSize' < BufferSize
      BY <3>1, <3>3
    <3>5. arrived < NextPos + FrameSize
      BY <3>1, <3>3, <1>2, <1>3, <1>5 DEF DataSize
    <3> QED
      BY <3>1, <3>4, <3>5, <1>3, <1>5 DEF RestInv, PcValues
  <2> QED
    BY <2>1, <2>2
<1>8. CauseInv'
  <2>1. cause # "recv0"
    BY DEF IInv, CauseInv
  <2> QED
    BY <2>1, <1>3 DEF IInv, CauseInv, EndsForAReason
<1> QED
  BY <1>1, <1>4, <1>6, <1>7, <1>8 DEF IInv

(* Clean moves the bytes between the cursors and keeps them in order.      *)
LEMMA CleanFacts ==
  ASSUME BufferInv, DataSize < BufferSize, Clean, UNCHANGED <<sent, arrived>>
  PROVE  /\ BufferInv'
         /\ DataSize' = DataSize
         /\ FreeSize' >= BufferSize
         /\ MustCompact => DataSize <= readPos
<1>1. /\ readPos \in Nat /\ writePos \in Nat /\ Capacity \in Nat /\ BufferSize \in Nat
      /\ readPos <= writePos /\ writePos <= Capacity /\ Capacity >= 3 * BufferSize
      /\ BufferSize > 0
  BY CapacityFact DEF BufferInv
<1>2. StreamEnd' = StreamEnd
  BY DEF StreamEnd
<1>3. CASE Rewind
  BY <1>1, <1>2, <1>3 DEF Rewind, BufferInv, BufferHoldsStream, DataSize, FreeSize, MustCompact
<1>4. CASE Compact
  <2>1. /\ DataSize <= readPos /\ DataSize \in Nat /\ readPos' = 0 /\ writePos' = DataSize
        /\ FreeSize' >= BufferSize /\ DataSize' = DataSize
    BY <1>1, <1>4 DEF Compact, MustCompact, DataSize, FreeSize
  <2>2. mem' \in [Slots -> Nat]
    <3>1. \A i \in Slots : i < DataSize => readPos + i \in Slots
      BY <1>1, <2>1 DEF Slots, DataSize
    <3> QED
      BY <3>1, <1>4 DEF Compact, BufferInv
  <2>3. ASSUME NEW i \in readPos' .. (writePos' - 1)
        PROVE  mem'[i] = arrived' - writePos' + i
    <3>1. i \in Slots /\ i < DataSize /\ i \in Nat
      BY <2>1, <1>1 DEF Slots, DataSize
    <3>2. mem'[i] = mem[readPos + i]
      BY <3>1, <1>4 DEF Compact
    <3>3. readPos + i \in readPos .. (writePos - 1)
      BY <3>1, <1>1 DEF DataSize
    <3>4. mem[readPos + i] = arrived - writePos + (readPos + i)
      BY <3>3 DEF BufferInv, BufferHoldsStream
    <3> QED
      BY <3>2, <3>4, <3>1, <2>1, <1>1 DEF DataSize, BufferInv
  <2>4. DataSize' <= arrived' /\ writePos' <= Capacity
    BY <2>1, <1>1 DEF BufferInv, DataSize
  <2> QED
    BY <2>1, <2>2, <2>3, <2>4, <1>2 DEF BufferInv, BufferHoldsStream
<1>5. CASE DataSize # 0 /\ ~MustCompact /\ UNCHANGED bufferVars
  BY <1>1, <1>2, <1>5
  DEF bufferVars, MustCompact, BufferInv, BufferHoldsStream, DataSize, FreeSize
<1> QED
  BY <1>3, <1>4, <1>5 DEF Clean

LEMMA CleanAndRegisterRecvStep ==
  ASSUME IInv, CleanAndRegisterRecv
  PROVE  IInv'
<1> USE DEF CleanAndRegisterRecv
<1>1. SentInv' /\ StreamEnd' = StreamEnd
  BY SentPreserved DEF IInv
<1>2. BufferInv' /\ DataSize' = DataSize /\ FreeSize' >= BufferSize
  BY CleanFacts DEF IInv, RestInv
<1>3. FrameInv'
  <2>1. pc = "cleaning" /\ pc' # "framing" /\ UNCHANGED <<sent, arrived, processLen, delivered>>
    OBVIOUS
  <2> QED
    BY <1>1, <1>2, <2>1 DEF IInv, FrameInv, NextPos
<1>4. RestInv'
  <2>1. NextPos' = NextPos
    BY <1>1 DEF NextPos
  <2> QED
    BY <2>1, <1>2 DEF IInv, RestInv, PcValues
<1>5. CauseInv'
  <2>1. cause # "recv0"
    BY DEF IInv, CauseInv
  <2> QED
    BY <2>1 DEF IInv, CauseInv, EndsForAReason, Disconnect
<1> QED
  BY <1>1, <1>2, <1>3, <1>4, <1>5 DEF IInv

-----------------------------------------------------------------------------
(* The steps of the peer and of the other threads.                         *)

LEMMA PeerSendsStep ==
  ASSUME IInv, NEW size \in HeaderSize .. MaxPacketSize, PeerSends(size)
  PROVE  /\ IInv'
         /\ Len(sent') = Len(sent) + 1
         /\ \A k \in 1 .. Len(sent) : sent'[k] = sent[k]
<1> USE DEF PeerSends
<1> DEFINE p == [pos |-> StreamEnd, size |-> size]
<1>1. StreamEnd \in Nat /\ Len(sent) \in Nat /\ sent \in Seq(Packet)
  BY StreamEndType, LenProperties DEF IInv, SentInv
<1>2. p \in Packet
  BY <1>1 DEF Packet
<1>3. /\ sent' \in Seq(Packet)
      /\ Len(sent') = Len(sent) + 1
      /\ \A k \in 1 .. Len(sent) : sent'[k] = sent[k]
      /\ sent'[Len(sent) + 1] = p
  BY <1>1, <1>2
<1>4. StreamEnd' = StreamEnd + size /\ StreamEnd' > StreamEnd
  <2>1. sent' # <<>>
    BY <1>3, <1>1
  <2> QED
    BY <2>1, <1>1, <1>3 DEF StreamEnd
<1>5. \A k \in 1 .. Len(sent) : sent[k].pos \in Nat /\ sent[k].size \in Nat
  <2>1. \A k \in 1 .. Len(sent) : sent[k] \in Packet
    BY <1>1, ElementOfSeq
  <2> QED
    BY <2>1 DEF Packet
<1>6. SentInv'
  <2>1. ASSUME NEW k \in 1 .. Len(sent') PROVE sent'[k].pos + sent'[k].size <= StreamEnd'
    <3>1. CASE k = Len(sent) + 1
      BY <3>1, <1>1, <1>3, <1>4
    <3>2. CASE k \in 1 .. Len(sent)
      BY <3>2, <1>1, <1>3, <1>4, <1>5 DEF IInv, SentInv
    <3> QED
      BY <3>1, <3>2, <1>1, <1>3
  <2>2. ASSUME NEW j \in 1 .. Len(sent'), NEW k \in 1 .. Len(sent'), j < k
        PROVE  sent'[j].pos + sent'[j].size <= sent'[k].pos
    <3>1. j \in 1 .. Len(sent)
      BY <2>2, <1>1, <1>3
    <3>2. CASE k = Len(sent) + 1
      BY <3>1, <3>2, <1>3 DEF IInv, SentInv
    <3>3. CASE k \in 1 .. Len(sent)
      BY <2>2, <3>1, <3>3, <1>3 DEF IInv, SentInv
    <3> QED
      BY <3>2, <3>3, <1>1, <1>3
  <2>3. ASSUME NEW k \in 1 .. (Len(sent') - 1)
        PROVE  sent'[k + 1].pos = sent'[k].pos + sent'[k].size
    <3>1. k \in 1 .. Len(sent) /\ sent'[k] = sent[k]
      BY <1>1, <1>3
    <3>2. CASE k = Len(sent)
      <4>1. sent # <<>>
        BY <3>1, <3>2, <1>1
      <4> QED
        BY <3>1, <3>2, <4>1, <1>3 DEF StreamEnd
    <3>3. CASE k \in 1 .. (Len(sent) - 1)
      <4>1. k + 1 \in 1 .. Len(sent)
        BY <3>3, <1>1
      <4> QED
        BY <3>1, <3>3, <4>1, <1>3 DEF IInv, SentInv
    <3> QED
      BY <3>1, <3>2, <3>3, <1>1
  <2>4. sent'[1].pos = 0
    <3>1. CASE sent = <<>>
      BY <3>1, <1>3 DEF StreamEnd
    <3>2. CASE sent # <<>>
      <4>1. 1 \in 1 .. Len(sent)
        BY <3>2, <1>1, EmptySeq
      <4> QED
        BY <4>1, <1>1, <1>3 DEF IInv, SentInv
    <3> QED
      BY <3>1, <3>2
  <2> QED
    BY <2>1, <2>2, <2>3, <2>4, <1>3 DEF SentInv
<1>7. Len(delivered) \in Nat /\ Len(delivered) <= Len(sent)
  BY DEF IInv, FrameInv
<1>8. NextPos' = NextPos
  <2>1. CASE Len(delivered) < Len(sent)
    BY <2>1, <1>1, <1>3, <1>7 DEF NextPos
  <2>2. CASE Len(delivered) = Len(sent)
    BY <2>2, <1>1, <1>3 DEF NextPos
  <2> QED
    BY <2>1, <2>2, <1>1, <1>7
<1>9. BufferInv'
  BY <1>1, <1>4 DEF IInv, BufferInv, BufferHoldsStream, DataSize, bufferVars
<1>10. FrameInv'
  <2>1. \A k \in 1 .. Len(delivered) : sent'[k] = sent[k]
    BY <1>1, <1>3, <1>7
  <2>2. delivered' = [k \in 1 .. Len(delivered') |-> Payload(sent'[k])]
    BY <2>1 DEF IInv, FrameInv
  <2> QED
    BY <2>2, <1>1, <1>3, <1>7, <1>8 DEF IInv, FrameInv, DataSize, bufferVars
<1>11. RestInv'
  <2>1. ASSUME pc \in {"posted", "cleaning"}, Len(delivered) < Len(sent')
        PROVE  arrived < NextPos + sent'[Len(delivered) + 1].size
    <3>1. CASE Len(delivered) < Len(sent)
      BY <2>1, <3>1, <1>1, <1>3, <1>7 DEF IInv, RestInv
    <3>2. CASE Len(delivered) = Len(sent)
      BY <3>2, <1>1, <1>3, <1>7 DEF NextPos, IInv, BufferInv
    <3> QED
      BY <3>1, <3>2, <1>1, <1>7
  <2> QED
    BY <2>1, <1>8 DEF IInv, RestInv, DataSize, FreeSize, bufferVars
<1>12. CauseInv'
  BY DEF IInv, CauseInv, EndsForAReason
<1> QED
  BY <1>3, <1>6, <1>9, <1>10, <1>11, <1>12 DEF IInv

(* Steps that leave the buffer, the stream and the receive path alone.     *)
LEMMA OtherStep ==
  ASSUME IInv,
         \/ \E how \in {"closed", "reset"} : PeerEnds(how)
         \/ DisconnectElsewhere
         \/ UNCHANGED vars
  PROVE  IInv'
<1>1. UNCHANGED <<bufferVars, sent, arrived, pc, processLen, delivered>>
  BY DEF PeerEnds, DisconnectElsewhere, vars
<1>2. SentInv' /\ StreamEnd' = StreamEnd
  BY <1>1, SentPreserved DEF IInv
<1>3. BufferInv' /\ FrameInv' /\ RestInv'
  BY <1>1, <1>2 DEF IInv, BufferInv, BufferHoldsStream, FrameInv, RestInv, NextPos,
                    DataSize, FreeSize, bufferVars
<1>4. CauseInv'
  BY <1>1 DEF IInv, CauseInv, EndsForAReason, PeerEnds, DisconnectElsewhere, Disconnect, vars
<1> QED
  BY <1>2, <1>3, <1>4 DEF IInv

LEMMA StepInv == IInv /\ [Next]_vars => IInv'
<1> SUFFICES ASSUME IInv, [Next]_vars PROVE IInv'
  OBVIOUS
<1> QED
  BY PeerSendsStep, OtherStep, RecvCompletesStep, RecvZeroStep, DeliverPacketStep,
     EndFramingStep, CleanAndRegisterRecvStep
  DEF Next, PeerStep, RecvStep, ProcessStep

-----------------------------------------------------------------------------
(* The cursors, the buffer and the stream agree in every reachable state.  *)
THEOREM ReceiveInvariant == Spec => []IInv
BY InitInv, StepInv, PTL DEF Spec

(* Type correctness.                                                       *)
THEOREM TypeCorrect == Spec => []TypeOK
<1>1. IInv => TypeOK
  <2> SUFFICES ASSUME IInv PROVE TypeOK
    OBVIOUS
  <2>1. readPos \in 0 .. Capacity /\ writePos \in 0 .. Capacity
    BY CapacityFact DEF IInv, BufferInv
  <2>2. DOMAIN delivered = 1 .. Len(delivered)
    BY DEF IInv, FrameInv
  <2>3. ASSUME NEW k \in 1 .. Len(delivered)
        PROVE  \E n \in 1 .. MaxPacketSize : delivered[k] \in [0 .. (n - 1) -> Nat]
    <3>1. k \in 1 .. Len(sent) /\ delivered[k] = Payload(sent[k])
      BY LenProperties DEF IInv, FrameInv, SentInv
    <3>2. sent[k] \in Packet
      BY <3>1, ElementOfSeq DEF IInv, SentInv
    <3>3. sent[k].pos \in Nat /\ sent[k].size \in 1 .. MaxPacketSize
      BY <3>2 DEF Packet
    <3>4. Payload(sent[k]) \in [0 .. (sent[k].size - 1) -> Nat]
      BY <3>3 DEF Payload
    <3> QED
      BY <3>1, <3>3, <3>4
  <2> QED
    BY <2>1, <2>2, <2>3 DEF IInv, SentInv, BufferInv, FrameInv, RestInv, CauseInv, TypeOK
<1> QED
  BY <1>1, ReceiveInvariant, PTL

(* A session whose receives fail only by resets is never deaf: while it is *)
(* connected, a receive is outstanding or being processed.                 *)
THEOREM NeverDeaf ==
  ASSUME TransientErrors = FALSE
  PROVE  Spec => []StaysListening
<1>1. Init => StaysListening
  BY DEF Init, StaysListening
<1>2. IInv /\ StaysListening /\ [Next]_vars => StaysListening'
  <2> SUFFICES ASSUME IInv, StaysListening, [Next]_vars PROVE StaysListening'
    OBVIOUS
  <2> USE DEF StaysListening, Disconnect
  <2>1. ASSUME NEW n \in 1 .. FreeSize, RecvCompletes(n) PROVE StaysListening'
    BY <2>1 DEF RecvCompletes, CanWrite
  <2>2. CASE RecvZero
    BY <2>2 DEF RecvZero
  <2>3. CASE DeliverPacket
    BY <2>3 DEF DeliverPacket
  <2>4. CASE EndFraming
    BY <2>4 DEF EndFraming
  <2>5. CASE CleanAndRegisterRecv
    BY <2>5, TransientErrors = FALSE DEF CleanAndRegisterRecv
  <2>6. CASE PeerStep
    BY <2>6 DEF PeerStep, PeerSends, PeerEnds
  <2>7. CASE DisconnectElsewhere
    BY <2>7 DEF DisconnectElsewhere
  <2>8. CASE UNCHANGED vars
    BY <2>8 DEF vars
  <2> QED
    BY <2>1, <2>2, <2>3, <2>4, <2>5, <2>6, <2>7, <2>8 DEF Next, RecvStep, ProcessStep
<1> QED
  BY <1>1, <1>2, ReceiveInvariant, PTL DEF Spec

(* The buffer always holds the stream.                                     *)
THEOREM BufferIsFaithful == Spec => []BufferHoldsStream
<1>1. IInv => BufferHoldsStream
  BY DEF IInv, BufferInv
<1> QED
  BY <1>1, ReceiveInvariant, PTL

(* Every receive is posted with room for BufferSize bytes.                 *)
THEOREM RoomIsKept == Spec => []RoomToReceive
<1>1. IInv => RoomToReceive
  BY DEF IInv, RestInv, RoomToReceive
<1> QED
  BY <1>1, ReceiveInvariant, PTL

(* The connection ends for a reason of the peer, never for one of ours.    *)
THEOREM EndIsJustified == Spec => []EndsForAReason
<1>1. IInv => EndsForAReason
  BY DEF IInv, CauseInv
<1> QED
  BY <1>1, ReceiveInvariant, PTL

(* The header is read where a packet starts.                               *)
THEOREM HeadersAreAligned == Spec => []HeaderIsAligned
<1>1. IInv => HeaderIsAligned
  <2> SUFFICES ASSUME IInv, HeaderFits
               PROVE  \E k \in DOMAIN sent : sent[k].pos = mem[readPos + processLen]
    BY DEF HeaderIsAligned
  <2>1. Len(delivered) < Len(sent) /\ mem[readPos + processLen] = sent[Len(delivered) + 1].pos
    BY FrameFacts DEF NextPos
  <2>2. Len(delivered) + 1 \in DOMAIN sent
    BY <2>1, LenProperties DEF IInv, FrameInv, SentInv
  <2> QED
    BY <2>1, <2>2
<1> QED
  BY <1>1, ReceiveInvariant, PTL

(* memcpy is called on disjoint regions.                                   *)
THEOREM CopiesAreDisjoint == Spec => []CopyIsDisjoint
<1>1. IInv => CopyIsDisjoint
  BY CapacityFact
  DEF IInv, BufferInv, RestInv, CopyIsDisjoint, MustCompact, DataSize, FreeSize
<1> QED
  BY <1>1, ReceiveInvariant, PTL

(* Whole packets, in order, once each: the session implements the channel. *)
THEOREM ImplementsChannel == Spec => ChannelSpec
<1>1. Init => Channel!Init
  BY DEF Init, Channel!Init
<1>2. IInv /\ [Next]_vars => [Channel!Next]_(Channel!vars)
  <2> SUFFICES ASSUME IInv, [Next]_vars PROVE [Channel!Next]_(Channel!vars)
    OBVIOUS
  <2>0. DOMAIN sent = 1 .. Len(sent) /\ Len(sent) \in Nat
    BY LenProperties DEF IInv, SentInv
  <2>1. CASE UNCHANGED <<sent, delivered>>
    BY <2>1 DEF Channel!vars
  <2>2. ASSUME NEW size \in HeaderSize .. MaxPacketSize, PeerSends(size)
        PROVE  Channel!Send
    <3>1. /\ IInv' /\ Len(sent') = Len(sent) + 1
          /\ \A k \in 1 .. Len(sent) : sent'[k] = sent[k]
          /\ UNCHANGED delivered
      BY <2>2, PeerSendsStep DEF PeerSends
    <3>2. DOMAIN sent' = 1 .. Len(sent')
      BY <3>1, LenProperties DEF IInv, SentInv
    <3> QED
      BY <3>1, <3>2, <2>0 DEF Channel!Send
  <2>3. CASE DeliverPacket
    <3>1. /\ Len(delivered) < Len(sent)
          /\ delivered' = Append(delivered, Payload(sent[Len(delivered) + 1]))
          /\ UNCHANGED sent
      BY <2>3, DeliverPacketStep DEF DeliverPacket
    <3>2. Len(delivered) + 1 \in DOMAIN sent
      BY <3>1, <2>0 DEF IInv, FrameInv
    <3> QED
      BY <3>1, <3>2, <2>0 DEF Channel!Next, Channel!Deliver
  <2> QED
    BY <2>1, <2>2, <2>3
    DEF Next, PeerStep, PeerEnds, DisconnectElsewhere, RecvStep, RecvCompletes, RecvZero,
        ProcessStep, EndFraming, CleanAndRegisterRecv, vars, Channel!Next
<1> QED
  BY <1>1, <1>2, ReceiveInvariant, PTL DEF Spec, ChannelSpec, Channel!Spec
=============================================================================
