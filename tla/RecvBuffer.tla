------------------------------ MODULE RecvBuffer ------------------------------
(***************************************************************************)
(* The receive buffer of a session (ServerCore/RecvBuffer.h, .cpp): one    *)
(* linear array with a write cursor that follows the bytes the kernel puts *)
(* in and a read cursor that follows the packets taken out.  There is no   *)
(* wrap-around: Clean moves what is left to the front when room runs out.  *)
(*                                                                         *)
(* A byte is represented by its position in the peer's byte stream, which  *)
(* is all that the framing above this buffer can tell apart.               *)
(***************************************************************************)
EXTENDS Integers

CONSTANTS
  BufferSize,   (* Session::BUFFER_SIZE, the room one WSARecv wants to have *)
  BufferCount   (* RecvBuffer::BUFFER_COUNT                                 *)

ASSUME RecvBufferAssumption ==
  /\ BufferSize \in Nat \ {0}
  /\ BufferCount \in Nat
  /\ BufferCount >= 3

VARIABLES
  mem,       (* _buffer   *)
  readPos,   (* _readPos  *)
  writePos   (* _writePos *)

bufferVars == <<mem, readPos, writePos>>

Capacity == BufferSize * BufferCount
Slots    == 0 .. (Capacity - 1)
DataSize == writePos - readPos

(* Seeded fault: counts the bytes already read as free, as a ring would.   *)
FreeSize_AsRing == Capacity - DataSize

FreeSize == Capacity - writePos

-----------------------------------------------------------------------------
BufferInit ==
  /\ mem = [i \in Slots |-> 0]
  /\ readPos = 0
  /\ writePos = 0

(* The kernel stores n bytes of the stream, the first of them at position  *)
(* "first", from the write cursor on.                                      *)
Fill(first, n) ==
  mem' = [i \in Slots |->
            IF i \in writePos .. (writePos + n - 1)
            THEN first + (i - writePos)
            ELSE mem[i]]

(* OnWrite and OnRead report FALSE, and move nothing, when n is too large. *)
CanWrite(n) == n <= FreeSize
OnWrite(n)  == writePos' = writePos + n /\ UNCHANGED readPos

CanRead(n) == n <= DataSize

(* Seeded fault: the read cursor is not advanced.                          *)
OnRead_NotAdvanced(n) == UNCHANGED <<mem, readPos, writePos>>

OnRead(n)  == readPos' = readPos + n /\ UNCHANGED <<mem, writePos>>

(* Clean rewinds both cursors of an empty buffer, and compacts one that    *)
(* has less than BufferSize bytes of room left.  The copy is a memcpy.     *)

(* Seeded faults: compacts only a full buffer; always; never.              *)
MustCompact_OnlyWhenFull == DataSize # 0 /\ FreeSize = 0
MustCompact_Always       == DataSize # 0
MustCompact_Never        == FALSE

MustCompact == DataSize # 0 /\ FreeSize < BufferSize

(* Seeded fault: the cursors are moved, the bytes are not.                 *)
Compact_WithoutCopy ==
  /\ MustCompact
  /\ UNCHANGED mem
  /\ readPos' = 0
  /\ writePos' = DataSize

Compact ==
  /\ MustCompact
  /\ mem' = [i \in Slots |-> IF i < DataSize THEN mem[readPos + i] ELSE mem[i]]
  /\ readPos' = 0
  /\ writePos' = DataSize

Rewind ==
  /\ DataSize = 0
  /\ readPos' = 0
  /\ writePos' = 0
  /\ UNCHANGED mem

Clean ==
  \/ Rewind
  \/ Compact
  \/ DataSize # 0 /\ ~MustCompact /\ UNCHANGED bufferVars
=============================================================================
