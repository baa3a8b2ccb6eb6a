---------------------------- MODULE SendPathProofs ----------------------------
(***************************************************************************)
(* Proofs about SendPath, for any set of threads and any number of sends.  *)
(***************************************************************************)
EXTENDS SendPath, SequenceTheorems, TLAPS

(* The types of everything but the buffers' numbers.                       *)
ControlTypes ==
  /\ connected \in BOOLEAN
  /\ sendRegistered \in BOOLEAN
  /\ overlapped \in {"free", "pending", "sent", "failed"}
  /\ pc \in [Threads -> PcValues]

(***************************************************************************)
(* Type correctness.                                                       *)
(***************************************************************************)

(* Numbers that were valid stay valid when one more buffer is queued.      *)
LEMMA WiderSeq ==
  ASSUME NEW n \in Nat, NEW s \in Seq(1 .. n)
  PROVE  s \in Seq(1 .. (n + 1))
<1>1. 1 .. n \subseteq 1 .. (n + 1)
  OBVIOUS
<1>2. s \in [1 .. Len(s) -> 1 .. n] /\ Len(s) \in Nat
  BY LenProperties
<1>3. s \in [1 .. Len(s) -> 1 .. (n + 1)]
  BY <1>1, <1>2
<1> QED
  BY <1>2, <1>3, SeqDef

(* Every variable keeps the type its declaration in Session.h gives it,    *)
(* and no buffer is ever queued, sent or transmitted that was not pushed.  *)
THEOREM TypeCorrect == Spec => []TypeOK
<1>1. Init => TypeOK
  <2> SUFFICES ASSUME Init PROVE TypeOK
    OBVIOUS
  <2>1. <<>> \in Seq(1 .. pushed)
    BY EmptySeq
  <2>2. sendQueue \in Seq(1 .. pushed) /\ sendBuffers \in Seq(1 .. pushed)
        /\ wire \in Seq(1 .. pushed)
    BY <2>1 DEF Init
  <2> QED
    BY <2>2 DEF Init, TypeOK, PcValues
<1>2. TypeOK /\ [Next]_vars => TypeOK'
  <2> SUFFICES ASSUME TypeOK, [Next]_vars PROVE TypeOK'
    OBVIOUS
  <2> USE DEF TypeOK
  <2>1. ASSUME NEW t \in Threads, Send(t) PROVE TypeOK'
    <3>1. pushed' = pushed + 1 /\ pushed' \in Nat
      BY <2>1 DEF Send
    <3>2. sendQueue \in Seq(1 .. pushed') /\ sendBuffers \in Seq(1 .. pushed')
          /\ wire \in Seq(1 .. pushed')
      BY <3>1, WiderSeq
    <3>3. Append(sendQueue, pushed + 1) \in Seq(1 .. pushed')
      BY <3>1, <3>2
    <3> QED
      BY <2>1, <3>1, <3>2, <3>3 DEF Send, PcValues
  <2>2. ASSUME NEW t \in Threads, Continue(t) PROVE TypeOK'
    <3>1. CASE RegisterSend(t)    BY <3>1 DEF RegisterSend, Goto, PcValues
    <3>2. CASE DrainQueue(t)      BY <3>2 DEF DrainQueue, Goto, PcValues
    <3>3. CASE PostSend(t)        BY <3>3 DEF PostSend, Goto, PcValues
    <3>4. CASE RefuseSend(t)      BY <3>4 DEF RefuseSend, Goto, PcValues
    <3>5. CASE ClearRefused(t)    BY <3>5 DEF ClearRefused, Goto, PcValues
    <3>6. CASE ReleaseRefused(t)  BY <3>6 DEF ReleaseRefused, Goto, PcValues
    <3>7. CASE AfterCompletion(t) BY <3>7 DEF AfterCompletion, Goto, PcValues
    <3> QED
      BY <2>2, <3>1, <3>2, <3>3, <3>4, <3>5, <3>6, <3>7 DEF Continue
  <2>3. ASSUME NEW t \in Threads, Dispatch(t) PROVE TypeOK'
    BY <2>3, EmptySeq DEF Dispatch, SendCompleted, SendFailed, Goto, PcValues
  <2>4. ASSUME NEW t \in Threads, Disconnect(t) PROVE TypeOK'
    BY <2>4 DEF Disconnect
  <2>5. CASE Kernel
    <3>1. wire \o sendBuffers \in Seq(1 .. pushed)
      BY ConcatProperties
    <3> QED
      BY <2>5, <3>1 DEF Kernel, KernelSends, KernelFails
  <2>6. CASE LineBreaks
    BY <2>6 DEF LineBreaks
  <2>7. CASE UNCHANGED vars
    BY <2>7 DEF vars
  <2> QED
    BY <2>1, <2>2, <2>3, <2>4, <2>5, <2>6, <2>7 DEF Next
<1> QED
  BY <1>1, <1>2, PTL DEF Spec

(***************************************************************************)
(* The election by _sendRegistered.                                        *)
(***************************************************************************)

(* SingleSender is inductive once the control types are known: a thread    *)
(* enters RegisterSend only by turning the flag from FALSE to TRUE, or out *)
(* of ProcessSend, where it already was the owner.                         *)
ElectionInv == ControlTypes /\ SingleSender

LEMMA ElectionInit == Init => ElectionInv
BY DEF Init, ElectionInv, ControlTypes, SingleSender, SendOwners, PcValues

LEMMA ElectionStep == ElectionInv /\ [Next]_vars => ElectionInv'
<1> SUFFICES ASSUME ElectionInv, [Next]_vars PROVE ElectionInv'
  OBVIOUS
<1> USE DEF ElectionInv, ControlTypes, SingleSender, SendOwners, PcValues, Goto
<1>1. ASSUME NEW t \in Threads, Send(t) PROVE ElectionInv'
  BY <1>1 DEF Send
<1>2. ASSUME NEW t \in Threads, Continue(t) PROVE ElectionInv'
  <2>1. CASE RegisterSend(t)    BY <2>1 DEF RegisterSend
  <2>2. CASE DrainQueue(t)      BY <2>2 DEF DrainQueue
  <2>3. CASE PostSend(t)        BY <2>3 DEF PostSend
  <2>4. CASE RefuseSend(t)      BY <2>4 DEF RefuseSend
  <2>5. CASE ClearRefused(t)    BY <2>5 DEF ClearRefused
  <2>6. CASE ReleaseRefused(t)
    <3>1. \A u \in Threads : pc'[u] = "idle"
      BY <2>6 DEF ReleaseRefused
    <3>2. overlapped' = "free"
      BY <2>6 DEF ReleaseRefused
    <3> QED
      BY <2>6, <3>1, <3>2 DEF ReleaseRefused
  <2>7. CASE AfterCompletion(t) BY <2>7 DEF AfterCompletion
  <2> QED
    BY <1>2, <2>1, <2>2, <2>3, <2>4, <2>5, <2>6, <2>7 DEF Continue
<1>3. ASSUME NEW t \in Threads, Dispatch(t) PROVE ElectionInv'
  <2>1. CASE SendCompleted(t)   BY <2>1 DEF SendCompleted
  <2>2. CASE SendFailed(t)      BY <2>2 DEF SendFailed
  <2> QED
    BY <1>3, <2>1, <2>2 DEF Dispatch
<1>4. ASSUME NEW t \in Threads, Disconnect(t) PROVE ElectionInv'
  BY <1>4 DEF Disconnect
<1>5. CASE Kernel
  BY <1>5 DEF Kernel, KernelSends, KernelFails
<1>6. CASE LineBreaks
  BY <1>6 DEF LineBreaks
<1>7. CASE UNCHANGED vars
  BY <1>7 DEF vars
<1> QED
  BY <1>1, <1>2, <1>3, <1>4, <1>5, <1>6, <1>7 DEF Next

(* _sendEvent has one user at a time, whatever the threads and whatever    *)
(* fails.                                                                  *)
THEOREM EventHasOneUser == Spec => []SingleSender
<1>1. ElectionInv => SingleSender
  BY DEF ElectionInv
<1> QED
  BY <1>1, ElectionInit, ElectionStep, PTL DEF Spec

(* What the kernel reads is not written to while it reads: the only steps  *)
(* that touch the buffers need the event, or dispatch its completion.      *)
THEOREM PostedBuffersAreStable == Spec => BuffersStayPosted
<1>1. ElectionInv /\ [Next]_vars
      => (overlapped # "free" => sendBuffers' = sendBuffers \/ overlapped' = "free")
  BY DEF ElectionInv, ControlTypes, SingleSender, SendOwners, PcValues, Goto, vars,
         Next, Send, Continue, RegisterSend, DrainQueue, PostSend, RefuseSend,
         ClearRefused, ReleaseRefused, AfterCompletion, Dispatch, SendCompleted,
         SendFailed, Disconnect, Kernel, KernelSends, KernelFails, LineBreaks
<1> QED
  BY <1>1, ElectionInit, ElectionStep, PTL DEF Spec, BuffersStayPosted

(***************************************************************************)
(* No lost wakeup.                                                         *)
(***************************************************************************)

(* Without transient errors the flag is clear only when the queue is empty *)
(* or the session is over: a thread that releases it after a failure has   *)
(* disconnected first.                                                     *)
WakeupInv ==
  /\ ElectionInv
  /\ pushed \in Nat
  /\ sendQueue \in Seq(Nat)
  /\ \A t \in Threads : pc[t] \in {"refused", "release"} => ~connected
  /\ connected /\ sendQueue # <<>> => sendRegistered
  /\ NoLostWakeup
  /\ connected /\ sendRegistered => SendOwners # {} \/ overlapped # "free"

(* In a system whose sockets fail only by resets, a connected session with *)
(* something queued always has somebody who will look at the queue.        *)
THEOREM QueueIsWatched ==
  ASSUME TransientErrors = FALSE
  PROVE  Spec => []NoLostWakeup
<1>1. Init => WakeupInv
  BY ElectionInit
  DEF Init, WakeupInv, NoLostWakeup, SendOwners
<1>2. WakeupInv /\ [Next]_vars => WakeupInv'
  <2> SUFFICES ASSUME WakeupInv, [Next]_vars PROVE WakeupInv'
    OBVIOUS
  <2>0. ElectionInv'
    BY ElectionStep DEF WakeupInv
  <2> USE <2>0 DEF WakeupInv, ElectionInv, ControlTypes, SingleSender,
                   NoLostWakeup, SendOwners, PcValues, Goto
  <2>1. ASSUME NEW t \in Threads, Send(t) PROVE WakeupInv'
    <3>1. sendQueue' \in Seq(Nat)
      <4>1. sendQueue' = Append(sendQueue, pushed + 1)
        BY <2>1 DEF Send
      <4> QED
        BY <4>1
    <3>2. \A u \in Threads : pc'[u] \in {"refused", "release"} => ~connected'
      BY <2>1 DEF Send
    <3>3. sendRegistered'
      BY <2>1 DEF Send
    <3>4. connected' => SendOwners' # {} \/ overlapped' # "free"
      <4>1. CASE sendRegistered
        BY <4>1, <2>1 DEF Send
      <4>2. CASE ~sendRegistered
        <5>1. pc'[t] = "register"
          BY <4>2, <2>1 DEF Send
        <5> QED
          BY <5>1
      <4> QED
        BY <4>1, <4>2
    <3>5. pushed' \in Nat
      BY <2>1 DEF Send
    <3> QED
      BY <3>1, <3>2, <3>3, <3>4, <3>5
  <2>2. ASSUME NEW t \in Threads, Continue(t) PROVE WakeupInv'
    <3>1. CASE RegisterSend(t)    BY <3>1 DEF RegisterSend
    <3>2. CASE DrainQueue(t)      BY <3>2 DEF DrainQueue
    <3>3. CASE PostSend(t)        BY <3>3 DEF PostSend
    <3>4. CASE RefuseSend(t)      BY <3>4, TransientErrors = FALSE DEF RefuseSend
    <3>5. CASE ClearRefused(t)    BY <3>5 DEF ClearRefused
    <3>6. CASE ReleaseRefused(t)  BY <3>6 DEF ReleaseRefused
    <3>7. CASE AfterCompletion(t) BY <3>7 DEF AfterCompletion
    <3> QED
      BY <2>2, <3>1, <3>2, <3>3, <3>4, <3>5, <3>6, <3>7 DEF Continue
  <2>3. ASSUME NEW t \in Threads, Dispatch(t) PROVE WakeupInv'
    BY <2>3 DEF Dispatch, SendCompleted, SendFailed
  <2>4. ASSUME NEW t \in Threads, Disconnect(t) PROVE WakeupInv'
    BY <2>4 DEF Disconnect
  <2>5. CASE Kernel
    BY <2>5 DEF Kernel, KernelSends, KernelFails
  <2>6. CASE LineBreaks
    BY <2>6 DEF LineBreaks
  <2>7. CASE UNCHANGED vars
    BY <2>7 DEF vars
  <2> QED
    BY <2>1, <2>2, <2>3, <2>4, <2>5, <2>6, <2>7 DEF Next
<1>3. WakeupInv => NoLostWakeup
  BY DEF WakeupInv
<1> QED
  BY <1>1, <1>2, <1>3, PTL DEF Spec

(***************************************************************************)
(* The stream without gaps.                                                *)
(***************************************************************************)

(* Once this holds nothing is ever handed to the kernel again.             *)
Dead ==
  /\ ~connected
  /\ \A t \in Threads : pc[t] \notin {"drain", "post"}
  /\ overlapped # "pending"

SeqTypes ==
  /\ pushed \in Nat
  /\ sendQueue \in Seq(Nat)
  /\ sendBuffers \in Seq(Nat)
  /\ wire \in Seq(Nat)

(* The stream is an initial piece of what was pushed, the queue is the     *)
(* final piece, and as long as the session can still transmit, the batch   *)
(* in the event is exactly what lies between them.                         *)
PiecesInv ==
  /\ \A t \in Threads : pc[t] \in {"refused", "release"} => ~connected
  /\ wire = [i \in 1 .. Len(wire) |-> i]
  /\ Len(wire) <= pushed
  /\ \A i \in 1 .. Len(sendQueue) : sendQueue[i] = pushed - Len(sendQueue) + i
  /\ overlapped # "sent" /\ ~Dead =>
       /\ Len(wire) + Len(sendBuffers) + Len(sendQueue) = pushed
       /\ \A i \in 1 .. Len(sendBuffers) : sendBuffers[i] = Len(wire) + i
  /\ overlapped = "sent" /\ ~Dead => Len(wire) + Len(sendQueue) = pushed

StreamInv == ElectionInv /\ SeqTypes /\ PiecesInv

LEMMA StreamInit == Init => StreamInv
<1> SUFFICES ASSUME Init PROVE StreamInv
  OBVIOUS
<1>1. <<>> \in Seq(Nat) /\ Len(<<>>) = 0
  BY EmptySeq
<1>2. SeqTypes
  BY <1>1 DEF Init, SeqTypes
<1>3. PiecesInv
  BY <1>1 DEF Init, PiecesInv
<1> QED
  BY <1>2, <1>3, ElectionInit DEF StreamInv

(* Queueing one more buffer.                                               *)
LEMMA StreamSend ==
  ASSUME StreamInv, NEW t \in Threads, Send(t)
  PROVE  SeqTypes' /\ PiecesInv'
<1>1. /\ pushed \in Nat /\ pushed' = pushed + 1 /\ sendQueue' = Append(sendQueue, pushed + 1)
      /\ sendQueue \in Seq(Nat) /\ Len(sendQueue) \in Nat /\ Len(wire) \in Nat
      /\ Len(sendBuffers) \in Nat
      /\ UNCHANGED <<connected, sendBuffers, overlapped, wire>>
  BY LenProperties DEF StreamInv, SeqTypes, Send
<1>2. /\ sendQueue' \in Seq(Nat)
      /\ Len(sendQueue') = Len(sendQueue) + 1
      /\ \A i \in 1 .. Len(sendQueue) : sendQueue'[i] = sendQueue[i]
      /\ sendQueue'[Len(sendQueue) + 1] = pushed + 1
  BY <1>1
<1>3. Dead' <=> Dead
  BY <1>1 DEF StreamInv, ElectionInv, ControlTypes, Dead, Send, PcValues
<1>4. \A i \in 1 .. Len(sendQueue') : sendQueue'[i] = pushed' - Len(sendQueue') + i
  <2> SUFFICES ASSUME NEW i \in 1 .. Len(sendQueue')
               PROVE  sendQueue'[i] = pushed' - Len(sendQueue') + i
    OBVIOUS
  <2>1. CASE i = Len(sendQueue) + 1
    BY <2>1, <1>1, <1>2
  <2>2. CASE i \in 1 .. Len(sendQueue)
    <3>1. sendQueue[i] = pushed - Len(sendQueue) + i
      BY <2>2 DEF StreamInv, PiecesInv
    <3> QED
      BY <2>2, <3>1, <1>1, <1>2
  <2> QED
    BY <2>1, <2>2, <1>1, <1>2
<1>5. SeqTypes'
  BY <1>1, <1>2 DEF StreamInv, SeqTypes
<1>6. PiecesInv'
  <2>1. wire' = [i \in 1 .. Len(wire') |-> i] /\ Len(wire') <= pushed'
    BY <1>1 DEF StreamInv, PiecesInv
  <2>2. ASSUME overlapped' # "sent", ~Dead'
        PROVE  /\ Len(wire') + Len(sendBuffers') + Len(sendQueue') = pushed'
               /\ \A i \in 1 .. Len(sendBuffers') : sendBuffers'[i] = Len(wire') + i
    <3>1. /\ Len(wire) + Len(sendBuffers) + Len(sendQueue) = pushed
          /\ \A i \in 1 .. Len(sendBuffers) : sendBuffers[i] = Len(wire) + i
      BY <2>2, <1>1, <1>3 DEF StreamInv, PiecesInv
    <3>2. /\ Len(wire) \in Nat /\ Len(sendBuffers) \in Nat
          /\ Len(sendQueue) \in Nat /\ pushed \in Nat
      BY <1>1
    <3>3. Len(wire) + Len(sendBuffers) + (Len(sendQueue) + 1) = pushed + 1
      BY ONLY <3>1, <3>2
    <3>4. /\ wire' = wire /\ sendBuffers' = sendBuffers /\ pushed' = pushed + 1
          /\ Len(sendQueue') = Len(sendQueue) + 1
      BY <1>1, <1>2
    <3> QED
      BY ONLY <3>1, <3>3, <3>4
  <2>3. ASSUME overlapped' = "sent", ~Dead'
        PROVE  Len(wire') + Len(sendQueue') = pushed'
    <3>1. Len(wire) + Len(sendQueue) = pushed
      BY <2>3, <1>1, <1>3 DEF StreamInv, PiecesInv
    <3>2. Len(wire) \in Nat /\ Len(sendQueue) \in Nat /\ pushed \in Nat
      BY <1>1
    <3>3. Len(wire) + (Len(sendQueue) + 1) = pushed + 1
      BY ONLY <3>1, <3>2
    <3>4. /\ Len(wire') = Len(wire) /\ pushed' = pushed + 1
          /\ Len(sendQueue') = Len(sendQueue) + 1
      BY <1>1, <1>2
    <3> QED
      BY ONLY <3>3, <3>4
  <2>4. \A u \in Threads : pc'[u] \in {"refused", "release"} => ~connected'
    BY DEF StreamInv, PiecesInv, ElectionInv, ControlTypes, Send, PcValues
  <2> QED
    BY <2>1, <2>2, <2>3, <2>4, <1>4 DEF PiecesInv
<1> QED
  BY <1>5, <1>6

(* The queue becomes the batch.                                            *)
LEMMA StreamDrain ==
  ASSUME StreamInv, NEW t \in Threads, DrainQueue(t)
  PROVE  SeqTypes' /\ PiecesInv'
<1>1. /\ pushed \in Nat /\ Len(sendQueue) \in Nat /\ Len(wire) \in Nat
      /\ Len(sendBuffers) \in Nat
      /\ sendBuffers' = sendBuffers \o sendQueue /\ sendQueue' = <<>>
      /\ UNCHANGED <<connected, overlapped, wire, pushed>>
  BY LenProperties DEF StreamInv, SeqTypes, DrainQueue
<1>2. /\ sendBuffers' \in Seq(Nat)
      /\ Len(sendBuffers') = Len(sendBuffers) + Len(sendQueue)
      /\ \A i \in 1 .. Len(sendBuffers') :
           sendBuffers'[i] = IF i <= Len(sendBuffers) THEN sendBuffers[i]
                             ELSE sendQueue[i - Len(sendBuffers)]
  BY <1>1, ConcatProperties DEF StreamInv, SeqTypes
<1>3. ~Dead /\ overlapped = "free"
  BY DEF StreamInv, ElectionInv, SingleSender, SendOwners, Dead, DrainQueue, Goto
<1>4. /\ Len(wire) + Len(sendBuffers) + Len(sendQueue) = pushed
      /\ \A i \in 1 .. Len(sendBuffers) : sendBuffers[i] = Len(wire) + i
      /\ \A i \in 1 .. Len(sendQueue) : sendQueue[i] = pushed - Len(sendQueue) + i
  BY <1>3 DEF StreamInv, PiecesInv
<1>5. \A i \in 1 .. Len(sendBuffers') : sendBuffers'[i] = Len(wire) + i
  <2> SUFFICES ASSUME NEW i \in 1 .. Len(sendBuffers') PROVE sendBuffers'[i] = Len(wire) + i
    OBVIOUS
  <2>1. CASE i <= Len(sendBuffers)
    <3>1. i \in 1 .. Len(sendBuffers)
      BY <2>1, <1>1, <1>2
    <3>2. sendBuffers[i] = Len(wire) + i
      BY <3>1, <1>4
    <3> QED
      BY <2>1, <3>2, <1>2
  <2>2. CASE i > Len(sendBuffers)
    <3>1. i - Len(sendBuffers) \in 1 .. Len(sendQueue)
      BY <2>2, <1>1, <1>2
    <3>2. sendQueue[i - Len(sendBuffers)] = pushed - Len(sendQueue) + (i - Len(sendBuffers))
      BY <3>1, <1>4
    <3>3. sendBuffers'[i] = sendQueue[i - Len(sendBuffers)]
      BY <2>2, <1>1, <1>2
    <3>4. pushed - Len(sendQueue) + (i - Len(sendBuffers)) = Len(wire) + i
      <4>1. /\ pushed \in Nat /\ Len(sendQueue) \in Nat /\ Len(wire) \in Nat
            /\ Len(sendBuffers) \in Nat /\ i \in Int
            /\ Len(wire) + Len(sendBuffers) + Len(sendQueue) = pushed
        BY <1>1, <1>4
      <4> QED
        BY <4>1
    <3> QED
      BY <3>2, <3>3, <3>4
  <2> QED
    BY <2>1, <2>2, <1>1, <1>2
<1>6. Len(sendQueue') = 0 /\ sendQueue' \in Seq(Nat)
  BY <1>1, EmptySeq
<1>7. SeqTypes'
  BY <1>1, <1>2, <1>6 DEF StreamInv, SeqTypes
<1>8. \A u \in Threads : pc'[u] \in {"refused", "release"} => ~connected'
  BY DEF StreamInv, PiecesInv, ElectionInv, ControlTypes, DrainQueue, Goto, PcValues
<1> QED
  BY <1>1, <1>2, <1>3, <1>4, <1>5, <1>6, <1>7, <1>8 DEF StreamInv, PiecesInv

(* The kernel transmits the batch.                                         *)
LEMMA StreamTransmit ==
  ASSUME StreamInv, KernelSends
  PROVE  /\ SeqTypes' /\ PiecesInv'
         /\ Len(wire) \in Nat /\ Len(wire') \in Nat /\ Len(wire) <= Len(wire')
<1>1. /\ pushed \in Nat /\ Len(sendQueue) \in Nat /\ Len(wire) \in Nat
      /\ Len(sendBuffers) \in Nat
      /\ wire' = wire \o sendBuffers /\ overlapped = "pending" /\ overlapped' = "sent"
      /\ UNCHANGED <<connected, sendQueue, sendBuffers, pc, pushed>>
  BY LenProperties DEF StreamInv, SeqTypes, KernelSends
<1>2. /\ wire' \in Seq(Nat)
      /\ Len(wire') = Len(wire) + Len(sendBuffers)
      /\ \A i \in 1 .. Len(wire') :
           wire'[i] = IF i <= Len(wire) THEN wire[i] ELSE sendBuffers[i - Len(wire)]
      /\ wire' = [i \in 1 .. Len(wire') |-> wire'[i]]
  <2>1. wire' \in Seq(Nat)
    BY <1>1, ConcatProperties DEF StreamInv, SeqTypes
  <2>2. wire' = [i \in 1 .. Len(wire') |-> wire'[i]]
    BY <2>1, LenProperties
  <2> QED
    BY <1>1, <2>1, <2>2, ConcatProperties DEF StreamInv, SeqTypes
<1>3. ~Dead
  BY <1>1 DEF Dead
<1>4. /\ Len(wire) + Len(sendBuffers) + Len(sendQueue) = pushed
      /\ \A i \in 1 .. Len(sendBuffers) : sendBuffers[i] = Len(wire) + i
      /\ wire = [i \in 1 .. Len(wire) |-> i]
  BY <1>1, <1>3 DEF StreamInv, PiecesInv
<1>5. \A i \in 1 .. Len(wire') : wire'[i] = i
  <2> SUFFICES ASSUME NEW i \in 1 .. Len(wire') PROVE wire'[i] = i
    OBVIOUS
  <2>1. CASE i <= Len(wire)
    <3>1. i \in 1 .. Len(wire)
      BY <2>1, <1>1, <1>2
    <3>2. wire[i] = i
      BY <3>1, <1>4
    <3> QED
      BY <2>1, <3>2, <1>2
  <2>2. CASE i > Len(wire)
    <3>1. i - Len(wire) \in 1 .. Len(sendBuffers)
      BY <2>2, <1>1, <1>2
    <3>2. sendBuffers[i - Len(wire)] = Len(wire) + (i - Len(wire))
      BY <3>1, <1>4
    <3> QED
      BY <2>2, <3>2, <1>1, <1>2
  <2> QED
    BY <2>1, <2>2, <1>1, <1>2
<1>6. wire' = [i \in 1 .. Len(wire') |-> i]
  BY <1>2, <1>5
<1>7. SeqTypes'
  BY <1>1, <1>2 DEF StreamInv, SeqTypes
<1>8. PiecesInv'
  <2>1. Len(wire') + Len(sendQueue') = pushed' /\ Len(wire') <= pushed'
    BY <1>1, <1>2, <1>4
  <2>2. \A i \in 1 .. Len(sendQueue') : sendQueue'[i] = pushed' - Len(sendQueue') + i
    BY <1>1 DEF StreamInv, PiecesInv
  <2>3. \A t \in Threads : pc'[t] \in {"refused", "release"} => ~connected'
    BY <1>1 DEF StreamInv, PiecesInv
  <2> QED
    BY <1>1, <1>6, <2>1, <2>2, <2>3 DEF PiecesInv
<1> QED
  BY <1>1, <1>2, <1>7, <1>8

(* Every other step leaves the pieces alone, empties a batch that is       *)
(* already in the stream, or makes the session dead.                       *)
LEMMA StreamOther ==
  ASSUME StreamInv, TransientErrors = FALSE, NEW t \in Threads,
         \/ RegisterSend(t) \/ PostSend(t) \/ RefuseSend(t) \/ ClearRefused(t)
         \/ ReleaseRefused(t) \/ AfterCompletion(t)
         \/ Dispatch(t) \/ Disconnect(t)
  PROVE  SeqTypes' /\ PiecesInv' /\ UNCHANGED <<wire, pushed>>
<1>0. Len(<<>>) = 0 /\ <<>> \in Seq(Nat)
  BY EmptySeq
<1>a. /\ pushed \in Nat /\ Len(sendQueue) \in Nat /\ Len(wire) \in Nat
      /\ Len(sendBuffers) \in Nat
  BY LenProperties DEF StreamInv, SeqTypes
<1> USE <1>0, <1>a DEF StreamInv, SeqTypes, ElectionInv, ControlTypes, SingleSender,
                       SendOwners, Goto, PcValues
<1>1. CASE RegisterSend(t)
  <2>1. Dead => Dead'
    BY <1>1 DEF Dead, RegisterSend
  <2> QED
    BY <1>1, <2>1 DEF RegisterSend, PiecesInv
<1>2. CASE PostSend(t)
  <2>1. ~Dead /\ overlapped = "free"
    BY <1>2 DEF Dead, PostSend
  <2> QED
    BY <1>2, <2>1 DEF PostSend, PiecesInv
<1>3. CASE RefuseSend(t)
  <2>1. Dead'
    BY <1>3 DEF Dead, RefuseSend
  <2> QED
    BY <1>3, <2>1 DEF RefuseSend, PiecesInv
<1>4. CASE ClearRefused(t)
  <2>1. pc[t] = "refused" /\ overlapped = "free" /\ \A u \in Threads : u # t => pc[u] = "idle"
    BY <1>4 DEF ClearRefused
  <2>2. ~connected
    BY <2>1 DEF PiecesInv
  <2>3. Dead'
    BY <2>1, <2>2, <1>4 DEF Dead, ClearRefused
  <2>4. \A u \in Threads : pc'[u] \in {"refused", "release"} => ~connected'
    BY <2>2, <1>4 DEF ClearRefused
  <2>5. UNCHANGED <<sendQueue, overlapped, pushed, wire>> /\ sendBuffers' = <<>>
    BY <1>4 DEF ClearRefused
  <2> QED
    BY <2>3, <2>4, <2>5 DEF PiecesInv
<1>5. CASE ReleaseRefused(t)
  <2>1. Dead => Dead'
    BY <1>5 DEF Dead, ReleaseRefused
  <2> QED
    BY <1>5, <2>1 DEF ReleaseRefused, PiecesInv
<1>6. CASE AfterCompletion(t)
  <2>1. Dead => Dead'
    BY <1>6 DEF Dead, AfterCompletion
  <2> QED
    BY <1>6, <2>1 DEF AfterCompletion, PiecesInv
<1>7. CASE SendCompleted(t)
  <2>1. Dead => Dead'
    BY <1>7 DEF Dead, SendCompleted
  <2> QED
    BY <1>7, <2>1 DEF SendCompleted, PiecesInv
<1>8. CASE SendFailed(t)
  <2>1. Dead'
    BY <1>8 DEF Dead, SendFailed
  <2> QED
    BY <1>8, <2>1 DEF SendFailed, PiecesInv
<1>9. CASE Disconnect(t)
  <2>1. Dead => Dead'
    BY <1>9 DEF Dead, Disconnect
  <2> QED
    BY <1>9, <2>1 DEF Disconnect, PiecesInv
<1> QED
  BY <1>1, <1>2, <1>3, <1>4, <1>5, <1>6, <1>7, <1>8, <1>9 DEF Dispatch

LEMMA StreamStep ==
  ASSUME TransientErrors = FALSE
  PROVE  StreamInv /\ [Next]_vars => StreamInv' /\ [Stream!Next]_(Stream!vars)
<1> SUFFICES ASSUME StreamInv, [Next]_vars
             PROVE  StreamInv' /\ [Stream!Next]_(Stream!vars)
  OBVIOUS
<1>0. ElectionInv'
  BY ElectionStep DEF StreamInv
<1>1. ASSUME NEW t \in Threads, Send(t) PROVE StreamInv' /\ Stream!Next
  BY <1>0, <1>1, StreamSend DEF StreamInv, Send, Stream!Next, Stream!Push
<1>2. ASSUME NEW t \in Threads, Continue(t) PROVE StreamInv' /\ UNCHANGED <<pushed, wire>>
  <2>1. CASE DrainQueue(t)
    BY <1>0, <2>1, StreamDrain DEF StreamInv, DrainQueue
  <2>2. CASE ~DrainQueue(t)
    BY <1>0, <1>2, <2>2, StreamOther, TransientErrors = FALSE DEF StreamInv, Continue
  <2> QED
    BY <2>1, <2>2
<1>3. ASSUME NEW t \in Threads, Dispatch(t) \/ Disconnect(t)
      PROVE  StreamInv' /\ UNCHANGED <<pushed, wire>>
  BY <1>0, <1>3, StreamOther, TransientErrors = FALSE DEF StreamInv
<1>4. CASE KernelSends
  <2>1. SeqTypes' /\ PiecesInv' /\ UNCHANGED pushed
    BY <1>4, StreamTransmit DEF KernelSends
  <2>2. Len(wire') \in 0 .. pushed /\ wire' = [i \in 1 .. Len(wire') |-> i]
    BY <1>4, <2>1, StreamTransmit DEF SeqTypes, PiecesInv
  <2>3. DOMAIN wire = 1 .. Len(wire) /\ DOMAIN wire' = 1 .. Len(wire')
    BY <2>1, LenProperties DEF StreamInv, SeqTypes
  <2>4. DOMAIN wire \subseteq DOMAIN wire'
    BY <1>4, <2>3, StreamTransmit
  <2> QED
    BY <1>0, <2>1, <2>2, <2>4 DEF StreamInv, Stream!Next, Stream!Transmit
<1>5. CASE UNCHANGED <<pushed, wire, sendQueue, sendBuffers, connected, pc>>
           /\ (KernelFails \/ LineBreaks \/ UNCHANGED vars)
  <2>1. Dead => Dead'
    BY <1>5 DEF Dead, KernelFails, LineBreaks, vars
  <2>2. ~Dead' => ~Dead
    BY <2>1
  <2>3. SeqTypes'
    BY <1>5 DEF StreamInv, SeqTypes
  <2>4. PiecesInv'
    <3>1. CASE KernelFails
      BY <1>5, <2>2, <3>1 DEF StreamInv, PiecesInv, KernelFails
    <3>2. CASE UNCHANGED overlapped
      BY <1>5, <2>2, <3>2 DEF StreamInv, PiecesInv
    <3> QED
      BY <1>5, <3>1, <3>2 DEF LineBreaks, vars
  <2> QED
    BY <1>0, <1>5, <2>3, <2>4 DEF StreamInv, Stream!vars
<1> QED
  BY <1>1, <1>2, <1>3, <1>4, <1>5
  DEF Next, Kernel, KernelFails, LineBreaks, vars, Stream!vars

(* With sockets that fail only by resets, what a session transmits is what *)
(* was queued on it: in order, complete up to the last buffer transmitted, *)
(* and nothing twice, for any number of threads.                           *)
THEOREM ImplementsStream ==
  ASSUME TransientErrors = FALSE
  PROVE  Spec => StreamSpec
<1>1. Init => Stream!Init
  BY DEF Init, Stream!Init
<1> QED
  BY <1>1, StreamInit, StreamStep, PTL DEF Spec, StreamSpec, Stream!Spec
(***************************************************************************)
(* The order of the stream, with every kind of failure.                    *)
(***************************************************************************)

Increasing(s) == \A i, j \in 1 .. Len(s) : i < j => s[i] < s[j]

(* A buffer with a number above all others goes to the end.                *)
LEMMA AppendIncreases ==
  ASSUME NEW n \in Nat, NEW s \in Seq(1 .. n), Increasing(s)
  PROVE  Increasing(Append(s, n + 1))
<1>1. Len(s) \in Nat /\ \A i \in 1 .. Len(s) : s[i] \in 1 .. n
  BY LenProperties, ElementOfSeq
<1>2. Len(Append(s, n + 1)) = Len(s) + 1
  OBVIOUS
<1>3. \A i \in 1 .. Len(s) + 1 : Append(s, n + 1)[i] = IF i = Len(s) + 1 THEN n + 1 ELSE s[i]
  OBVIOUS
<1> SUFFICES ASSUME NEW i \in 1 .. Len(s) + 1, NEW j \in 1 .. Len(s) + 1, i < j
             PROVE  Append(s, n + 1)[i] < Append(s, n + 1)[j]
  BY <1>2 DEF Increasing
<1>4. i \in 1 .. Len(s) /\ Append(s, n + 1)[i] = s[i]
  BY <1>1, <1>3
<1>5. CASE j = Len(s) + 1
  BY <1>1, <1>3, <1>4, <1>5
<1>6. CASE j # Len(s) + 1
  <2>1. j \in 1 .. Len(s) /\ Append(s, n + 1)[j] = s[j]
    BY <1>1, <1>3, <1>6
  <2> QED
    BY <1>4, <2>1 DEF Increasing
<1> QED
  BY <1>5, <1>6

(* Two ways to move a buffer along.                                        *)
LEMMA ConcatRegroups ==
  ASSUME NEW S, NEW a \in Seq(S), NEW b \in Seq(S), NEW c \in Seq(S)
  PROVE  a \o (b \o c) = (a \o b) \o c
BY ConcatAssociative

(* The same for one buffer at the end.                                    *)
LEMMA AppendRegroups ==
  ASSUME NEW S, NEW a \in Seq(S), NEW b \in Seq(S), NEW e \in S
  PROVE  a \o Append(b, e) = Append(a \o b, e)
<1>1. /\ a \o b \in Seq(S) /\ Append(b, e) \in Seq(S) /\ Append(a \o b, e) \in Seq(S)
      /\ Len(a) \in Nat /\ Len(b) \in Nat
      /\ Len(a \o b) = Len(a) + Len(b) /\ Len(Append(b, e)) = Len(b) + 1
      /\ Len(Append(a \o b, e)) = Len(a) + Len(b) + 1
  BY LenProperties, ConcatProperties
<1>2. /\ a \o Append(b, e) \in Seq(S)
      /\ Len(a \o Append(b, e)) = Len(a) + Len(b) + 1
  BY <1>1, ConcatProperties
<1>3. ASSUME NEW i \in 1 .. Len(a) + Len(b) + 1
      PROVE  (a \o Append(b, e))[i] = Append(a \o b, e)[i]
  <2>1. (a \o Append(b, e))[i] = IF i <= Len(a) THEN a[i] ELSE Append(b, e)[i - Len(a)]
    <3>1. \A k \in 1 .. Len(a) + Len(Append(b, e)) :
            (a \o Append(b, e))[k] = IF k <= Len(a) THEN a[k] ELSE Append(b, e)[k - Len(a)]
      <4>1. ASSUME NEW t \in Seq(S)
            PROVE  \A k \in 1 .. Len(a) + Len(t) :
                     (a \o t)[k] = IF k <= Len(a) THEN a[k] ELSE t[k - Len(a)]
        BY ConcatProperties
      <4> QED
        BY <1>1, <4>1, Zenon
    <3>2. i \in 1 .. Len(a) + Len(Append(b, e))
      BY <1>1
    <3> QED
      BY <3>1, <3>2
  <2>2. CASE i = Len(a) + Len(b) + 1
    BY <1>1, <2>1, <2>2
  <2>3. CASE i \in 1 .. Len(a) + Len(b)
    <3>1. (a \o b)[i] = IF i <= Len(a) THEN a[i] ELSE b[i - Len(a)]
      BY <1>1, <2>3, ConcatProperties
    <3>2. Append(a \o b, e)[i] = (a \o b)[i]
      BY <1>1, <2>3
    <3>3. ~(i <= Len(a)) => Append(b, e)[i - Len(a)] = b[i - Len(a)]
      BY <1>1, <2>3
    <3> QED
      BY <2>1, <3>1, <3>2, <3>3
  <2> QED
    BY <1>1, <2>2, <2>3
<1> QED
  BY <1>1, <1>2, <1>3, SeqEqual

(* What is left when a batch is dropped keeps its order.                   *)
LEMMA DropIncreases ==
  ASSUME NEW S \in SUBSET Nat, NEW a \in Seq(S), NEW b \in Seq(S), NEW c \in Seq(S),
         Increasing((a \o b) \o c)
  PROVE  Increasing(a \o c)
<1>1. /\ Len(a) \in Nat /\ Len(b) \in Nat /\ Len(c) \in Nat
      /\ Len(a \o b) = Len(a) + Len(b) /\ Len(a \o c) = Len(a) + Len(c)
      /\ Len((a \o b) \o c) = Len(a) + Len(b) + Len(c)
  BY LenProperties, ConcatProperties
<1> DEFINE shift(i) == IF i <= Len(a) THEN i ELSE i + Len(b)
<1>2. \A i \in 1 .. Len(a) + Len(c) :
        /\ shift(i) \in 1 .. Len(a) + Len(b) + Len(c)
        /\ (a \o c)[i] = ((a \o b) \o c)[shift(i)]
  <2> SUFFICES ASSUME NEW i \in 1 .. Len(a) + Len(c)
               PROVE  /\ shift(i) \in 1 .. Len(a) + Len(b) + Len(c)
                      /\ (a \o c)[i] = ((a \o b) \o c)[shift(i)]
    OBVIOUS
  <2>1. (a \o c)[i] = IF i <= Len(a) THEN a[i] ELSE c[i - Len(a)]
    BY ConcatProperties
  <2>2. shift(i) \in 1 .. Len(a) + Len(b) + Len(c)
    BY <1>1
  <2>3. a \o b \in Seq(S)
    BY ConcatProperties
  <2>4. ((a \o b) \o c)[shift(i)] =
           IF shift(i) <= Len(a \o b) THEN (a \o b)[shift(i)] ELSE c[shift(i) - Len(a \o b)]
    BY <1>1, <2>2, <2>3, ConcatProperties
  <2>5. CASE i <= Len(a)
    <3>1. (a \o b)[i] = a[i]
      BY <1>1, <2>5, ConcatProperties
    <3> QED BY <1>1, <2>1, <2>2, <2>4, <2>5, <3>1
  <2>6. CASE ~(i <= Len(a))
    <3>1. /\ ~(shift(i) <= Len(a \o b))
          /\ shift(i) - Len(a \o b) = i - Len(a)
      BY <1>1, <2>6
    <3> QED BY <2>1, <2>2, <2>4, <2>6, <3>1
  <2> QED BY <2>5, <2>6
<1>3. \A i, j \in 1 .. Len(a) + Len(c) : i < j => shift(i) < shift(j)
  BY <1>1
<1> HIDE DEF shift
<1> QED
  BY <1>1, <1>2, <1>3 DEF Increasing

(* The pipeline is a sequence of buffers that were pushed.                 *)
LEMMA PipelineType ==
  ASSUME TypeOK
  PROVE  /\ Pipeline \in Seq(1 .. pushed)
         /\ NeverReordered <=> Increasing(Pipeline)
<1> DEFINE batch == IF overlapped = "sent" THEN <<>> ELSE sendBuffers
<1>1. /\ wire \in Seq(1 .. pushed) /\ sendQueue \in Seq(1 .. pushed)
      /\ sendBuffers \in Seq(1 .. pushed) /\ <<>> \in Seq(1 .. pushed)
  BY EmptySeq DEF TypeOK
<1>2. batch \in Seq(1 .. pushed) /\ Pipeline = wire \o batch \o sendQueue
  BY <1>1 DEF Pipeline
<1> HIDE DEF batch
<1>3. Pipeline \in Seq(1 .. pushed)
  BY <1>1, <1>2, ConcatProperties
<1>4. DOMAIN Pipeline = 1 .. Len(Pipeline)
  BY <1>3, LenProperties
<1> QED
  BY <1>3, <1>4 DEF NeverReordered, Increasing

(* A step appends the next number to the pipeline, takes the batch out of  *)
(* it, or only moves buffers along it.                                     *)
LEMMA OrderStep ==
  ASSUME TypeOK, TypeOK', ElectionInv, NeverReordered, [Next]_vars
  PROVE  NeverReordered'
<1>1. /\ wire \in Seq(1 .. pushed) /\ sendQueue \in Seq(1 .. pushed)
      /\ sendBuffers \in Seq(1 .. pushed) /\ <<>> \in Seq(1 .. pushed)
      /\ pushed \in Nat /\ 1 .. pushed \subseteq Nat
  BY EmptySeq DEF TypeOK
<1>2. Pipeline \in Seq(1 .. pushed) /\ Increasing(Pipeline)
  BY PipelineType
<1>3. Pipeline' \in Seq(1 .. pushed') /\ (Increasing(Pipeline') => NeverReordered')
  <2>1. Pipeline' = wire' \o (IF overlapped' = "sent" THEN <<>> ELSE sendBuffers') \o sendQueue'
    BY DEF Pipeline
  <2>2. /\ wire' \in Seq(1 .. pushed') /\ sendQueue' \in Seq(1 .. pushed')
        /\ sendBuffers' \in Seq(1 .. pushed') /\ <<>> \in Seq(1 .. pushed')
    BY EmptySeq DEF TypeOK
  <2>3. (IF overlapped' = "sent" THEN <<>> ELSE sendBuffers') \in Seq(1 .. pushed')
    BY <2>2
  <2>4. Pipeline' \in Seq(1 .. pushed')
    BY <2>1, <2>2, <2>3, ConcatProperties
  <2>5. DOMAIN Pipeline' = 1 .. Len(Pipeline')
    BY <2>4, LenProperties
  <2> QED
    BY <2>4, <2>5 DEF NeverReordered, Increasing
<1>4. ASSUME Pipeline' = Pipeline PROVE NeverReordered'
  BY <1>2, <1>3, <1>4
<1>5. ASSUME overlapped # "sent", Pipeline' = wire \o sendQueue PROVE NeverReordered'
  <2>1. Pipeline = (wire \o sendBuffers) \o sendQueue
    BY <1>5 DEF Pipeline
  <2>2. Increasing(wire \o sendQueue)
    BY <1>1, <1>2, <2>1, DropIncreases
  <2> QED
    BY <1>3, <1>5, <2>2
<1>6. wire \o <<>> = wire /\ (wire \o sendBuffers) \o <<>> = wire \o sendBuffers
  BY <1>1, ConcatProperties, ConcatEmptySeq
<1>7. ASSUME NEW t \in Threads, pc[t] # "idle" PROVE overlapped = "free"
  BY <1>7 DEF ElectionInv, SingleSender, SendOwners
<1>8. ASSUME NEW t \in Threads, Send(t) PROVE NeverReordered'
  <2> DEFINE front == wire \o (IF overlapped = "sent" THEN <<>> ELSE sendBuffers)
  <2>1. front \in Seq(1 .. pushed)
    BY <1>1, ConcatProperties
  <2>2. Pipeline = front \o sendQueue /\ Pipeline' = front \o Append(sendQueue, pushed + 1)
    BY <1>8 DEF Pipeline, Send
  <2> HIDE DEF front
  <2>3. front \in Seq(Nat) /\ sendQueue \in Seq(Nat)
    BY <1>1, <2>1, SeqMonotonic
  <2>4. front \o Append(sendQueue, pushed + 1) = Append(front \o sendQueue, pushed + 1)
    BY <1>1, <2>3, AppendRegroups
  <2>5. Increasing(Append(Pipeline, pushed + 1))
    BY <1>1, <1>2, AppendIncreases
  <2> QED
    BY <1>3, <2>2, <2>4, <2>5
<1>9. ASSUME NEW t \in Threads, DrainQueue(t) PROVE NeverReordered'
  <2>1. overlapped = "free" /\ overlapped' = "free"
    BY <1>7, <1>9 DEF DrainQueue, Goto
  <2>2. Pipeline = (wire \o sendBuffers) \o sendQueue
        /\ Pipeline' = (wire \o (sendBuffers \o sendQueue)) \o <<>>
    BY <1>9, <2>1 DEF DrainQueue, Pipeline
  <2>3. wire \o (sendBuffers \o sendQueue) = (wire \o sendBuffers) \o sendQueue
    <3>1. wire \in Seq(Nat) /\ sendBuffers \in Seq(Nat) /\ sendQueue \in Seq(Nat)
      BY <1>1, SeqMonotonic
    <3> QED
      BY <3>1, ConcatRegroups
  <2>4. (wire \o (sendBuffers \o sendQueue)) \o <<>> = wire \o (sendBuffers \o sendQueue)
    BY <1>1, ConcatProperties, ConcatEmptySeq
  <2> QED
    BY <1>4, <2>2, <2>3, <2>4
<1>10. ASSUME NEW t \in Threads, ClearRefused(t) PROVE NeverReordered'
  <2>1. overlapped = "free" /\ overlapped' = "free"
    BY <1>7, <1>10 DEF ClearRefused, Goto
  <2>2. Pipeline' = wire \o sendQueue
    BY <1>6, <1>10, <2>1 DEF ClearRefused, Pipeline
  <2> QED
    BY <1>5, <2>1, <2>2
<1>11. ASSUME NEW t \in Threads, SendFailed(t) PROVE NeverReordered'
  <2>1. overlapped = "failed" /\ Pipeline' = wire \o sendQueue
    BY <1>6, <1>11 DEF SendFailed, Pipeline
  <2> QED
    BY <1>5, <2>1
<1>12. ASSUME NEW t \in Threads, SendCompleted(t) PROVE NeverReordered'
  BY <1>4, <1>6, <1>12 DEF SendCompleted, Pipeline
<1>13. CASE KernelSends
  BY <1>4, <1>6, <1>13 DEF KernelSends, Pipeline
<1>14. ASSUME NEW t \in Threads, PostSend(t) PROVE NeverReordered'
  <2>1. overlapped = "free" /\ overlapped' = "pending"
    BY <1>7, <1>14 DEF PostSend, Goto
  <2> QED
    BY <1>4, <1>14, <2>1 DEF PostSend, Pipeline
<1>15. ASSUME NEW t \in Threads,
              RegisterSend(t) \/ RefuseSend(t) \/ ReleaseRefused(t) \/ AfterCompletion(t)
              \/ Disconnect(t)
       PROVE  NeverReordered'
  BY <1>4, <1>15
  DEF RegisterSend, RefuseSend, ReleaseRefused, AfterCompletion, Disconnect, Pipeline
<1>16. CASE KernelFails \/ LineBreaks \/ UNCHANGED vars
  BY <1>4, <1>16 DEF KernelFails, LineBreaks, vars, Pipeline
<1> QED
  BY <1>8, <1>9, <1>10, <1>11, <1>12, <1>13, <1>14, <1>15, <1>16
  DEF Next, Continue, Dispatch, Kernel

(* Whatever fails, and for any number of threads, what was transmitted, is *)
(* being sent and is queued stands in the order in which it was queued.    *)
THEOREM BuffersKeepTheirOrder == Spec => []NeverReordered
<1>1. Init => NeverReordered
  <2> SUFFICES ASSUME Init PROVE NeverReordered
    OBVIOUS
  <2>1. <<>> \in Seq(Nat)
    BY EmptySeq
  <2>2. Pipeline = <<>>
    BY <2>1, ConcatEmptySeq DEF Init, Pipeline
  <2> QED
    BY <2>2 DEF NeverReordered
<1> QED
  BY <1>1, OrderStep, TypeCorrect, ElectionInit, ElectionStep, PTL DEF Spec

(***************************************************************************)
(* What is lost.                                                           *)
(***************************************************************************)

(* A concatenation holds what its parts hold.                              *)
LEMMA BuffersConcat ==
  ASSUME NEW S, NEW a \in Seq(S), NEW b \in Seq(S)
  PROVE  Buffers(a \o b) = Buffers(a) \cup Buffers(b)
<1> DEFINE c == a \o b
<1>1. /\ Len(a) \in Nat /\ Len(b) \in Nat /\ Len(c) = Len(a) + Len(b)
      /\ DOMAIN a = 1 .. Len(a) /\ DOMAIN b = 1 .. Len(b) /\ DOMAIN c = 1 .. Len(c)
      /\ \A i \in 1 .. Len(a) + Len(b) : c[i] = IF i <= Len(a) THEN a[i] ELSE b[i - Len(a)]
  BY LenProperties, ConcatProperties
<1> HIDE DEF c
<1>2. ASSUME NEW i \in DOMAIN a PROVE a[i] \in Buffers(c)
  <2>1. i \in DOMAIN c /\ c[i] = a[i] BY <1>1
  <2> QED BY <2>1 DEF Buffers
<1>3. ASSUME NEW i \in DOMAIN b PROVE b[i] \in Buffers(c)
  <2>1. i + Len(a) \in DOMAIN c /\ c[i + Len(a)] = b[i] BY <1>1
  <2> QED BY <2>1 DEF Buffers
<1>4. ASSUME NEW i \in DOMAIN c PROVE c[i] \in Buffers(a) \cup Buffers(b)
  <2>1. CASE i <= Len(a)
    <3>1. i \in DOMAIN a /\ c[i] = a[i] BY <1>1, <2>1
    <3> QED BY <3>1 DEF Buffers
  <2>2. CASE ~(i <= Len(a))
    <3>1. i - Len(a) \in DOMAIN b /\ c[i] = b[i - Len(a)] BY <1>1, <2>2
    <3> QED BY <3>1 DEF Buffers
  <2> QED BY <2>1, <2>2
<1>5. Buffers(c) = Buffers(a) \cup Buffers(b)
  BY <1>2, <1>3, <1>4 DEF Buffers
<1> QED BY <1>5 DEF c

(* A buffer that is queued joins those that were.                          *)
LEMMA BuffersAppend ==
  ASSUME NEW S, NEW s \in Seq(S), NEW e
  PROVE  Buffers(s) \subseteq Buffers(Append(s, e))
<1>1. DOMAIN s = 1 .. Len(s) /\ Len(s) \in Nat
  BY LenProperties
<1>2. ASSUME NEW i \in DOMAIN s PROVE i \in DOMAIN Append(s, e) /\ Append(s, e)[i] = s[i]
  BY <1>1
<1> QED BY <1>2 DEF Buffers

(* The batch as a part of the pipeline: what was sent is on the wire.      *)
Batch == IF overlapped = "sent" THEN <<>> ELSE sendBuffers

(* A step that takes a buffer out of the pipeline is the clearing of a     *)
(* batch, by the thread whose call was refused or for a failed completion. *)
LEMMA LossStep ==
  ASSUME TypeOK, TypeOK', ElectionInv, [Next]_vars
  PROVE  \A k \in Buffers(Pipeline) \ Buffers(Pipeline') :
           /\ k \in Buffers(sendBuffers)
           /\ \/ overlapped = "failed"
              \/ \E t \in SendOwners : SendOwners = {t} /\ pc[t] = "refused"
<1>1. /\ wire \in Seq(Nat) /\ sendQueue \in Seq(Nat) /\ sendBuffers \in Seq(Nat)
      /\ wire' \in Seq(Nat) /\ sendQueue' \in Seq(Nat) /\ sendBuffers' \in Seq(Nat)
      /\ <<>> \in Seq(Nat) /\ Buffers(<<>>) = {}
  <2>1. 1 .. pushed \subseteq Nat /\ 1 .. pushed' \subseteq Nat
    OBVIOUS
  <2> QED
    BY <2>1, EmptySeq, SeqMonotonic DEF TypeOK, Buffers
<1>2. Batch \in Seq(Nat) /\ Batch' \in Seq(Nat)
  BY <1>1 DEF Batch
<1>3. \A a, b, c \in Seq(Nat) : Buffers(a \o b \o c) = Buffers(a) \cup Buffers(b) \cup Buffers(c)
  <2> SUFFICES ASSUME NEW a \in Seq(Nat), NEW b \in Seq(Nat), NEW c \in Seq(Nat)
               PROVE  Buffers((a \o b) \o c) = Buffers(a) \cup Buffers(b) \cup Buffers(c)
    OBVIOUS
  <2> DEFINE d == a \o b
  <2>1. d \in Seq(Nat) /\ Buffers(d) = Buffers(a) \cup Buffers(b)
    BY ConcatProperties, BuffersConcat
  <2> HIDE DEF d
  <2>2. Buffers(d \o c) = Buffers(d) \cup Buffers(c)
    BY <2>1, BuffersConcat
  <2>3. Buffers(d \o c) = Buffers(a) \cup Buffers(b) \cup Buffers(c)
    BY <2>1, <2>2
  <2> QED
    BY <2>3 DEF d
<1>4. /\ Buffers(Pipeline) = Buffers(wire) \cup Buffers(Batch) \cup Buffers(sendQueue)
      /\ Buffers(Pipeline') = Buffers(wire') \cup Buffers(Batch') \cup Buffers(sendQueue')
  <2>1. Pipeline = wire \o Batch \o sendQueue /\ Pipeline' = wire' \o Batch' \o sendQueue'
    BY DEF Pipeline, Batch
  <2> QED
    BY <1>1, <1>2, <1>3, <2>1
<1>5. ASSUME NEW t \in Threads, pc[t] # "idle"
      PROVE  overlapped = "free" /\ SendOwners = {t} /\ t \in SendOwners
  BY <1>5 DEF ElectionInv, SingleSender, SendOwners
<1> DEFINE Kept == Buffers(Pipeline) \subseteq Buffers(Pipeline')
           OwnBatch == Buffers(Pipeline) \ Buffers(Pipeline') \subseteq Buffers(sendBuffers)
<1>6. ASSUME NEW t \in Threads, Send(t) PROVE Kept
  <2>1. sendQueue' = Append(sendQueue, pushed + 1) /\ wire' = wire /\ Batch' = Batch
    BY <1>6 DEF Send, Batch
  <2> QED
    BY <1>1, <1>4, <2>1, BuffersAppend
<1>7. ASSUME NEW t \in Threads, DrainQueue(t) PROVE Kept
  <2>1. overlapped = "free" /\ overlapped' = "free"
    BY <1>5, <1>7 DEF DrainQueue, Goto
  <2>2. wire' = wire /\ Batch = sendBuffers /\ Batch' = sendBuffers \o sendQueue
    BY <1>7, <2>1 DEF DrainQueue, Batch
  <2>3. Buffers(Batch') = Buffers(sendBuffers) \cup Buffers(sendQueue)
    BY <1>1, <2>2, BuffersConcat
  <2> QED
    BY <1>4, <2>2, <2>3
<1>8. ASSUME KernelSends PROVE Kept
  <2>1. wire' = wire \o sendBuffers /\ Batch = sendBuffers /\ sendQueue' = sendQueue
    BY <1>8 DEF KernelSends, Batch
  <2>2. Buffers(wire') = Buffers(wire) \cup Buffers(sendBuffers)
    BY <1>1, <2>1, BuffersConcat
  <2> QED
    BY <1>4, <2>1, <2>2
<1>9. ASSUME NEW t \in Threads, ClearRefused(t) PROVE OwnBatch /\ pc[t] = "refused"
  <2>1. wire' = wire /\ sendQueue' = sendQueue /\ pc[t] = "refused"
    BY <1>9 DEF ClearRefused, Goto
  <2>2. Buffers(Batch) \subseteq Buffers(sendBuffers)
    BY <1>1 DEF Batch
  <2> QED
    BY <1>4, <2>1, <2>2
<1>10. ASSUME NEW t \in Threads, SendFailed(t) PROVE OwnBatch /\ overlapped = "failed"
  <2>1. wire' = wire /\ sendQueue' = sendQueue /\ overlapped = "failed"
    BY <1>10 DEF SendFailed
  <2>2. Buffers(Batch) \subseteq Buffers(sendBuffers)
    BY <1>1 DEF Batch
  <2> QED
    BY <1>4, <2>1, <2>2
<1>11. ASSUME NEW t \in Threads, SendCompleted(t) PROVE Kept
  <2>1. wire' = wire /\ sendQueue' = sendQueue /\ Batch = <<>>
    BY <1>11 DEF SendCompleted, Batch
  <2> QED
    BY <1>1, <1>4, <2>1
<1>12. ASSUME NEW t \in Threads, PostSend(t) PROVE Kept
  <2>1. overlapped = "free" /\ overlapped' = "pending"
    BY <1>5, <1>12 DEF PostSend, Goto
  <2>2. wire' = wire /\ sendQueue' = sendQueue /\ Batch' = Batch
    BY <1>12, <2>1 DEF PostSend, Batch
  <2> QED
    BY <1>4, <2>2
<1>13. ASSUME NEW t \in Threads,
              RegisterSend(t) \/ RefuseSend(t) \/ ReleaseRefused(t) \/ AfterCompletion(t)
              \/ Disconnect(t)
       PROVE  Kept
  <2>1. wire' = wire /\ sendQueue' = sendQueue /\ Batch' = Batch
    BY <1>13
    DEF RegisterSend, RefuseSend, ReleaseRefused, AfterCompletion, Disconnect, Batch
  <2> QED
    BY <1>4, <2>1
<1>14. ASSUME KernelFails \/ LineBreaks \/ UNCHANGED vars PROVE Kept
  <2>1. wire' = wire /\ sendQueue' = sendQueue /\ Batch' = Batch
    BY <1>14 DEF KernelFails, LineBreaks, vars, Batch
  <2> QED
    BY <1>4, <2>1
<1>15. CASE Kept
  BY <1>15
<1>16. CASE \E t \in Threads : ClearRefused(t)
  <2>1. PICK t \in Threads : ClearRefused(t)
    BY <1>16
  <2>2. OwnBatch /\ pc[t] = "refused"
    BY <1>9, <2>1
  <2> QED
    BY <1>5, <2>2
<1>17. CASE \E t \in Threads : SendFailed(t)
  BY <1>10, <1>17
<1> HIDE DEF Kept, OwnBatch
<1> QED
  BY <1>6, <1>7, <1>8, <1>11, <1>12, <1>13, <1>14, <1>15, <1>16, <1>17
  DEF Next, Continue, Dispatch, Kernel

(* With every kind of failure and for any number of threads, a buffer is   *)
(* lost only in the batch of a WSASend that was refused or failed; while a *)
(* refused batch is cleared no other thread is at the event, and what was  *)
(* queued meanwhile stays queued.                                          *)
THEOREM LossIsConfined == Spec => OnlyTheRefusedAreLost
  BY LossStep, TypeCorrect, ElectionInit, ElectionStep, PTL DEF Spec, OnlyTheRefusedAreLost
=============================================================================
