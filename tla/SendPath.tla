------------------------------- MODULE SendPath -------------------------------
(***************************************************************************)
(* The send side of one session (ServerCore/Session.cpp): Send,            *)
(* RegisterSend, ProcessSend, HandleError and Disconnect run by any number *)
(* of threads at once.                                                     *)
(*                                                                         *)
(* _lock protects _sendQueue only.  The one _sendEvent, with the OVERLAPPED*)
(* and the buffers the kernel reads, has no lock: the flag _sendRegistered *)
(* elects the thread that may use it.  A step is what runs between two     *)
(* points where another thread can see a difference: a locked block, an    *)
(* atomic exchange or store, a call of WSASend, a completion.              *)
(***************************************************************************)
EXTENDS Naturals, Sequences

CONSTANTS
  Threads,         (* the threads that call Send or dispatch completions   *)
  MaxSends,        (* bound: how many buffers are queued                   *)
  TransientErrors  (* may WSASend fail with an error that is no reset      *)

ASSUME SendPathAssumption ==
  /\ MaxSends \in Nat
  /\ TransientErrors \in BOOLEAN

VARIABLES
  connected,       (* _connected                                           *)
  lineUp,          (* the TCP connection as the kernel sees it             *)
  sendQueue,       (* _sendQueue, buffers by their number                  *)
  sendRegistered,  (* _sendRegistered                                      *)
  sendBuffers,     (* _sendEvent.sendBuffers                               *)
  overlapped,      (* the WSASend on _sendEvent: "free", "pending", or     *)
                   (* completed and not dispatched: "sent", "failed"       *)
  pc,              (* where each thread is                                 *)
  pushed,          (* how many buffers Send has queued                     *)
  wire             (* the buffers handed to the TCP stream, in order       *)

vars == <<connected, lineUp, sendQueue, sendRegistered, sendBuffers, overlapped,
          pc, pushed, wire>>

PcValues ==
  {"idle",
   "register",     (* in RegisterSend, before the IsConnected test         *)
   "drain",        (* before its locked block                              *)
   "post",         (* before WSASend                                       *)
   "refused",      (* WSASend failed and HandleError returned              *)
   "release",      (* before _sendRegistered.store(false)                  *)
   "completion"}   (* in ProcessSend, before its locked block              *)

(* The threads that use _sendEvent.                                        *)
SendOwners == {t \in Threads : pc[t] # "idle"}

Goto(t, from, to) == pc[t] = from /\ pc' = [pc EXCEPT ![t] = to]

-----------------------------------------------------------------------------
Init ==
  /\ connected = TRUE
  /\ lineUp = TRUE
  /\ sendQueue = <<>>
  /\ sendRegistered = FALSE
  /\ sendBuffers = <<>>
  /\ overlapped = "free"
  /\ pc = [t \in Threads |-> "idle"]
  /\ pushed = 0
  /\ wire = <<>>

(* Session::Send: push and exchange under the lock; the thread that finds  *)
(* the flag clear calls RegisterSend after the lock is released.           *)

(* Seeded fault: RegisterSend whatever the flag was.                       *)
Send_AlwaysRegisters(t) ==
  /\ pushed < MaxSends
  /\ pc[t] = "idle"
  /\ pushed' = pushed + 1
  /\ sendQueue' = Append(sendQueue, pushed + 1)
  /\ sendRegistered' = TRUE
  /\ pc' = [pc EXCEPT ![t] = "register"]
  /\ UNCHANGED <<connected, lineUp, sendBuffers, overlapped, wire>>

Send(t) ==
  /\ pushed < MaxSends
  /\ pc[t] = "idle"
  /\ pushed' = pushed + 1
  /\ sendQueue' = Append(sendQueue, pushed + 1)
  /\ sendRegistered' = TRUE
  /\ pc' = [pc EXCEPT ![t] = IF sendRegistered THEN "idle" ELSE "register"]
  /\ UNCHANGED <<connected, lineUp, sendBuffers, overlapped, wire>>

(* RegisterSend returns at once, the flag still set, when not connected.   *)
RegisterSend(t) ==
  /\ Goto(t, "register", IF connected THEN "drain" ELSE "idle")
  /\ UNCHANGED <<connected, lineUp, sendQueue, sendRegistered, sendBuffers,
                 overlapped, pushed, wire>>

(* The locked loop moves the whole queue into the event.                   *)

(* Seeded fault: a do-while loop, which pops an empty queue once.          *)
DrainQueue_PopsTooFar(t) ==
  /\ Goto(t, "drain", "post")
  /\ sendBuffers' = sendBuffers \o sendQueue \o <<0>>
  /\ sendQueue' = <<>>
  /\ UNCHANGED <<connected, lineUp, sendRegistered, overlapped, pushed, wire>>

DrainQueue(t) ==
  /\ Goto(t, "drain", "post")
  /\ sendBuffers' = sendBuffers \o sendQueue
  /\ sendQueue' = <<>>
  /\ UNCHANGED <<connected, lineUp, sendRegistered, overlapped, pushed, wire>>

(* WSASend succeeds or is pending: a completion will come for either.      *)
PostSend(t) ==
  /\ Goto(t, "post", "idle")
  /\ overlapped' = "pending"
  /\ UNCHANGED <<connected, lineUp, sendQueue, sendRegistered, sendBuffers, pushed, wire>>

(* WSASend fails: HandleError disconnects on a reset, else only logs.      *)

(* Seeded fault: the flag is released before the event is cleared.         *)
RefuseSend_ReleasesEarly(t) ==
  /\ Goto(t, "post", "refused")
  /\ \/ ~lineUp /\ connected' = FALSE
     \/ TransientErrors /\ UNCHANGED connected
  /\ sendRegistered' = FALSE
  /\ UNCHANGED <<lineUp, sendQueue, sendBuffers, overlapped, pushed, wire>>

RefuseSend(t) ==
  /\ Goto(t, "post", "refused")
  /\ \/ ~lineUp /\ connected' = FALSE
     \/ TransientErrors /\ UNCHANGED connected
  /\ UNCHANGED <<lineUp, sendQueue, sendRegistered, sendBuffers, overlapped, pushed, wire>>

(* Seeded fault: what was queued meanwhile is dropped with the batch.      *)
ClearRefused_DropsQueue(t) ==
  /\ Goto(t, "refused", "release")
  /\ sendBuffers' = <<>>
  /\ sendQueue' = <<>>
  /\ UNCHANGED <<connected, lineUp, sendRegistered, overlapped, pushed, wire>>

ClearRefused(t) ==
  /\ Goto(t, "refused", "release")
  /\ sendBuffers' = <<>>
  /\ UNCHANGED <<connected, lineUp, sendQueue, sendRegistered, overlapped, pushed, wire>>

ReleaseRefused(t) ==
  /\ Goto(t, "release", "idle")
  /\ sendRegistered' = FALSE
  /\ UNCHANGED <<connected, lineUp, sendQueue, sendBuffers, overlapped, pushed, wire>>

(* ProcessSend on a completion with n > 0 bytes: the event is cleared,     *)
(* then the queue is looked at under the lock.                             *)

(* Seeded faults: the flag is released before the queue is looked at; the  *)
(* batch that was sent stays in the event.                                 *)
SendCompleted_ReleasesEarly(t) ==
  /\ overlapped = "sent"
  /\ Goto(t, "idle", "completion")
  /\ overlapped' = "free"
  /\ sendBuffers' = <<>>
  /\ sendRegistered' = FALSE
  /\ UNCHANGED <<connected, lineUp, sendQueue, pushed, wire>>

SendCompleted_KeepsBuffers(t) ==
  /\ overlapped = "sent"
  /\ Goto(t, "idle", "completion")
  /\ overlapped' = "free"
  /\ UNCHANGED <<connected, lineUp, sendQueue, sendRegistered, sendBuffers, pushed, wire>>

SendCompleted(t) ==
  /\ overlapped = "sent"
  /\ Goto(t, "idle", "completion")
  /\ overlapped' = "free"
  /\ sendBuffers' = <<>>
  /\ UNCHANGED <<connected, lineUp, sendQueue, sendRegistered, pushed, wire>>

(* Seeded faults: the flag is never released; the queue is not sent on.    *)
AfterCompletion_NeverReleases(t) ==
  /\ Goto(t, "completion", "idle")
  /\ UNCHANGED <<connected, lineUp, sendQueue, sendRegistered, sendBuffers,
                 overlapped, pushed, wire>>

AfterCompletion_AlwaysReleases(t) ==
  /\ Goto(t, "completion", "idle")
  /\ sendRegistered' = FALSE
  /\ UNCHANGED <<connected, lineUp, sendQueue, sendBuffers, overlapped, pushed, wire>>

AfterCompletion(t) ==
  /\ Goto(t, "completion", IF sendQueue = <<>> THEN "idle" ELSE "register")
  /\ sendRegistered' = (sendQueue # <<>>)
  /\ UNCHANGED <<connected, lineUp, sendQueue, sendBuffers, overlapped, pushed, wire>>

(* ProcessSend on a completion with 0 bytes: Disconnect("Send 0"), and the *)
(* flag stays set.                                                         *)
SendFailed(t) ==
  /\ overlapped = "failed"
  /\ pc[t] = "idle"
  /\ overlapped' = "free"
  /\ sendBuffers' = <<>>
  /\ connected' = FALSE
  /\ UNCHANGED <<lineUp, sendQueue, sendRegistered, pc, pushed, wire>>

(* Disconnect called by the receive side.                                  *)
Disconnect(t) ==
  /\ pc[t] = "idle"
  /\ connected
  /\ connected' = FALSE
  /\ UNCHANGED <<lineUp, sendQueue, sendRegistered, sendBuffers, overlapped, pc, pushed, wire>>

-----------------------------------------------------------------------------
(* The kernel: it transmits the whole batch, or fails it when the line is  *)
(* down or DisconnectEx has shut the socket.                               *)
KernelSends ==
  /\ overlapped = "pending"
  /\ lineUp
  /\ overlapped' = "sent"
  /\ wire' = wire \o sendBuffers
  /\ UNCHANGED <<connected, lineUp, sendQueue, sendRegistered, sendBuffers, pc, pushed>>

KernelFails ==
  /\ overlapped = "pending"
  /\ ~lineUp \/ ~connected
  /\ overlapped' = "failed"
  /\ UNCHANGED <<connected, lineUp, sendQueue, sendRegistered, sendBuffers, pc, pushed, wire>>

LineBreaks ==
  /\ lineUp
  /\ lineUp' = FALSE
  /\ UNCHANGED <<connected, sendQueue, sendRegistered, sendBuffers, overlapped, pc, pushed, wire>>

-----------------------------------------------------------------------------
(* A thread inside Send, RegisterSend or ProcessSend.                      *)
Continue(t) ==
  \/ RegisterSend(t) \/ DrainQueue(t) \/ PostSend(t) \/ RefuseSend(t)
  \/ ClearRefused(t) \/ ReleaseRefused(t) \/ AfterCompletion(t)

Dispatch(t) == SendCompleted(t) \/ SendFailed(t)

Kernel == KernelSends \/ KernelFails

Next ==
  \/ \E t \in Threads : Send(t) \/ Continue(t) \/ Dispatch(t) \/ Disconnect(t)
  \/ Kernel
  \/ LineBreaks

Spec == Init /\ [][Next]_vars

(* A started handler runs on, the kernel completes what was posted, and    *)
(* some thread keeps calling Dispatch, as every loop of the programs does. *)
FairSpec ==
  /\ Spec
  /\ \A t \in Threads : WF_vars(Continue(t))
  /\ WF_vars(Kernel)
  /\ WF_vars(\E t \in Threads : Dispatch(t))

-----------------------------------------------------------------------------
TypeOK ==
  /\ connected \in BOOLEAN
  /\ lineUp \in BOOLEAN
  /\ sendQueue \in Seq(1 .. pushed)
  /\ sendRegistered \in BOOLEAN
  /\ sendBuffers \in Seq(1 .. pushed)
  /\ overlapped \in {"free", "pending", "sent", "failed"}
  /\ pc \in [Threads -> PcValues]
  /\ pushed \in Nat
  /\ wire \in Seq(1 .. pushed)

(***************************************************************************)
(* Safety                                                                  *)
(***************************************************************************)

(* One thread, or the kernel, but never two of them, uses _sendEvent, and  *)
(* while anyone does the flag is set.                                      *)
SingleSender ==
  /\ \A t, u \in SendOwners : t = u
  /\ SendOwners # {} => overlapped = "free"
  /\ SendOwners # {} \/ overlapped # "free" => sendRegistered

(* The buffers of a posted WSASend stay as they are until its completion   *)
(* is dispatched.                                                          *)
BuffersStayPosted ==
  [][overlapped # "free" => sendBuffers' = sendBuffers \/ overlapped' = "free"]_vars

(* Buffers are never reordered or duplicated, whatever fails: the stream,  *)
(* the batch being sent and the queue together are strictly increasing.    *)
Pipeline == wire \o (IF overlapped = "sent" THEN <<>> ELSE sendBuffers) \o sendQueue

NeverReordered ==
  \A i, j \in DOMAIN Pipeline : i < j => Pipeline[i] < Pipeline[j]

(* A buffer is lost only with its batch, and a batch only when WSASend has *)
(* refused it or failed it, by the one thread then at the event: what other*)
(* threads queue meanwhile stays, and so does all that was transmitted.    *)
Buffers(s) == {s[i] : i \in DOMAIN s}

OnlyTheRefusedAreLost ==
  [][\A k \in Buffers(Pipeline) \ Buffers(Pipeline') :
       /\ k \in Buffers(sendBuffers)
       /\ \/ overlapped = "failed"
          \/ \E t \in SendOwners : SendOwners = {t} /\ pc[t] = "refused"]_vars

(* A connected session with something queued has a thread or a completion  *)
(* that will look at the queue again: no wakeup is lost between the check  *)
(* of ProcessSend and the exchange of Send.                                *)
NoLostWakeup ==
  connected /\ sendQueue # <<>> => SendOwners # {} \/ overlapped # "free"

(* The session implements the gap-free stream.                             *)
Stream == INSTANCE OutboundStream
StreamSpec == Stream!Spec

(* What is queued is transmitted, or the session ends.                     *)
EverythingLeaves ==
  \A k \in 1 .. MaxSends : (pushed >= k) ~> (Len(wire) >= k \/ ~connected)
=============================================================================
