------------------------------ MODULE SessionLife ------------------------------
(***************************************************************************)
(* The life of the server's sessions: accepted (Listener.cpp), connected,  *)
(* disconnected and destroyed (Session.cpp, Service.cpp, IocpCore.cpp),    *)
(* with the callbacks that take them into the game and out of it           *)
(* (GameSession.cpp, GameSessionManager.cpp, GameRoom.cpp).                *)
(*                                                                         *)
(* One thread dispatches, but its calls nest: a WSASend that fails inside a*)
(* broadcast disconnects the session, which removes its player, which      *)
(* broadcasts.  todo is what is left to do of the running handler, the next*)
(* call first; a call puts the calls it makes in front.                    *)
(*                                                                         *)
(* A session is destroyed when nothing references it.                      *)
(***************************************************************************)
EXTENDS Sequences, FiniteSets, Naturals

CONSTANTS
  MaxSessions,      (* bound: so many sessions are ever used                *)
  Slots,            (* the accept events                                    *)
  None,             (* no session                                           *)
  MaxPackets,       (* bound: packets in one receive                        *)
  TransientErrors   (* may calls fail with an error HandleError only logs?  *)

ASSUME SessionLifeAssumption ==
  /\ MaxSessions \in Nat
  /\ IsFiniteSet(Slots) /\ Cardinality(Slots) < MaxSessions
  /\ None \notin Slots
  /\ (Slots \cup {None}) \cap (1 .. MaxSessions) = {}
  /\ MaxPackets \in Nat
  /\ TransientErrors \in BOOLEAN

VARIABLES
  link,            (* each session's line: "none", "up" or "down"           *)
  connected,       (* _connected                                            *)
  sendRegistered,  (* _sendRegistered                                       *)
  queued,          (* is _sendQueue not empty?                              *)
  owner,           (* the events of the session that reference it           *)
  kernel,          (* its operations the kernel has not completed           *)
  accepting,       (* acceptEvent->session of each slot                     *)
  posted,          (* the slots with an AcceptEx outstanding                *)
  sessions,        (* Service::_sessions                                    *)
  managed,         (* GSessionManager                                       *)
  players,         (* the sessions of the players in GRoom->_players        *)
  todo,            (* the calls left to make                                *)
  running,         (* whom IocpCore::Dispatch or ProcessAccept holds        *)
  undefined        (* has an erased iterator been advanced?                 *)

Sessions == 1 .. MaxSessions

flow  == <<link, sendRegistered, queued>>
io    == <<owner, kernel>>
slots == <<accepting, posted>>
lists == <<sessions, managed, players>>
vars  == <<flow, connected, io, slots, lists, todo, running, undefined>>

-----------------------------------------------------------------------------
(* Calls                                                                   *)

Call(name, s) == [call |-> name, s |-> s, left |-> {}]

(* The loop of Broadcast: at s, with left still to come.                   *)
Loop(s, left) == [call |-> "Loop", s |-> s, left |-> left]

Broadcast == Call("Broadcast", None)

(* The next call to make.                                                  *)
Calls(name, s) == todo # <<>> /\ Head(todo).call = name /\ Head(todo).s = s /\ ~undefined

(* It makes the calls given, or returns.                                   *)
Then(calls) ==
  /\ todo' = calls \o Tail(todo)
  /\ running' = IF todo' = <<>> THEN None ELSE running

Return == Then(<<>>)

Resting == todo = <<>> /\ ~undefined

(* A handler begins, with a reference to the session.                      *)
Begin(s, calls) == todo' = calls /\ running' = IF calls = <<>> THEN None ELSE s

(* Who holds a shared_ptr to s: its events, its accept event, the sets, its*)
(* player, the handler, and the parameters of EnterRoom and AddObject.     *)
Referenced(s) ==
  \/ owner[s] # {}
  \/ \E a \in Slots : accepting[a] = s
  \/ s \in sessions \cup managed \cup players
  \/ running = s
  \/ \E i \in DOMAIN todo : todo[i].call \in {"EnterRoom", "AddObject"} /\ todo[i].s = s

-----------------------------------------------------------------------------
(* After StartAccept.                                                      *)
Init ==
  /\ link = [s \in Sessions |-> "none"]
  /\ connected = [s \in Sessions |-> FALSE]
  /\ sendRegistered = [s \in Sessions |-> FALSE]
  /\ queued = [s \in Sessions |-> FALSE]
  /\ owner = [s \in Sessions |-> {}]
  /\ kernel = [s \in Sessions |-> {}]
  /\ accepting \in {f \in [Slots -> 1 .. Cardinality(Slots)] :
                      \A a, b \in Slots : f[a] = f[b] => a = b}
  /\ posted = Slots
  /\ sessions = {} /\ managed = {} /\ players = {}
  /\ todo = <<>> /\ running = None /\ undefined = FALSE

(* Accepting.  CreateSession makes a session nobody has used; here, the    *)
(* first such.  An AcceptEx that fails is tried again with another one.    *)
Fresh == {s \in Sessions : link[s] = "none" /\ ~Referenced(s)}

RegisterAccept(a) ==
  /\ Calls("RegisterAccept", a)
  /\ \E s \in Fresh :
       /\ \A x \in Fresh : s <= x
       /\ accepting' = [accepting EXCEPT ![a] = s]
  /\ posted' = posted \cup {a}
  /\ Return
  /\ UNCHANGED <<flow, connected, io, lists, undefined>>

(* Seeded fault: a peer that has gone already costs the slot.              *)
ProcessAccept_ForgetsTheSlot(a) ==
  /\ Resting /\ a \in posted
  /\ Fresh # {}
  /\ posted' = posted \ {a}
  /\ LET s == accepting[a]
     IN  \/ /\ Begin(s, <<Call("ProcessConnect", s), Call("RegisterAccept", a)>>)
            /\ link' = [link EXCEPT ![s] = "up"]
         \/ Begin(s, <<>>) /\ UNCHANGED link
  /\ UNCHANGED <<connected, sendRegistered, queued, io, accepting, lists, undefined>>

(* A peer has connected; SetUpdateAcceptSocket or getpeername fail when it *)
(* has gone already.                                                       *)
ProcessAccept(a) ==
  /\ Resting /\ a \in posted
  /\ Fresh # {}
  /\ posted' = posted \ {a}
  /\ LET s == accepting[a]
     IN  \/ /\ Begin(s, <<Call("ProcessConnect", s), Call("RegisterAccept", a)>>)
            /\ link' = [link EXCEPT ![s] = "up"]
         \/ Begin(s, <<Call("RegisterAccept", a)>>) /\ UNCHANGED link
  /\ UNCHANGED <<connected, sendRegistered, queued, io, accepting, lists, undefined>>

(* Seeded fault: the session is registered once OnConnected has returned.  *)
ProcessConnect_AddsLast(s) ==
  \/ /\ Calls("ProcessConnect", s)
     /\ connected' = [connected EXCEPT ![s] = TRUE]
     /\ Then(<<Call("OnConnected", s), Call("AddSession", s), Call("RegisterRecv", s)>>)
     /\ UNCHANGED <<flow, io, slots, lists, undefined>>
  \/ /\ Calls("AddSession", s)
     /\ sessions' = sessions \cup {s}
     /\ Return
     /\ UNCHANGED <<flow, connected, io, slots, managed, players, undefined>>

(* ProcessConnect with AddSession.                                         *)
ProcessConnect(s) ==
  /\ Calls("ProcessConnect", s)
  /\ connected' = [connected EXCEPT ![s] = TRUE]
  /\ sessions' = sessions \cup {s}
  /\ Then(<<Call("OnConnected", s), Call("RegisterRecv", s)>>)
  /\ UNCHANGED <<flow, io, slots, managed, players, undefined>>

(* Entering and leaving the game                                           *)

OnConnected(s) ==
  /\ Calls("OnConnected", s)
  /\ managed' = managed \cup {s}
  /\ Then(<<Call("Send", s), Call("EnterRoom", s)>>)
  /\ UNCHANGED <<flow, connected, io, slots, sessions, players, undefined>>

EnterRoom(s) ==
  /\ Calls("EnterRoom", s)
  /\ Then(<<Call("Send", s), Call("Send", s), Call("AddObject", s)>>)
  /\ UNCHANGED <<flow, connected, io, slots, lists, undefined>>

AddObject(s) ==
  /\ Calls("AddObject", s)
  /\ players' = players \cup {s}
  /\ Then(<<Broadcast>>)
  /\ UNCHANGED <<flow, connected, io, slots, sessions, managed, undefined>>

(* RemoveObject, for a player that dies and, in LeaveRoom, for one whose   *)
(* session has ended.                                                      *)
Removes(s) ==
  /\ players' = players \ {s}
  /\ Then(IF s \in players THEN <<Broadcast>> ELSE <<>>)

RemoveObject(s) ==
  /\ Calls("RemoveObject", s)
  /\ Removes(s)
  /\ UNCHANGED <<flow, connected, io, slots, sessions, managed, undefined>>

(* GameSession::OnDisconnected with LeaveRoom.                             *)
OnDisconnected(s) ==
  /\ Calls("OnDisconnected", s)
  /\ managed' = managed \ {s}
  /\ Removes(s)
  /\ UNCHANGED <<flow, connected, io, slots, sessions, undefined>>

(* Broadcast walks the map; an entry erased meanwhile is not met, unless it*)
(* is the one the loop stands at: then the iterator is gone.               *)
Advance(left) ==
  \/ left = {} /\ Return
  \/ \E p \in left : Then(<<Call("Send", p), Loop(p, left \ {p})>>)

BroadcastBegins ==
  /\ Calls("Broadcast", None)
  /\ Advance(players)
  /\ UNCHANGED <<flow, connected, io, slots, lists, undefined>>

BroadcastGoesOn(s) ==
  /\ Calls("Loop", s)
  /\ s \in players
  /\ Advance(Head(todo).left \cap players)
  /\ UNCHANGED <<flow, connected, io, slots, lists, undefined>>

BroadcastIsLost(s) ==
  /\ Calls("Loop", s)
  /\ s \notin players
  /\ undefined' = TRUE
  /\ UNCHANGED <<flow, connected, io, slots, lists, todo, running>>

-----------------------------------------------------------------------------
(* Sending                                                                 *)

Send(s) ==
  /\ Calls("Send", s)
  /\ queued' = [queued EXCEPT ![s] = TRUE]
  /\ sendRegistered' = [sendRegistered EXCEPT ![s] = TRUE]
  /\ Then(IF sendRegistered[s] THEN <<>> ELSE <<Call("RegisterSend", s)>>)
  /\ UNCHANGED <<link, connected, io, slots, lists, undefined>>

(* How a call of the kernel ends: it may post the operation, report a reset*)
(* of a line that is down, or fail otherwise.                              *)
Posts(s, op) ==
  /\ kernel' = [kernel EXCEPT ![s] = @ \cup {op}]
  /\ Return

(* Seeded fault: the operation is undone before HandleError is called.     *)
Refuses_UndoesFirst(s, undo) ==
  /\ \/ link[s] = "down" /\ Then(<<Call(undo, s), Call("Disconnect", s)>>)
     \/ TransientErrors  /\ Then(<<Call(undo, s)>>)
  /\ UNCHANGED kernel

Refuses(s, undo) ==
  /\ \/ link[s] = "down" /\ Then(<<Call("Disconnect", s), Call(undo, s)>>)
     \/ TransientErrors  /\ Then(<<Call(undo, s)>>)
  /\ UNCHANGED kernel

RegisterSend(s) ==
  /\ Calls("RegisterSend", s)
  /\ UNCHANGED <<link, sendRegistered, connected, slots, lists, undefined>>
  /\ \/ ~connected[s] /\ Return /\ UNCHANGED <<queued, io>>
     \/ /\ connected[s]
        /\ owner' = [owner EXCEPT ![s] = @ \cup {"send"}]
        /\ queued' = [queued EXCEPT ![s] = FALSE]
        /\ Posts(s, "send") \/ Refuses(s, "SendRefused")

(* The reference is dropped first; the buffers and the flag are members.   *)
SendRefused(s) ==
  /\ Calls("SendRefused", s)
  /\ owner' = [owner EXCEPT ![s] = @ \ {"send"}]
  /\ Then(<<Call("SendReleases", s)>>)
  /\ UNCHANGED <<flow, connected, kernel, slots, lists, undefined>>

SendReleases(s) ==
  /\ Calls("SendReleases", s)
  /\ sendRegistered' = [sendRegistered EXCEPT ![s] = FALSE]
  /\ Return
  /\ UNCHANGED <<link, queued, connected, io, slots, lists, undefined>>

(* A send completes; with no byte sent when the line is down.              *)
ProcessSend(s) ==
  /\ Resting /\ "send" \in kernel[s]
  /\ kernel' = [kernel EXCEPT ![s] = @ \ {"send"}]
  /\ owner' = [owner EXCEPT ![s] = @ \ {"send"}]
  /\ \/ /\ link[s] = "down"
        /\ Begin(s, <<Call("Disconnect", s)>>)
        /\ UNCHANGED sendRegistered
     \/ /\ queued[s]
        /\ Begin(s, <<Call("RegisterSend", s)>>)
        /\ UNCHANGED sendRegistered
     \/ /\ ~queued[s]
        /\ Begin(s, <<>>)
        /\ sendRegistered' = [sendRegistered EXCEPT ![s] = FALSE]
  /\ UNCHANGED <<link, queued, connected, slots, lists, undefined>>

-----------------------------------------------------------------------------
(* Receiving                                                               *)

(* Seeded fault: the event does not hold the session.                      *)
RegisterRecv_NoOwner(s) ==
  /\ Calls("RegisterRecv", s)
  /\ UNCHANGED <<flow, connected, slots, lists, undefined, owner>>
  /\ \/ ~connected[s] /\ Return /\ UNCHANGED kernel
     \/ connected[s] /\ (Posts(s, "recv") \/ Refuses(s, "RecvRefused"))

RegisterRecv(s) ==
  /\ Calls("RegisterRecv", s)
  /\ UNCHANGED <<flow, connected, slots, lists, undefined>>
  /\ \/ ~connected[s] /\ Return /\ UNCHANGED io
     \/ /\ connected[s]
        /\ owner' = [owner EXCEPT ![s] = @ \cup {"recv"}]
        /\ Posts(s, "recv") \/ Refuses(s, "RecvRefused")

(* Seeded fault: the reference is kept.                                    *)
RecvRefused_KeepsOwner(s) ==
  /\ Calls("RecvRefused", s)
  /\ Return
  /\ UNCHANGED <<flow, connected, io, slots, lists, undefined>>

RecvRefused(s) ==
  /\ Calls("RecvRefused", s)
  /\ owner' = [owner EXCEPT ![s] = @ \ {"recv"}]
  /\ Return
  /\ UNCHANGED <<flow, connected, kernel, slots, lists, undefined>>

(* Seeded fault: nothing is posted when no packet was complete.            *)
RecvPackets_StopsWhenEmpty(s) ==
  /\ Resting /\ "recv" \in kernel[s]
  /\ kernel' = [kernel EXCEPT ![s] = @ \ {"recv"}]
  /\ owner' = [owner EXCEPT ![s] = @ \ {"recv"}]
  /\ \/ Begin(s, <<>>)
     \/ \E n \in 1 .. MaxPackets :
       Begin(s, [i \in 1 .. n |-> Call("Handle_C_Move", s)] \o <<Call("RegisterRecv", s)>>)
  /\ UNCHANGED <<flow, connected, slots, lists, undefined>>

(* Packets of a peer, perhaps sent before the line went down: each a       *)
(* C_Move, which is broadcast if the player is in the room.                *)
RecvPackets(s) ==
  /\ Resting /\ "recv" \in kernel[s]
  /\ kernel' = [kernel EXCEPT ![s] = @ \ {"recv"}]
  /\ owner' = [owner EXCEPT ![s] = @ \ {"recv"}]
  /\ \E n \in 0 .. MaxPackets :
       Begin(s, [i \in 1 .. n |-> Call("Handle_C_Move", s)] \o <<Call("RegisterRecv", s)>>)
  /\ UNCHANGED <<flow, connected, slots, lists, undefined>>

(* Seeded fault: Dispatch calls through a plain pointer.                   *)
RecvZero_HoldsNothing(s) ==
  /\ Resting /\ "recv" \in kernel[s] /\ link[s] = "down"
  /\ kernel' = [kernel EXCEPT ![s] = @ \ {"recv"}]
  /\ owner' = [owner EXCEPT ![s] = @ \ {"recv"}]
  /\ Begin(None, <<Call("Disconnect", s)>>)
  /\ UNCHANGED <<flow, connected, slots, lists, undefined>>

(* The peer closed, or the line broke.                                     *)
RecvZero(s) ==
  /\ Resting /\ "recv" \in kernel[s] /\ link[s] = "down"
  /\ kernel' = [kernel EXCEPT ![s] = @ \ {"recv"}]
  /\ owner' = [owner EXCEPT ![s] = @ \ {"recv"}]
  /\ Begin(s, <<Call("Disconnect", s)>>)
  /\ UNCHANGED <<flow, connected, slots, lists, undefined>>

Handle_C_Move(s) ==
  /\ Calls("Handle_C_Move", s)
  /\ Then(IF s \in players THEN <<Broadcast>> ELSE <<>>)
  /\ UNCHANGED <<flow, connected, io, slots, lists, undefined>>

-----------------------------------------------------------------------------
(* Disconnecting                                                           *)

(* Seeded fault: the flag is tested, not exchanged.                        *)
Disconnect_TestsOnly(s) ==
  /\ Calls("Disconnect", s)
  /\ Then(IF connected[s]
          THEN <<Call("OnDisconnected", s), Call("ReleaseSession", s),
                 Call("RegisterDisconnect", s)>>
          ELSE <<>>)
  /\ UNCHANGED <<flow, connected, io, slots, lists, undefined>>

Disconnect(s) ==
  /\ Calls("Disconnect", s)
  /\ connected' = [connected EXCEPT ![s] = FALSE]
  /\ Then(IF connected[s]
          THEN <<Call("OnDisconnected", s), Call("ReleaseSession", s),
                 Call("RegisterDisconnect", s)>>
          ELSE <<>>)
  /\ UNCHANGED <<flow, io, slots, lists, undefined>>

(* The erase stands inside an assert.                                      *)
ReleaseSession(s) ==
  /\ Calls("ReleaseSession", s)
  /\ sessions' = sessions \ {s}
  /\ Return
  /\ UNCHANGED <<flow, connected, io, slots, managed, players, undefined>>

(* DisconnectEx fails at once on a line that is down.                      *)
RegisterDisconnect(s) ==
  /\ Calls("RegisterDisconnect", s)
  /\ Return
  /\ \/ /\ owner' = [owner EXCEPT ![s] = @ \cup {"disconnect"}]
        /\ kernel' = [kernel EXCEPT ![s] = @ \cup {"disconnect"}]
     \/ link[s] = "down" /\ UNCHANGED io
  /\ UNCHANGED <<flow, connected, slots, lists, undefined>>

ProcessDisconnect(s) ==
  /\ Resting /\ "disconnect" \in kernel[s]
  /\ kernel' = [kernel EXCEPT ![s] = @ \ {"disconnect"}]
  /\ owner' = [owner EXCEPT ![s] = @ \ {"disconnect"}]
  /\ UNCHANGED <<flow, connected, slots, lists, todo, running, undefined>>

-----------------------------------------------------------------------------
(* GRoom->Update after a dispatch: the monster moves or strikes, perhaps   *)
(* fatally; each is broadcast.                                             *)
Update ==
  /\ Resting /\ players # {}
  /\ \/ Begin(None, <<Broadcast>>)
     \/ \E p \in players : Begin(None, <<Call("RemoveObject", p), Broadcast>>)
  /\ UNCHANGED <<flow, connected, io, slots, lists, undefined>>

(* A line goes down when a peer closes or the network fails: at any time,  *)
(* of which only those count when the line is looked at.                   *)
LooksAt(s) ==
  Resting \/ \E name \in {"RegisterSend", "RegisterRecv", "RegisterDisconnect"} : Calls(name, s)

LineBreaks(s) ==
  /\ link[s] = "up"
  /\ LooksAt(s)
  /\ link' = [link EXCEPT ![s] = "down"]
  /\ UNCHANGED <<sendRegistered, queued, connected, io, slots, lists, todo, running, undefined>>

GoOn ==
  \/ \E a \in Slots : RegisterAccept(a)
  \/ BroadcastBegins
  \/ \E s \in Sessions :
       \/ ProcessConnect(s) \/ OnConnected(s) \/ EnterRoom(s) \/ AddObject(s)
       \/ RemoveObject(s) \/ OnDisconnected(s) \/ Handle_C_Move(s)
       \/ BroadcastGoesOn(s) \/ BroadcastIsLost(s)
       \/ Send(s) \/ RegisterSend(s) \/ SendRefused(s) \/ SendReleases(s)
       \/ RegisterRecv(s) \/ RecvRefused(s)
       \/ Disconnect(s) \/ ReleaseSession(s) \/ RegisterDisconnect(s)

Dispatch(s) ==
  ProcessSend(s) \/ RecvPackets(s) \/ RecvZero(s) \/ ProcessDisconnect(s)

Next ==
  \/ GoOn
  \/ \E a \in Slots : ProcessAccept(a)
  \/ \E s \in Sessions : Dispatch(s) \/ LineBreaks(s)
  \/ Update

Spec == Init /\ [][Next]_vars

(* The main loop finishes each handler and comes back to the port, which   *)
(* hands out completions first come, first served: none waits for ever.    *)
(* The end of a receive and of a disconnect come once for each session, so *)
(* that fairness to the kind is fairness to each.                          *)
FairSpec ==
  /\ Spec
  /\ WF_vars(GoOn)
  /\ SF_vars(\E s \in Sessions : RecvZero(s))
  /\ SF_vars(\E s \in Sessions : ProcessDisconnect(s))
  /\ \A s \in Sessions : SF_vars(ProcessSend(s))

-----------------------------------------------------------------------------
Operations == {"recv", "send", "disconnect"}

CallNames ==
  {"RegisterAccept", "ProcessConnect", "OnConnected", "EnterRoom", "AddObject",
   "RemoveObject", "OnDisconnected", "Broadcast", "Loop", "Send", "RegisterSend",
   "SendRefused", "SendReleases", "RegisterRecv", "RecvRefused", "Handle_C_Move", "Disconnect",
   "ReleaseSession", "RegisterDisconnect"}

(* The variables have their types; what the kernel is busy with is owned.  *)
TypeOK ==
  /\ link \in [Sessions -> {"none", "up", "down"}]
  /\ {connected, sendRegistered, queued} \subseteq [Sessions -> BOOLEAN]
  /\ owner \in [Sessions -> SUBSET Operations]
  /\ \A s \in Sessions : kernel[s] \subseteq owner[s]
  /\ accepting \in [Slots -> Sessions] /\ posted \subseteq Slots
  /\ sessions \cup managed \cup players \subseteq Sessions
  /\ todo \in Seq([call : CallNames, s : Sessions \cup Slots \cup {None},
                   left : SUBSET Sessions])
  /\ running \in Sessions \cup {None}
  /\ undefined \in BOOLEAN

(***************************************************************************)
(* Safety                                                                  *)
(***************************************************************************)

(* The calls that run as the session, with nothing but this.               *)
Methods == {"Send", "RegisterSend", "SendRefused", "SendReleases", "RegisterRecv",
            "RecvRefused", "Disconnect", "OnDisconnected", "ReleaseSession", "RegisterDisconnect",
            "ProcessConnect", "OnConnected"}

(* A session is not destroyed while the kernel writes to its events or its *)
(* buffer, nor under a method of its own that has not returned.            *)
NoUseAfterFree ==
  \A s \in Sessions :
    \/ Referenced(s)
    \/ kernel[s] = {} /\ \A i \in DOMAIN todo :
                          todo[i].s = s => todo[i].call \notin Methods

(* With errors that HandleError only logs, that can happen in one way: the *)
(* refused send drops the last reference to its session, and has nothing   *)
(* left to do but to clear the flag (RegisterSend, the last two lines).    *)
(* No other method of the session lies beneath.                            *)
FreedByRefusedSendOnly ==
  \A s \in Sessions :
    \/ Referenced(s)
    \/ /\ kernel[s] = {}
       /\ \A i \in DOMAIN todo :
            todo[i].s = s /\ todo[i].call \in Methods => i = 1 /\ todo[i].call = "SendReleases"

(* Between handlers the service and the session manager list exactly the   *)
(* connected sessions, whatever failed inside them.                        *)
ListedWhileConnected ==
  Resting => sessions = {s \in Sessions : connected[s]} /\ managed = sessions

(* assert(_sessions.erase(session) != 0) of ReleaseSession never fails.    *)
ReleasesWhatItHas == \A s \in Sessions : Calls("ReleaseSession", s) => s \in sessions

(* Between handlers every accept event waits for a peer, each with a       *)
(* session of its own that is in no other use.                             *)
EveryoneIsAccepted ==
  Resting =>
    /\ posted = Slots
    /\ \A a \in Slots :
         LET s == accepting[a]
         IN  /\ \A b \in Slots : accepting[b] = s => a = b
             /\ ~connected[s] /\ owner[s] = {}
             /\ s \notin sessions \cup managed \cup players

(* Between handlers a connected session has a receive outstanding, so that *)
(* the end of its peer will be noticed.                                    *)
Listens == Resting => \A s \in Sessions : connected[s] => "recv" \in kernel[s]

(***************************************************************************)
(* Liveness                                                                *)
(***************************************************************************)

(* When lines go down, the sessions are disconnected and destroyed: in the *)
(* end no reference to one is left over.  (A player that entered too late  *)
(* keeps its session, and nothing is promised after an erased iterator was *)
(* advanced: see below.)                                                   *)
Released(s) == ~Referenced(s) \/ (~connected[s] /\ s \in players) \/ undefined

Lingering == {s \in Sessions : link[s] = "down" /\ ~Released(s)}

SessionsAreReleased == Lingering # {} ~> Lingering = {}

-----------------------------------------------------------------------------
(* What the README says and failing sends break.                           *)

(* README.md:19, players enter and leave the room: between handlers nobody *)
(* is in the room whose session has ended.                                 *)
NoGhosts == Resting => \A s \in players : connected[s]

(* README.md:54, what changed is broadcast to all sessions: the loop that  *)
(* does so gets through the map.                                           *)
BroadcastsGetThrough == ~undefined
=============================================================================
