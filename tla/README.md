# Formal verification of GameCoding_Zelda

TLA+ models of the networked game in this repository, checked with TLC on small
instances, and with every safety property proved in general with TLAPS. Paths are relative to the
repository root; the code lives under `Server/` (`ServerCore`, `Server`, `Client/GameCoding`,
`DummyClient`).

## 1. The system

A Win32 game: a server that owns the world, clients that draw it and let one
player act, and a load generator.

```
 Client (one thread, frame loop)             Server (one thread)
 InputManager -> MyPlayer --C_Move-->        IocpCore.Dispatch(0)
 DevScene <- ClientPacketHandler <--S_*--      -> Session -> GameSession -> GameRoom
 NetworkManager = ServerCore session         GameRoom.Update() -> Monster
                                DummyClient: 5 threads on one completion port
```

| Component | State | Operations | Interacts by | Hard behaviour | Correct when |
|---|---|---|---|---|---|
| `RecvBuffer` | `_buffer`, `_readPos`, `_writePos` | `OnWrite`, `OnRead`, `Clean` | calls of `Session` | compaction at the boundary | holds exactly the unread bytes; always has room; copies do not overlap |
| `Session` receive, `PacketSession` | `_connected`, `_recvEvent`, a local `processLen` | `RegisterRecv`, `ProcessRecv`, `OnRecv`, `Disconnect`, `HandleError` | completions, callbacks | packets cut anywhere; zero-length completions; another thread disconnects | each packet is delivered once, whole, in order; a healthy connection is never ended |
| `Session` send | `_sendQueue`, `_sendRegistered`, `_sendEvent` | `Send`, `RegisterSend`, `ProcessSend` | any thread, completions | one event, no lock: the flag elects; lost wakeups; failing sends | one user of the event; nothing reordered, repeated or left behind |
| `Session` life, `Listener`, `Service`, `IocpCore` | sessions, counts, events' owners | accept, connect, disconnect, add, release | completions, `shared_ptr` | callbacks inside failing calls; asserts with effects | a session is registered exactly while connected |
| `GameSession`, `GameSessionManager` | `player`, `gameRoom`, the session set | `OnConnected`, `OnDisconnected` | callbacks | disconnect inside connect | in the room exactly while connected and alive |
| `GameRoom`, `GameObject`, `Player`, `Monster` | `_players`, `_monsters`, each `info`, `_target`, `_waitUntil` | `EnterRoom`, `LeaveRoom`, `Handle_C_Move`, `Update` | broadcasts | what changes silently; stale decisions; deaths | every client is told every change; only blows hurt; the dead leave |
| Client: `DevScene`, `MyPlayer`, `Creature`, `ClientPacketHandler` | actors, `info` copies, `_dirtyFlag` | packet handlers, `Tick`, `SyncToServer` | packets both ways | prediction against echo; blows counted twice; a flag cleared each tick | agrees with the room once nothing is on the way |
| Tilemap | tiles | load | a text file | two formats | each tile is as drawn |
| Rendering, sound, resources, UI | assets | draw | - | - | out of scope |
| Protobuf | - | encode, parse | - | vendored | out of scope |

`PROJECT.json` lists every component with its status and every hazard with the
properties aimed at it.

## 2. Modules

| Module | What it is |
|---|---|
| `RecvBuffer` | cursor arithmetic of `ServerCore/RecvBuffer` |
| `PacketSession` | receive side and framing of `ServerCore/Session.cpp`, on top of `RecvBuffer`, with the peer's TCP stream |
| `PacketChannel` | abstract: a channel that delivers whole packets in order |
| `SendPath` | send side of `ServerCore/Session.cpp` by several threads, with the kernel |
| `OutboundStream` | abstract: what was pushed is transmitted without gap, repetition or reordering |
| `GameRoom` | the room, its objects and what each session was told |
| `SessionLife` | the server's sessions from accept to destruction: `Listener`, `Service`, `Session`, `GameSession`, `GameSessionManager` and the room's broadcasts, with their nested calls |
| `ClientPlay` | the clients' scenes composed with `GameRoom` through the packets on their way |
| `FindPath` | the path search of `GameRoom` and `DevScene` |
| `Tilemap` | the map as `LoadFile` reads it |
| `Chase` | a monster that follows the paths of `FindPath` over a map of `Tilemap` |
| `MC*` | values of the constants for TLC |
| `PacketSessionProofs`, `SendPathProofs`, `GameRoomProofs`, `FindPathProofs`, `SessionLifeProofs`, `ClientPlayProofs` | theorems about the module of that name |
| `SessionLifeFreedProofs` | on top of `SessionLifeProofs`: what may be freed under its own method |

Definitions named `X_Something` after a comment "Seeded fault" are wrong
versions of the definition `X` that follows them. Nothing uses them; put in the
place of `X`, each makes the property named beside it in `PROJECT.json` fail,
which shows that the property depends on the code being as it is.

### RecvBuffer and PacketSession

A byte is its position in the peer's stream: that is all the framing can tell
apart. `arrived` counts the bytes the kernel has handed over, so "the buffer is
faithful" is one equation (`BufferHoldsStream`). `pc` says where the one
receive path of a session is: `posted` (a `WSARecv` is outstanding), `framing`
(the loop of `OnRecv`, one turn per step), `cleaning` (before `Clean` and
`RegisterRecv`), `idle` (no receive outstanding and none to come). The loop is
in steps because `OnRecvPacket` runs arbitrary code, and another thread may
disconnect meanwhile (`DisconnectElsewhere`).

- `PeerSends`, `PeerEnds`: the peer writes packets of any legal size, closes, or resets.
- `RecvCompletes(n)`: any number of bytes that the posted length and the stream allow.
- `RecvZero`: a completion with 0 bytes, for each reason there is for one.
- `DeliverPacket`, `EndFraming`: the loop, then `OnRead` and its error path.
- `CleanAndRegisterRecv`: `Clean`, then the outcomes of `RegisterRecv`.

Assumption: a packet's size field counts the header and is at least its size
(what `MakeSendBuffer` writes), and packets fit `BUFFER_SIZE` (a 16-bit size
against 0x10000). `TransientErrors` says whether `WSARecv` may fail with an
error that `HandleError` only logs.

### SendPath

A step is what runs between two points where another thread can tell the
difference: the locked block of `Send` (push and exchange), the test of
`IsConnected`, the locked loop that drains the queue, `WSASend`, the `clear`
and the `store(false)` of the failure path, a completion (`owner` and buffers
cleared), its locked block. `overlapped` is the kernel's view of the one event:
free, pending, or completed and not yet dispatched. A completion may be
dispatched by any idle thread as soon as it is there. `wire` and `pushed` are
the history the abstract stream talks about.

### GameRoom

The server's main loop is one thread, so a handler is one step, including all
it calls: `Handle_C_Move` with `ProcessSkill`, `ApplyDamage`, a death and the
broadcasts in their order. `objects` is `_players` and `_monsters` together, a
function on the ids present. `told[s]` is what session `s` knows if it applies
every message it was sent in order; the operators `TellAdd`, `TellRemove` and
`TellMove` are the three broadcasts, to the players in the map at that moment.

- `EnterRoom`, `LeaveRoom`: connect and disconnect. A session connects once
  (a new connection is a new session), so it also names its player.
- `Handle_C_Move`: for every report a client can make from what it last
  reported (`ClientMoves`, after `MyPlayer.cpp`). The reported cell may be
  occupied on the server, because an `S_Move` can be under way. `Handles(s, pkt)`
  is the handler for one packet; `ClientPlay` gives it real ones.
- `UpdateIdle`, `UpdateMove`, `UpdateSkill`: the monster.

Abstractions: names and types of objects are left out; `maxHp` is a constant
per kind, as every client reports 100; ties of `FindClosestPlayer` are open;
the path is "any free adjacent cell, or none"; a delay takes any time. A
`WSASend` that fails inside a handler is not in this module but in
`SessionLife`.

### ClientPlay

`ClientPlay` extends `GameRoom` with what its clients do and with the packets
between them: `toServer[s]` are the `C_Move`s of a client on their way,
`toClient[s]` the server's packets, `scene[s]` the creatures in the actor list
of its `DevScene` (empty before `S_MyPlayer`). Every step of the server is an
action of `GameRoom` conjoined with the packets it takes and sends:
`ServerReceives` handles a real report, `Enters`, `Leaves` and `RoomUpdates`
are the others.

- `Frame(s)`: `Scene::Update`. All actors tick; `Inputs` is what keys can do to
  an idle own player (`TickInput`, then `TryMove`, which may turn a skill that
  has just started into a move), `EndsMove` and `EndsSkill` the ends of what it
  does, `MonsterTicks` the blow of the client's monster. The tick sets the
  dirty flag anew, and `SyncToServer` sends the whole `info` if it is set.
- `ClientReceives(s)`: one packet through `ClientPacketHandler`. The own player
  takes over stats only (`Handle_S_Move`).
- `OnDamaged`: the client's own count of blows. Its sword strikes whoever is in
  front at the end of the animation, the server's only the monster and at the
  beginning.

The clients in `Watched` are modelled; the other sessions report what
`GameRoom` lets a client report. `RoomSpec` shows that the modelled clients do
no more than that either, so what is checked of `GameRoom` with invented
reports holds with real ones. Where an actor is drawn on its way between two
cells is left out, and so are projectiles and hit effects, which hurt nobody.

### SessionLife

The server has one thread, but its calls nest: `Broadcast` calls `Send`, which
calls `WSASend`, whose failure runs `HandleError`, `Disconnect`,
`OnDisconnected`, `LeaveRoom`, `RemoveObject`, and `Broadcast` again. So a
handler is not one step here. `todo` is the list of calls the handler has left
to make; a step takes the first and puts what it calls in front, which is the
order of a call stack. `Loop(s, left)` is the loop of `Broadcast` standing at
the entry of `s`: if that entry is erased meanwhile (`BroadcastIsLost`) the
behaviour is undefined and the model stops there.

- `ProcessAccept`, `RegisterAccept`: `Listener`, with the failures of both.
- `ProcessConnect`, `OnConnected`, `EnterRoom`, `AddObject`: entering.
- `Send`, `RegisterSend`, `SendRefused`, `SendReleases`, `ProcessSend`: sending.
- `RegisterRecv`, `RecvRefused`, `RecvPackets`, `RecvZero`: receiving.
- `Disconnect`, `OnDisconnected`, `ReleaseSession`, `RegisterDisconnect`,
  `ProcessDisconnect`: leaving.
- `Update`: the monster's turn, which broadcasts and may kill a player.

`owner[s]` are the events of `s` whose `owner` is set, `kernel[s]` the
operations the kernel still has; `Referenced` lists every `shared_ptr` to a
session the code keeps. A line may break at any time; as this is seen only by
the calls that look at the line, the model lets it break just before those
(`LooksAt`), which leaves out no behaviour. Messages have no content here; that
is `GameRoom`'s subject. A session number is used once: `CreateSession` makes a
new object, and the sockets are not reused.

### FindPath

`best`, `parent` and the queue are the code's; a step takes one node off the
queue. Which of several entries of equal cost the queue gives is left open. The
search is called between occupied cells, the monster's own and its target's, so
`CanGo` holds of neither: unless they are the same cell the goal is never
entered, and the path leads to the closest cell that was seen (`Fallback`).
The checks compare with a reference: the cells that can be reached within the
range, computed as a fixed point.

### Tilemap and Chase

`LoadTile` is the body of the loop of `Tilemap::LoadFile` over the digits of a
file. The maps of the game have one digit a tile; the second half of the newer
format is missing, and a tile is walkable if its value is 0. `Chase` is one
monster on such a map and a player who stands still: `Start` of `FindPath` is
the call of the search from the monster's cell, `Follow` takes the step
`path[1]` and searches again.

## 3. Properties and runs

| Run | Instance | Shows |
|---|---|---|
| `receive` | buffer 3 x 3 bytes, header 2, packets of 2 or 3 bytes, 5 packets, any error | `BufferHoldsStream`, `RoomToReceive`, `CopyIsDisjoint`, `HeaderIsAligned`, `EndsForAReason`; the session implements `PacketChannel`; every packet arrives unless the session ends or goes deaf |
| `send` | 3 threads, 5 sends, no transient error | one user of the event, no lost wakeup, stable buffers, everything queued leaves or the session ends, and that the session implements `OutboundStream` |
| `send_faults` | the same with transient errors | still one user, still no reordering, and nothing lost but in a batch that `WSASend` refused or failed (`OnlyTheRefusedAreLost`) |
| `room` | 2 sessions, a 5-cell map, 2 reports, a monster of 15 hp | every change is told (`Replicated`), only blows hurt (`EveryWoundIsABlow`), the dead leave (`TypeOK`), a cornered target is struck (`CorneredIsHit`) |
| `client` | 2 sessions of which one has its client, a corridor of 3 cells, 3 reports, 1 of the other | the own player and the copies agree with the room when nothing is on the way (`OwnPlayerInStep`, `CopiesAgree`), come to agree for good (`ComesIntoStep`), and the client keeps to `GameRoom` (`RoomSpec`) |
| `life` | 2 accept events, 4 sessions, 2 packets in a receive, any error | the lists agree with the connections, each session is released once, every event accepts again; a session is freed under its own method in one way only (`FreedByRefusedSendOnly`) |
| `life_end` | 1 accept event, 3 sessions, 1 packet in a receive, no transient error | no use after free; a connected session listens; sessions whose line went down are disconnected and released |
| `path` | every 3 x 3 map, range 4 | the path can be walked and ends as near the target as possible; the search ends |
| `client_vanishes` | 1 session, the same corridor, the sword | violated: a monster that lives on vanishes from the scene |
| `life_ghosts` | 1 accept event, 3 sessions | violated: an ended session enters the room |
| `life_broadcast` | the same | violated: a broadcast loses its iterator |
| `chase_circles` | a map of 6 x 6, the real range of 10 | violated: the monster goes to and fro for ever |

**Bounds.** Receive: with 9 bytes of capacity and more stream than that, the
cursors reach the end, compaction happens with every remainder a packet can
leave, and the buffer is rewound and reused; packets of 2 bytes (header only)
and 3 (a full `BufferSize`) are the two extremes. Send: with 3 threads one can
drain, one queue and one dispatch at the same time; 5 sends fill the queue
again while a batch is under way. Room: two sessions are an actor and a
witness, or two targets; two reports are enough to turn and strike or to walk
up and strike, and a monster of 15 hp dies of one blow of the sword and survives
one of the bow (12); a player of 2 hp survives one
blow of the monster with the sword's defence and none with the bow's; the
corridor has a branch so that the monster has a choice; `MaxDepth` 3 makes the
far end of it out of sight. Client: `Keys` is one direction key, which is enough
to walk up to the monster, stand before it and strike; `MaxPending` 1 says that
the server starts no broadcast while a watched client has a packet waiting,
except those of entering and leaving, so a client has up to five packets before
it; the reports on their way are bounded by `MaxMoves` only, so
an echo can be two reports old; `PlayerHp` 1 makes the client's early death of
its own player a case, 25 hp of the monster the blow that only one side counts. With 1 hp no player is
ever wounded and alive, so what `CopiesAgree` and `OwnPlayerInStep` say of hp is
tried on the monster; the proofs cover every hp.
One client is modelled at a time: two would interact through the room only, and
the other session's reports are a superset of a client's. Life: with 4 sessions on 2 accept events two can be
connected, each failing inside the other's handler, while their successors
wait; further ones repeat the pattern of the nested broadcast. Two packets in
one receive let the second find its session already disconnected. `life_end`
has two sessions connected at a time and a third to come. Path: 3 x 3 holds
every way around a wall of one cell, and a range of 4 cuts off opposite
corners. Chase: one map; the map's ties do not matter, no order of the queue leads
out of the circle. Threads and accept events are symmetric;
symmetry is not used in liveness runs.

**Deadlock.** Not checked: a peer that has closed, a system with nothing left
to send, a room that has used up its reports, a server that has used up its
sessions and a search that has ended stop legitimately. What must
not stop is stated as liveness.

**Fairness.** `PacketSession`: the kernel completes a receive that has data or
an end, and a worker that took a completion finishes its handler. `SendPath`:
each thread goes on with the handler it is in, the kernel completes what was
posted, and some thread dispatches completions, as the loops in `Server.cpp`,
`NetworkManager.cpp` and `DummyClient.cpp` do. `GameRoom`: `Update` runs after
every `Dispatch(0)`. `ClientPlay`: both ends go on dispatching what has arrived; no
fairness is needed of the frames. `Chase`: updates go on and delays pass.
`SessionLife`: a handler runs on to its end, and the
completion port hands out completions in the order they came, so that none
waits for ever though the server goes on with other handlers in between (strong
fairness, as a completion can be dispatched only between handlers). `FindPath`:
a loop runs on. No fairness is assumed of peers, players or disconnects.

### What the violated runs say

- `README.md:41` says the client's scene is updated from the server's packets.
  It is also updated by the client's own count of blows: the sword's blow that
  the server has counted when the skill began and announced (25 hp, then 10) is
  counted again when the animation ends (10, then none), `OnDamaged` takes the
  monster out of the scene, and as `S_Move` is ignored for an object that is
  not there, it stays invisible while it walks and strikes.
- `README.md:27` says that the monster tracks a player with a path search. The
  range of `FindPath` is ten cells around the monster's present cell, and the
  search starts anew after every step. In the run's map the way round lies
  within the range of one cell and not of its neighbour, from which the closest
  cell to the player is back in the dead end. On the map that is shipped,
  `Tilemap_01.txt`, the same happens for 406 of about 119,700 pairs of cells
  within the range, for example with the monster at (21, 35) and a player who
  stays at (24, 30) (found by running the search outside of TLC).
- `README.md:19` lists players entering and leaving; when the first `Send` of
  `OnConnected` fails, the session leaves first and enters afterwards, and its
  player stays as a ghost.
- `README.md:54` again: a `Send` that fails inside the loop of `Broadcast`
  erases the entry the loop stands at.

One more consequence of the code is not counted as a difference: a player that
dies is taken out of `_players` before `Broadcast` walks it, so its own session,
still connected, is told neither of the death nor of anything later.

Two more differences need no model to be seen: `README.md:27` says the monster
tracks the closest player, and `UpdateIdle` (`Monster.cpp:44`) keeps its first
target; the comment at `DevScene.cpp:459` explains the search with `F = G + H`,
and the code uses `H` alone, so a path may be a detour.

## 4. Proofs

All for every value of the constants that the modules' assumptions allow.

**Receive side** (`PacketSessionProofs`). The invariants the runs check are not
inductive. `IInv` adds where the stream and the cursors stand to one another:
the bytes between the cursors are the last received, the read cursor stands at
the start of the next packet to deliver, packets lie end to end in the stream,
what was delivered is a prefix of what was sent, and, outside of the handler,
less than one packet is left in the buffer. From the last fact follow the two
arithmetic results: after `Clean` there is room for `BufferSize` bytes
(`RoomIsKept`), and what `memcpy` moves is shorter than the distance it moves
(`CopiesAreDisjoint`; this needs `BUFFER_COUNT >= 3`, the code has 10).
`ImplementsChannel` maps `PeerSends` to `Send`, `DeliverPacket` to `Deliver`,
and every other step to a stutter.

**Send side** (`SendPathProofs`). `ElectionInv` says that whoever uses the
event, a thread or the kernel, is alone and holds the flag; it gives
`EventHasOneUser` and `PostedBuffersAreStable`. `QueueIsWatched` adds that a
clear flag means an empty queue. `ImplementsStream` needs the pieces: the wire
is an initial segment of what was pushed, the queue a final one, and the batch
lies exactly between them as long as the session can still transmit.

`NeverDeaf`, `QueueIsWatched` and `ImplementsStream` assume `TransientErrors =
FALSE`: with such errors the code does leave a session without a receive, or
drops a batch (`Session.cpp:204`, `:304`). `Deaf` names the first case;
`PacketsArrive`, which is checked with such errors, excepts it, and `NeverDeaf`
is why it needs them.

**Room** (`GameRoomProofs`). The map is any set of cells and there are any
number of sessions; hp, the range of the search and the budget of moves are any
numbers. `TypeOK`, which says as well that no dead object is in the room, is
inductive as it stands. `Replicated` is inductive where `TypeOK` holds, but a
handler changes the room and what was told in several parts: a report is
copied, the blow it gives is announced, and only then is the report itself
echoed. So both invariants are stated of a room and views given as arguments:
`Living` and `ViewsOK` are the parts of `TypeOK`, and `KnownBut(world, views,
x)` says that every player knows all but, maybe, `x`, the object that is still
to be announced. Each part of a handler (`With`, `TellMove`, `ApplyDamage`, ...)
has a lemma on these, and each handler chains them. `EveryWoundIsABlow` needs
`TypeOK` only: per handler either nobody is wounded (`NoWound`) or the one
`ApplyDamage` of the handler is reached under the guard the property names.
The proof of `Replicated` depends on the one omission of the code that
`Announced` excepts: `UpdateMove` sets the monster idle without a broadcast.

**The order of the stream** (`SendPathProofs`, `BuffersKeepTheirOrder`).
`NeverReordered` speaks of what left, what is posted and what is queued, laid
end to end (`Pipeline`). It holds with any error, unlike `ImplementsStream`:
dropping a batch leaves a gap but keeps the order. Each step moves a piece of
the pipeline, appends to its end a number larger than all before it, or takes a
part out; a subsequence of an increasing sequence is increasing.
`LossIsConfined` is the other half: what leaves the pipeline without having
been transmitted is the batch, when the thread that was refused, alone at the
event, clears it (`Session.cpp:204`), or when a failed completion does. What is
queued meanwhile stays. That the batch is dropped is the code's choice, and a
gap in the stream; neither property forbids it.

**The path search** (`FindPathProofs`). The map is of any size, the range any
number. Two facts carry the proof. The parents form a tree: the cells seen can
be numbered (`Ranks`) so that each parent but the start's has a smaller number
than its child, which is why the walk back ends at the start and meets no cell
twice. And the frontier is complete: a cell that has been seen and is no longer
queued has all its neighbours within the range seen (`FrontierInv`), so when
the queue is empty what was seen is what can be reached. `Back` and `Reachable`
are recursive functions; what is said of all their values is proved by
induction over a set of numbers (`SetInduction`, from the well-foundedness of
`<`), which needs no operator as a parameter. What `SearchEnds` needs besides
fairness is proved too: a running search has a step (`SearchNeverStalls`), and
each step ends it or expands a cell for the first time
(`NoCellIsExpandedTwice`).

**Session life** (`SessionLifeProofs`). Any number of sessions, slots and
packets, and calls nested to any depth. `todo` is a sequence, but the proof
reads it as a set: `Pending` are the calls left to make, `Later` those under
the next one. Two facts about the stack make that enough (`StackInv`): calls
that are made as soon as they are put there never lie under another one, and of
some groups (what is left of a `WSASend` or of a `WSARecv`, the release, the
new `AcceptEx`) at most one is left for a session, so that when it is made none
remains (`Unique`). `Turns` says of a step which calls go and which come; each
of the 27 actions has a lemma that derives it and then the parts of the
invariant:

- `ListInv`: a session is in the service's list while it is connected or its
  `ReleaseSession` is still to come, and likewise in the manager's; this gives
  `ListsAreExact` and `ReleasesAreOfListed`.
- `EventInv`: no event is posted while what is left of its last post is on the
  stack; the flag `_sendRegistered` is set meanwhile.
- `SlotInv`, `UsedInv`: a slot is posted or its `RegisterAccept` is on the
  stack, and nobody knows the session it waits with (`SlotsAreOpen`).
- `HeldInv`: whose method is left to be called is held by the handler that
  runs, or by its receive event; a broadcast sends to players, who hold their
  sessions. This gives `NothingIsUsedAfterFree`, and `ReceivesArePosted`.

The last two assume `TransientErrors = FALSE`, and are false without (section
5). The rest holds with any error, also that what only its own handler calls
for a session is called while that handler holds it (`HeldCalls`).
`EnterRoom`, entered by a session that has already left, does not break any
of this; that is why `life_ghosts` had to be found with a property of its own.
Where a broadcast loses its iterator (`life_broadcast`) the behaviour of the
program is undefined and the model stops; the theorems speak of what comes
before.

**Freed under its own method** (`SessionLifeFreedProofs`). With any error,
`FreedByRefusedSendOnly` says that a session which nothing references any more
has no method left to run but the last part of `RegisterSend`, and that only as
the next call. Here the order of the stack matters: `Refuses` puts `Disconnect`
above `SendRefused`, and until that is made the send event holds the session
(`RefusedOwns`). So every method on the stack is the running handler's, or has
the `SendRefused` of its session beneath it (`Guarded`, for all calls but the
next); the next one may also be the `Send` of a broadcast, to a player, who
holds his session, or the `SendReleases` that the property excepts (`Met`).
Undoing the send before `HandleError` is called, the seeded fault
`Refuses_UndoesFirst`, breaks it.

**Clients** (`ClientPlayProofs`). Any number of clients and of packets on their
way. The invariant says of every watched session (`Session`) how the two queues
connect the scene to the room:

- `Opening`: nothing comes before `S_MyPlayer`, and the client sends nothing
  until it has come.
- `Chain`: the reports on their way lead by legal moves (`ClientMoves`) from
  what the room last took over to what the own player is now. Since the own
  player takes nothing but stats over from an echo, the chain is never broken;
  so each report the room receives is one it allows, which is the refinement
  `ClientsRefineRoom`. By it the theorems about `GameRoom` hold of the room
  with real clients (`ClientsRoomIsReplicated`).
- `Queue`: the last packet on its way about an object tells what the room holds
  of it; if there is none,
- `Copies`: what the scene shows is what the room holds, but for hp that the
  client's own count has taken. `OwnPlayersInStep` and `CopiesAreTrue` are the
  case of empty queues.

That the packets sent by one handler tell all that it changed is the lemma
`BroadcastIsTold`, on `Tells`; the object's state and direction may change
without a packet (`UpdateMove`), so they are not part of it.

`ClientPlayAssumption` says that the sword, which a new player has, is among
the weapons (`Attacks`) that an instance lets players use: a client reports
what it holds.

**Only model-checked:** the liveness properties (`PacketsArrive`,
`EverythingLeaves`, `CorneredIsHit`, `ComesIntoStep`, `SearchEnds`,
`SessionsAreReleased`), since liveness under fairness and `ENABLED` are beyond
the prover, and `Chase`, whose one property is refuted. Every invariant and
every action property of the passing runs is a theorem.

## 5. Not modelled, and the plan

`NoUseAfterFree` and `Listens` are checked without transient errors. With them,
a session whose receive was refused is deaf, and if its last reference is the
event of a send that is refused too, `Session.cpp:203` drops that reference and
lines 204 and 205 write to the members of a destroyed session: the model shows
it when `TransientErrors` is set to `TRUE` in `SessionLifeEnd.cfg`.
`FreedByRefusedSendOnly`, checked with such errors and proved, says that this is
the only place. It and `PacketsArrive`, which excepts the deaf session, say how
far these two faults reach and do not forbid them; so `PROJECT.json` lists no
property for the hazards themselves (`Session.cpp:203`, `:304`).

To come, in this order:

1. More to prove: the safety half of the other liveness properties, as has been
   done for the path search: that a handler of `SessionLife` ends (each
   `Disconnect` nested in a broadcast takes a connected session, so there are
   only so many), and that a receive or a batch under way can go on.
2. The client's side of the connection: `ClientService::Start`, `ConnectEx` and
   its failure, which `ProcessConnect` takes for a success.
3. Packet sizes of 16 bits.

`GameSessionManager::Broadcast` is not modelled, since nothing calls it.

A build with `NDEBUG` removes the calls inside `assert` (`Service.cpp:46`,
`Server.cpp:28`); the models follow the build with asserts.

Not planned: Win32 wrappers, rendering, sound, resources, UI, the thread manager
and logging (without state that the game depends on), `EditScene` and
`Tilemap::SaveFile` (not reached by the game), and protobuf: its headers, its
own tests and the messages generated with it are some 665,000 of the 674,000
lines under `src/`. The game's own code has about 8,600 lines, so the share of
all lines that the models cover says little.
