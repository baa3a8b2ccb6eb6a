------------------------------ MODULE ClientPlay ------------------------------
(***************************************************************************)
(* Clients that play in the room: the scene of each Win32 client           *)
(* (Client/GameCoding: MyPlayer, Player, Monster, Creature, DevScene,      *)
(* ClientPacketHandler) composed with GameRoom through the packets on      *)
(* their way in both directions.                                           *)
(*                                                                         *)
(* A client is one thread: a frame ticks every actor of the scene, then    *)
(* dispatches what has arrived.  A frame's ticks are one step, a packet    *)
(* another; any number of either may come before the next of the other.    *)
(* The server's steps are those of GameRoom, which reads its inputs from   *)
(* the packets here and whose broadcasts are packets here.                 *)
(*                                                                         *)
(* Left out, because nothing but drawing depends on it: where an actor is  *)
(* drawn between two cells, when a copy of another creature ends a step,   *)
(* the animations, the projectiles and the hit effects (they hurt nobody). *)
(*                                                                         *)
(* The clients in Watched are modelled; the other sessions report whatever *)
(* GameRoom lets a client report.                                          *)
(***************************************************************************)
EXTENDS GameRoom, Sequences, FiniteSetsExt

CONSTANTS
  Watched,       (* the sessions whose client is modelled                  *)
  Keys,          (* bound: the direction keys the players use              *)
  OtherMoves,    (* bound: the reports handled before the sessions that are*)
                 (* not watched stop reporting                             *)
  MaxPending     (* bound: packets on their way to a client at which the   *)
                 (* server stops adding to them                            *)

ASSUME ClientPlayAssumption ==
  /\ Watched \subseteq Sessions
  /\ Keys \subseteq Dirs
  /\ NewPlayer.attack \in Attacks
  /\ OtherMoves \in 0 .. MaxMoves
  /\ MaxPending \in Nat \ {0}

VARIABLES
  toServer,      (* of each session: the C_Move packets on their way       *)
  toClient,      (* of each session: the S_ packets on their way           *)
  scene          (* of each session: the creatures in the actor list of its*)
                 (* DevScene, id -> info                                   *)

room     == vars
playVars == <<vars, toServer, toClient, scene>>

-----------------------------------------------------------------------------
(* The packets of the server                                               *)

S_MyPlayer(s, info)  == [type |-> "S_MyPlayer", id |-> s, info |-> info]
S_AddObject(infos)   == [type |-> "S_AddObject", infos |-> infos]
S_RemoveObject(o)    == [type |-> "S_RemoveObject", id |-> o]
S_Move(o, info)      == [type |-> "S_Move", id |-> o, info |-> info]

(* Broadcast queues packets for every player that is in the map once the   *)
(* handler is over.                                                        *)
Broadcast(packets) ==
  toClient' = [s \in Watched |-> IF s \in Players(objects')
                                 THEN toClient[s] \o packets ELSE toClient[s]]

(* What ApplyDamage has told of a victim.                                  *)
Damage(o) ==
  IF o \notin DOMAIN objects THEN <<>>
  ELSE IF o \notin DOMAIN objects' THEN <<S_RemoveObject(o)>>
  ELSE IF objects'[o].hp # objects[o].hp THEN <<S_Move(o, objects'[o])>>
  ELSE <<>>

-----------------------------------------------------------------------------
(* A frame of a client.  Scene::Update ticks a copy of the actor list: an  *)
(* actor that another removes is gone for the others at once, but still    *)
(* ticks in this frame.                                                    *)

Present(frame) == DOMAIN frame.actors \ frame.gone

SetActor(frame, o, info) == [frame EXCEPT !.actors[o] = info]

(* Creature::OnDamaged: the client hurts its copy by itself, and takes it  *)
(* out of the scene when no hp is left.                                    *)
HpLeft(frame, attacker, victim) ==
  LET damage == attacker.attack - frame.actors[victim].defence
      hp     == frame.actors[victim].hp - (IF damage <= 0 THEN 1 ELSE damage)
  IN  IF hp < 0 THEN 0 ELSE hp

(* Seeded fault: a creature without hp stays.                              *)
OnDamaged_LeavesTheDead(frame, attacker, victim) ==
  [frame EXCEPT !.actors[victim].hp = HpLeft(frame, attacker, victim)]

OnDamaged(frame, attacker, victim) ==
  LET hp == HpLeft(frame, attacker, victim)
  IN  IF hp = 0
      THEN [actors |-> [frame.actors EXCEPT ![victim].hp = 0], gone |-> frame.gone \cup {victim}]
      ELSE [frame EXCEPT !.actors[victim].hp = hp]

(* GetCreatureAt gives the first creature of the cell in drawing order.    *)
StrikesFront(frame, attacker) ==
  LET there == {o \in Present(frame) :
                  frame.actors[o].pos = GetFrontCell(attacker.pos, attacker.dir)}
  IN  IF there = {} THEN {frame} ELSE {OnDamaged(frame, attacker, o) : o \in there}

(* Player::TickSkill at the end of the animation: only the sword strikes;  *)
(* an arrow or a staff's projectile hurts nobody.                          *)
EndsSkill(frame, p) ==
  LET me     == frame.actors[p]
      struck == IF me.attack = 15 THEN StrikesFront(frame, me) ELSE {frame}
  IN  {SetActor(f, p, [f.actors[p] EXCEPT !.state = "idle"]) : f \in struck}

(* MyPlayer::TickMove at the end of the way.                               *)
EndsMove(frame, s) == [frame EXCEPT !.actors[s].state = "idle"]

(* MyPlayer::TickInput and TryMove: the keys turn it, change its weapon    *)
(* and start a skill, and with a direction key down it goes to the next    *)
(* cell if that is free in its own scene, even when it has just started a  *)
(* skill.                                                                  *)
FreeInScene(frame, cell) ==
  cell \in Walkable /\ \A o \in Present(frame) : frame.actors[o].pos # cell

Pressed(frame, s, turn, attack, space) ==
  LET weapon == ResolveWeaponStat(attack)
      armed  == [frame.actors[s] EXCEPT !.attack = weapon.attack, !.defence = weapon.defence,
                                        !.dir    = IF turn = "none" THEN @ ELSE turn,
                                        !.state  = IF space THEN "skill" ELSE @]
      next   == GetFrontCell(armed.pos, armed.dir)
  IN  SetActor(frame, s,
        IF turn # "none" /\ FreeInScene(frame, next)
        THEN [armed EXCEPT !.pos = next, !.state = "move"] ELSE armed)

(* An own player that is idle reports also when it turned to where it      *)
(* looked already: SetDir always sets the flag.                            *)

(* Seeded fault: a change of weapon alone does not set it.                 *)
Inputs_WeaponIsClean(frame, s) ==
  {[frame |-> Pressed(frame, s, turn, attack, space), dirty |-> turn # "none" \/ space] :
     turn \in Keys \cup {"none"}, attack \in Attacks \cup {frame.actors[s].attack},
     space \in BOOLEAN}

Inputs(frame, s) ==
  {[frame |-> Pressed(frame, s, turn, attack, space),
    dirty |-> \/ turn # "none" \/ space
              \/ attack # frame.actors[s].attack] :
     turn \in Keys \cup {"none"}, attack \in Attacks \cup {frame.actors[s].attack},
     space \in BOOLEAN}

(* What a player may do in a tick, and whether its flag is set after it;   *)
(* to be still on its way is to do nothing.                                *)
PlayerTicks(frame, s, p) ==
  LET me == frame.actors[p]
  IN  CASE me.state = "idle"  -> IF p = s THEN Inputs(frame, s) ELSE {}
        [] me.state = "move"  -> IF p = s THEN {[frame |-> EndsMove(frame, s), dirty |-> TRUE]}
                                 ELSE {}
        [] me.state = "skill" -> {[frame |-> f, dirty |-> TRUE] : f \in EndsSkill(frame, p)}

(* Monster::Tick: a skill strikes at once, since _waitSeconds is never set *)
(* for a skill that the server started.                                    *)
MonsterTicks(frame) ==
  LET me == frame.actors[TheMonster]
  IN  IF TheMonster \in DOMAIN frame.actors /\ me.state = "skill"
      THEN {[f EXCEPT !.actors[TheMonster].state = "idle"] : f \in StrikesFront(frame, me)}
      ELSE {frame}

(* The actors tick in drawing order, so the monster may come before or     *)
(* after a player; two players that end something in the same frame are    *)
(* taken in two.                                                           *)
FrameEnds(s) ==
  LET start == [actors |-> scene[s], gone |-> {}]
      playerFirst(p) ==
        UNION {{[frame |-> f, dirty |-> t.dirty /\ p = s] : f \in MonsterTicks(t.frame)}
                 : t \in PlayerTicks(start, s, p)}
      monsterFirst(p) ==
        UNION {{[frame |-> t.frame, dirty |-> t.dirty /\ p = s] : t \in PlayerTicks(f, s, p)}
                 : f \in MonsterTicks(start)}
  IN  {[frame |-> f, dirty |-> FALSE] : f \in MonsterTicks(start)}
      \cup UNION {playerFirst(p) \cup monsterFirst(p) : p \in Players(scene[s])}

(* MyPlayer::SyncToServer sends the whole info of the own player when its  *)
(* tick has set the flag.  Ticks clear the flag before anything else, so   *)
(* what a packet or another actor has changed meanwhile is not sent.       *)
Report(info) ==
  [state |-> info.state, dir |-> info.dir, pos |-> info.pos, attack |-> info.attack]

(* Bound: the reports sent, in all, of those that were not dropped.        *)
Reported == moves + MapThenSumSet(LAMBDA s : Len(toServer[s]), Watched)

(* Seeded fault: the end of a move or a skill is not sent.                 *)
SyncToServer_BusyOnly(s, end) ==
  IF end.dirty /\ end.frame.actors[s].state # "idle"
  THEN [toServer EXCEPT ![s] = Append(@, Report(end.frame.actors[s]))] ELSE toServer

SyncToServer(s, end) ==
  IF end.dirty
  THEN [toServer EXCEPT ![s] = Append(@, Report(end.frame.actors[s]))] ELSE toServer

(* Scene::Update.                                                          *)

Frame(s) ==
  /\ scene[s] # Nothing
  /\ \E end \in FrameEnds(s) :
       /\ end.dirty => Reported < MaxMoves
       /\ scene' = [scene EXCEPT ![s] = [o \in Present(end.frame) |-> end.frame.actors[o]]]
       /\ toServer' = SyncToServer(s, end)
  /\ UNCHANGED <<room, toClient>>

-----------------------------------------------------------------------------
(* ClientPacketHandler                                                     *)

Handle_S_AddObject(view, s, infos) ==
  [o \in DOMAIN view \cup (DOMAIN infos \ {s}) |-> IF o \in DOMAIN infos \ {s}
                                                   THEN infos[o] ELSE view[o]]

(* An object that is not in the scene is not moved.  The own player takes  *)
(* over its stats, with them the weapon, but not where it is.              *)

(* Seeded faults: it takes over where it is, too; all that move are left   *)
(* where they are.                                                         *)
Handle_S_Move_Everything(view, s, o, info) ==
  IF o \notin DOMAIN view THEN view ELSE With(view, o, info)

Handle_S_Move_StatsOnly(view, s, o, info) ==
  IF o \notin DOMAIN view THEN view
  ELSE With(view, o, [view[o] EXCEPT !.hp = info.hp, !.attack = info.attack,
                                     !.defence = info.defence])

Handle_S_Move(view, s, o, info) ==
  IF o \notin DOMAIN view THEN view
  ELSE IF o = s
  THEN With(view, s, [view[s] EXCEPT !.hp = info.hp, !.attack = info.attack,
                                     !.defence = info.defence])
  ELSE With(view, o, info)

Received(view, s, pkt) ==
  CASE pkt.type = "S_MyPlayer"     -> With(view, s, pkt.info)
    [] pkt.type = "S_AddObject"    -> Handle_S_AddObject(view, s, pkt.infos)
    [] pkt.type = "S_RemoveObject" -> Without(view, pkt.id)
    [] pkt.type = "S_Move"         -> Handle_S_Move(view, s, pkt.id, pkt.info)

ClientReceives(s) ==
  /\ toClient[s] # <<>>
  /\ scene' = [scene EXCEPT ![s] = Received(@, s, Head(toClient[s]))]
  /\ toClient' = [toClient EXCEPT ![s] = Tail(@)]
  /\ UNCHANGED <<room, toServer>>

-----------------------------------------------------------------------------
(* The steps of the server, with their packets                             *)

MayBroadcast == \A s \in Watched : Len(toClient[s]) < MaxPending

Enters(s) ==
  /\ EnterRoom(s)
  /\ LET added == S_AddObject([o \in {s} |-> objects'[s]])
     IN  toClient' = [x \in Watched |->
           IF x = s THEN <<S_MyPlayer(s, objects'[s]), S_AddObject(objects), added>>
           ELSE IF x \in Players(objects') THEN Append(toClient[x], added)
           ELSE toClient[x]]
  /\ UNCHANGED <<toServer, scene>>

(* The client closes, and what is on the way in either direction is lost.  *)
Leaves(s) ==
  /\ LeaveRoom(s)
  /\ toClient' = [x \in Watched |->
       IF x = s THEN <<>>
       ELSE IF s \in DOMAIN objects /\ x \in Players(objects')
       THEN Append(toClient[x], S_RemoveObject(s)) ELSE toClient[x]]
  /\ toServer' = [x \in Watched |-> IF x = s THEN <<>> ELSE toServer[x]]
  /\ scene' = [x \in Watched |-> IF x = s THEN Nothing ELSE scene[x]]

ServerReceives(s) ==
  /\ toServer[s] # <<>>
  /\ MayBroadcast
  /\ Handles(s, Head(toServer[s]))
  /\ Broadcast(Damage(TheMonster) \o <<S_Move(s, objects'[s])>>)
  /\ toServer' = [toServer EXCEPT ![s] = Tail(@)]
  /\ UNCHANGED scene

(* The report of a client that is not watched.  Bound: it uses the same    *)
(* keys and keeps its weapon.                                              *)
OthersReport(s) ==
  /\ Reported < OtherMoves
  /\ MayBroadcast
  /\ s \in DOMAIN objects
  /\ \E pkt \in ClientMoves(objects[s]) :
       /\ pkt.dir \in Keys \cup {objects[s].dir}
       /\ pkt.attack = objects[s].attack
       /\ Handles(s, pkt)
  /\ Broadcast(Damage(TheMonster) \o <<S_Move(s, objects'[s])>>)
  /\ UNCHANGED <<toServer, scene>>

(* A packet of a player that has died is ignored.                          *)
ServerIgnores(s) ==
  /\ toServer[s] # <<>>
  /\ s \notin DOMAIN objects
  /\ toServer' = [toServer EXCEPT ![s] = Tail(@)]
  /\ UNCHANGED <<room, toClient, scene>>

RoomUpdates ==
  /\ MayBroadcast
  /\ \/ /\ UpdateIdle
        /\ Broadcast(IF objects' = objects THEN <<>>
                     ELSE <<S_Move(TheMonster, objects'[TheMonster])>>)
     \/ UpdateMove /\ UNCHANGED toClient
     \/ /\ UpdateSkill
        /\ Broadcast(Damage(target) \o <<S_Move(TheMonster, objects'[TheMonster])>>)
  /\ UNCHANGED <<toServer, scene>>

PlayInit ==
  /\ Init
  /\ toServer = [s \in Watched |-> <<>>]
  /\ toClient = [s \in Watched |-> <<>>]
  /\ scene = [s \in Watched |-> Nothing]

PlayNext ==
  \/ \E s \in Sessions : Enters(s) \/ Leaves(s)
  \/ \E s \in Watched :
       ServerReceives(s) \/ ServerIgnores(s) \/ Frame(s) \/ ClientReceives(s)
  \/ \E s \in Sessions \ Watched : OthersReport(s)
  \/ RoomUpdates

PlaySpec == PlayInit /\ [][PlayNext]_playVars

(* Both ends dispatch what has arrived for ever, each in its loop.         *)
FairPlaySpec ==
  /\ PlaySpec
  /\ \A s \in Watched :
       /\ WF_playVars(ServerReceives(s) \/ ServerIgnores(s))
       /\ WF_playVars(ClientReceives(s))

-----------------------------------------------------------------------------
(* Packets and scenes have their types, and nothing that is dead is shown. *)
Reports == [state : States, dir : Dirs, pos : Int \X Int, attack : Attacks]

PlayTypeOK ==
  /\ TypeOK
  /\ \A s \in Watched :
       /\ \A i \in DOMAIN toServer[s] : toServer[s][i] \in Reports
       /\ \A i \in DOMAIN toClient[s] :
            toClient[s][i].type \in {"S_MyPlayer", "S_AddObject", "S_RemoveObject", "S_Move"}
       /\ DOMAIN scene[s] \subseteq Ids
       /\ \A o \in DOMAIN scene[s] : scene[s][o] \in Infos /\ scene[s][o].hp > 0

(***************************************************************************)
(* Safety                                                                  *)
(***************************************************************************)

(* The clients drive the room only as GameRoom lets them: each report the  *)
(* server handles is one step of a player from the state of the report     *)
(* before.  What GameRoom is checked for therefore holds with real clients.*)
RoomSpec == Spec

About(pkt, o) ==
  CASE pkt.type = "S_AddObject" -> o \in DOMAIN pkt.infos
    [] OTHER                    -> pkt.id = o

NothingPending(s, o) ==
  \A i \in DOMAIN toClient[s] : ~About(toClient[s][i], o)

(* Once none of its reports and no answer about it is on the way, the own  *)
(* player is what the room holds of it, weapon included: neither an echo of*)
(* an older report nor a flag cleared too early leaves the two apart.  Its *)
(* hp may be lower, by blows that only the client saw.                     *)
InStep(s) ==
  LET mine == scene[s][s]
  IN  /\ Report(mine) = Report(objects[s])
      /\ mine.defence = objects[s].defence
      /\ mine.hp <= objects[s].hp

OwnPlayerInStep ==
  \A s \in Watched :
    (s \in DOMAIN objects \cap DOMAIN scene[s] /\ toServer[s] = <<>> /\ NothingPending(s, s))
      => InStep(s)

(* Once nothing about it is on the way to a player in the room, the copy of*)
(* another creature stands where the room has it, armed the same, and shows*)
(* no more hp; and a creature that is no longer in the room is not shown.  *)
CopiesAgree ==
  \A s \in Watched \cap Players(objects) : \A o \in DOMAIN scene[s] \ {s} :
    NothingPending(s, o) =>
      /\ o \in DOMAIN objects
      /\ scene[s][o].pos = objects[o].pos
      /\ scene[s][o].attack = objects[o].attack
      /\ scene[s][o].hp <= objects[o].hp

(***************************************************************************)
(* Liveness                                                                *)
(***************************************************************************)

(* Every change a player makes reaches the room: as long as both stay, the *)
(* own player and the room's are for ever in step from some point on.      *)
ComesIntoStep ==
  \A s \in Watched :
    <>[](s \in DOMAIN objects \cap DOMAIN scene[s] => InStep(s))

-----------------------------------------------------------------------------
(* What the README says of the scene, and the code does not do.            *)

(* README.md:41, the client's handler updates the scene from the packets of*)
(* the server: once they are all handled, the scene of a player in the room*)
(* shows the creatures of the room.                                        *)
ShowsTheRoom ==
  \A s \in Watched \cap Players(objects) :
    toClient[s] = <<>> => DOMAIN scene[s] = DOMAIN objects
=============================================================================
