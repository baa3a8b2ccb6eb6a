------------------------------- MODULE GameRoom -------------------------------
(***************************************************************************)
(* The game room of the server (Server/GameRoom.cpp, GameObject.cpp,       *)
(* Player.cpp, Monster.cpp) with the sessions that enter and leave it      *)
(* (GameSession.cpp).                                                      *)
(*                                                                         *)
(* The main loop of Server.cpp is one thread: it dispatches one completion,*)
(* then updates the room.  A handler is therefore one step.  The room keeps*)
(* the objects; what a session was told of them is kept beside, as the     *)
(* result of applying every message sent to it, in order.                  *)
(*                                                                         *)
(* Assumed here: no WSASend fails inside a handler (SessionLife is about   *)
(* those).  Timers are abstracted: a delay of _waitUntil may take any time.*)
(***************************************************************************)
EXTENDS Integers

CONSTANTS
  Sessions,      (* the connections; each enters once, and names its player*)
  TheMonster,    (* the monster that Init creates                          *)
  NoPlayer,      (* the empty weak_ptr                                     *)
  Walkable,      (* the cells GetTileAt finds and that are walkable        *)
  SpawnCell,     (* where players enter: (5, 5)                            *)
  MonsterCell,   (* where the monster starts: (8, 8)                       *)
  PlayerHp,      (* kSwordStat.hp and .maxHp: 100                          *)
  MonsterHp,     (* 50                                                     *)
  MaxDepth,      (* maxDepth of FindPath: 10                               *)
  Attacks,       (* the attack values of the weapons the players use       *)
  MaxMoves       (* bound: how many C_Move packets are handled             *)

ASSUME GameRoomAssumption ==
  /\ TheMonster \notin Sessions
  /\ NoPlayer \notin Sessions \cup {TheMonster}
  /\ Walkable \subseteq Int \X Int
  /\ SpawnCell \in Int \X Int
  /\ MonsterCell \in Int \X Int
  /\ PlayerHp \in Nat \ {0}
  /\ MonsterHp \in Nat \ {0}
  /\ MaxDepth \in Nat
  /\ Attacks \subseteq {12, 15, 18}
  /\ MaxMoves \in Nat

VARIABLES
  status,    (* of each session: "new", "connected" or "gone"              *)
  objects,   (* _players and _monsters: id -> info, by the ids present     *)
  told,      (* what each session was told: id -> info                     *)
  target,    (* the monster's _target                                      *)
  moves      (* the C_Move packets handled so far                          *)

vars == <<status, objects, told, target, moves>>

Ids    == Sessions \cup {TheMonster}
States == {"idle", "move", "skill"}
Dirs   == {"up", "down", "left", "right"}

-----------------------------------------------------------------------------
(* Cells                                                                   *)

Abs(n) == IF n < 0 THEN -n ELSE n

Dist(a, b)      == Abs(a[1] - b[1]) + Abs(a[2] - b[2])
LengthSquared(a, b) == (a[1] - b[1]) * (a[1] - b[1]) + (a[2] - b[2]) * (a[2] - b[2])

GetFrontCell(pos, dir) ==
  CASE dir = "up"    -> <<pos[1], pos[2] - 1>>
    [] dir = "down"  -> <<pos[1], pos[2] + 1>>
    [] dir = "left"  -> <<pos[1] - 1, pos[2]>>
    [] dir = "right" -> <<pos[1] + 1, pos[2]>>

GetLookAtDir(pos, cell) ==
  CASE cell[1] > pos[1]                       -> "right"
    [] cell[1] < pos[1]                       -> "left"
    [] cell[1] = pos[1] /\ cell[2] > pos[2]   -> "down"
    [] cell[1] = pos[1] /\ cell[2] <= pos[2]  -> "up"

(* Objects                                                                 *)

(* ResolveWeaponStat knows a weapon by its attack; anything else is the    *)
(* sword.                                                                  *)
WeaponStats == {[attack |-> 15, defence |-> 5],
                [attack |-> 12, defence |-> 3],
                [attack |-> 18, defence |-> 2]}

ResolveWeaponStat(attack) ==
  IF \E w \in WeaponStats : w.attack = attack
  THEN CHOOSE w \in WeaponStats : w.attack = attack
  ELSE [attack |-> 15, defence |-> 5]

NewPlayer ==
  [state |-> "idle", dir |-> "up", pos |-> SpawnCell, hp |-> PlayerHp,
   attack |-> 15, defence |-> 5]

NewMonster ==
  [state |-> "idle", dir |-> "up", pos |-> MonsterCell, hp |-> MonsterHp,
   attack |-> 5, defence |-> 0]

Players(world) == DOMAIN world \ {TheMonster}

With(world, o, info) == [x \in DOMAIN world \cup {o} |-> IF x = o THEN info ELSE world[x]]
Without(world, o)    == [x \in DOMAIN world \ {o} |-> world[x]]

Occupants(world, cell) == {o \in DOMAIN world : world[o].pos = cell}

CanGo(world, cell) == cell \in Walkable /\ Occupants(world, cell) = {}

-----------------------------------------------------------------------------
(* Broadcast reaches the sessions of the players in the map at that moment.*)
(* A view takes S_AddObject and S_RemoveObject as they are, and S_Move only*)
(* of an object it knows.                                                  *)

TellAdd(world, views, o) ==
  [s \in Sessions |-> IF s \in Players(world) THEN With(views[s], o, world[o]) ELSE views[s]]

TellRemove(world, views, o) ==
  [s \in Sessions |-> IF s \in Players(world) THEN Without(views[s], o) ELSE views[s]]

TellMove(world, views, o) ==
  [s \in Sessions |-> IF s \in Players(world) /\ o \in DOMAIN views[s]
                      THEN With(views[s], o, world[o]) ELSE views[s]]

(* hp is kept between 0 and maxHp.                                         *)
Clamp(o, hp) ==
  LET maxHp == IF o = TheMonster THEN MonsterHp ELSE PlayerHp
  IN  IF hp > maxHp THEN maxHp ELSE IF hp < 0 THEN 0 ELSE hp

(* ApplyDamage: the room and the views after it.                           *)
HpAfter(world, attacker, victim) ==
  LET damage == world[attacker].attack - world[victim].defence
      newHp  == Clamp(victim, world[victim].hp) - (IF damage < 1 THEN 1 ELSE damage)
  IN  IF newHp < 0 THEN 0 ELSE newHp

(* Seeded faults: a wound is not announced; an object dies below zero only.*)
ApplyDamage_Silent(world, views, attacker, victim) ==
  LET newHp == HpAfter(world, attacker, victim)
      hurt  == [world EXCEPT ![victim].hp = newHp]
      rest  == Without(world, victim)
  IN  IF newHp <= 0
      THEN [objects |-> rest, told |-> TellRemove(rest, views, victim)]
      ELSE [objects |-> hurt, told |-> views]

ApplyDamage_LeavesTheDead(world, views, attacker, victim) ==
  LET newHp == HpAfter(world, attacker, victim)
      hurt  == [world EXCEPT ![victim].hp = newHp]
  IN  [objects |-> hurt, told |-> TellMove(hurt, views, victim)]

ApplyDamage(world, views, attacker, victim) ==
  LET newHp == HpAfter(world, attacker, victim)
      hurt  == [world EXCEPT ![victim].hp = newHp]
      rest  == Without(world, victim)
  IN  IF newHp <= 0
      THEN [objects |-> rest, told |-> TellRemove(rest, views, victim)]
      ELSE [objects |-> hurt, told |-> TellMove(hurt, views, victim)]

(* ProcessSkill hits the monster in the front cell, unless a player stands *)
(* there too: GetGameObjectAt looks through the players first.             *)
HitsMonster(world, s) ==
  Occupants(world, GetFrontCell(world[s].pos, world[s].dir)) = {TheMonster}

-----------------------------------------------------------------------------
(* Sessions                                                                *)

Nothing == [o \in {} |-> NewPlayer]

Init ==
  /\ status = [s \in Sessions |-> "new"]
  /\ objects = With(Nothing, TheMonster, NewMonster)
  /\ told = [s \in Sessions |-> Nothing]
  /\ target = NoPlayer
  /\ moves = 0

(* EnterRoom: S_MyPlayer and the objects present to the new session, then  *)
(* AddObject, whose broadcast reaches the new session too.                 *)

EnterRoom(s) ==
  /\ status[s] = "new"
  /\ status' = [status EXCEPT ![s] = "connected"]
  /\ objects' = With(objects, s, NewPlayer)
  /\ told' = TellAdd(objects', [told EXCEPT ![s] = objects'], s)
  /\ UNCHANGED <<target, moves>>

(* OnDisconnected and LeaveRoom: the player is removed if it still lives,  *)
(* and the others are told.                                                *)

LeaveRoom(s) ==
  /\ status[s] = "connected"
  /\ status' = [status EXCEPT ![s] = "gone"]
  /\ objects' = Without(objects, s)
  /\ told' = LET views == [told EXCEPT ![s] = Nothing]
             IN  IF s \in DOMAIN objects THEN TellRemove(objects', views, s) ELSE views
  /\ UNCHANGED <<target, moves>>

-----------------------------------------------------------------------------
(* What a client reports in a C_Move (MyPlayer.cpp): from idle it turns,   *)
(* steps to a cell its own map lets it enter, or starts a skill; a move or *)
(* a skill ends in idle.  The cell may be taken meanwhile: an S_Move can be*)
(* on its way.  ClientPlay shows that its clients report nothing else.     *)
ClientMoves(info) ==
  LET report(state, dir, pos) ==
        [state : {state}, dir : {dir}, pos : {pos}, attack : Attacks]
  IN  IF info.state = "idle"
      THEN UNION {report("idle", d, info.pos) \cup report("skill", d, info.pos)
                    \cup {pkt \in report("move", d, GetFrontCell(info.pos, d)) :
                             pkt.pos \in Walkable} : d \in Dirs}
      ELSE report("idle", info.dir, info.pos)

StartsSkill(from, to) == from # "skill" /\ to = "skill"

(* Handle_C_Move: the report is taken over without a check; a skill that   *)
(* starts hits at once; then the player is broadcast.                      *)

Handles(s, pkt) ==
  /\ moves < MaxMoves
  /\ moves' = moves + 1
  /\ s \in DOMAIN objects
  /\ LET weapon == ResolveWeaponStat(pkt.attack)
         moved  == With(objects, s,
                     [state |-> pkt.state, dir |-> pkt.dir, pos |-> pkt.pos,
                      hp |-> Clamp(s, objects[s].hp),
                      attack |-> weapon.attack, defence |-> weapon.defence])
         after  == IF StartsSkill(objects[s].state, pkt.state) /\ HitsMonster(moved, s)
                   THEN ApplyDamage(moved, told, s, TheMonster)
                   ELSE [objects |-> moved, told |-> told]
     IN  /\ objects' = after.objects
         /\ told' = TellMove(after.objects, after.told, s)
  /\ UNCHANGED <<status, target>>

Handle_C_Move(s) ==
  s \in DOMAIN objects /\ \E pkt \in ClientMoves(objects[s]) : Handles(s, pkt)

-----------------------------------------------------------------------------
(* The monster.  weak_ptr::lock fails once the player is out of the map:   *)
(* nothing else owns it, and no id is used twice.                          *)
LockedTarget == IF target \in DOMAIN objects THEN target ELSE NoPlayer

FindClosestPlayer(world, pos) ==
  IF Players(world) = {} THEN {NoPlayer}
  ELSE {p \in Players(world) : \A q \in Players(world) :
          LengthSquared(pos, world[p].pos) <= LengthSquared(pos, world[q].pos)}

(* FindPath gives a first step to a free cell next to the monster, or none;*)
(* which one is left open here.  It gives none from MaxDepth cells away,   *)
(* and on the target's own cell.                                           *)
PathSteps(world, from, to) ==
  IF Dist(from, to) \in 1 .. MaxDepth - 1
  THEN {cell \in {GetFrontCell(from, d) : d \in Dirs} : CanGo(world, cell)}
  ELSE {}

(* Seeded faults: a cell too near; a cell too far.                         *)
InReach_OffByOne(from, to) == Dist(from, to) < 1
InReach_TooFar(from, to)   == Dist(from, to) \in 1 .. 2

InReach(from, to) == Dist(from, to) = 1

MonsterBecomes(info) ==
  /\ objects' = With(objects, TheMonster, info)
  /\ told' = TellMove(objects', told, TheMonster)

(* UpdateIdle: a target is looked for only when there is none; it is       *)
(* struck at when adjacent, else followed.                                 *)
UpdateIdle ==
  /\ TheMonster \in DOMAIN objects
  /\ objects[TheMonster].state = "idle"
  /\ target' \in IF LockedTarget # NoPlayer THEN {target}
                 ELSE FindClosestPlayer(objects, objects[TheMonster].pos)
  /\ LET self == objects[TheMonster]
         goal == IF target' = NoPlayer THEN self.pos ELSE objects[target'].pos
     IN  \/ /\ target' # NoPlayer
            /\ InReach(self.pos, goal)
            /\ MonsterBecomes([self EXCEPT !.state = "skill",
                                           !.dir = GetLookAtDir(self.pos, goal)])
         \/ /\ ~InReach(self.pos, goal)
            /\ \E cell \in PathSteps(objects, self.pos, goal) :
                 MonsterBecomes([self EXCEPT !.state = "move", !.pos = cell,
                                             !.dir = GetLookAtDir(self.pos, cell)])
         \/ /\ ~InReach(self.pos, goal)
            /\ UNCHANGED <<objects, told>>
  /\ UNCHANGED <<status, moves>>

(* UpdateMove, once the delay is over: SetState(IDLE) does not broadcast.  *)
UpdateMove ==
  /\ TheMonster \in DOMAIN objects
  /\ objects[TheMonster].state = "move"
  /\ objects' = [objects EXCEPT ![TheMonster].state = "idle"]
  /\ UNCHANGED <<status, told, target, moves>>

(* UpdateSkill, once the delay is over: whoever is the target is hit if it *)
(* is still adjacent, and forgotten if it is dead or gone; the monster is  *)
(* broadcast last.                                                         *)
UpdateSkill ==
  /\ TheMonster \in DOMAIN objects
  /\ objects[TheMonster].state = "skill"
  /\ LET victim == LockedTarget
         idle   == [objects EXCEPT ![TheMonster].state = "idle"]
         after  == IF victim # NoPlayer /\ InReach(idle[TheMonster].pos, idle[victim].pos)
                   THEN ApplyDamage(idle, told, TheMonster, victim)
                   ELSE [objects |-> idle, told |-> told]
     IN  /\ objects' = after.objects
         /\ told' = TellMove(after.objects, after.told, TheMonster)
         /\ target' = IF victim \in DOMAIN after.objects THEN target ELSE NoPlayer
  /\ UNCHANGED <<status, moves>>

Update == UpdateIdle \/ UpdateMove \/ UpdateSkill

Next ==
  \/ \E s \in Sessions : EnterRoom(s) \/ LeaveRoom(s) \/ Handle_C_Move(s)
  \/ Update

Spec == Init /\ [][Next]_vars

(* The main loop calls Update after every Dispatch(0), for ever, and every *)
(* delay passes.                                                           *)
FairSpec == Spec /\ WF_vars(Update)

-----------------------------------------------------------------------------
Infos ==
  [state : States, dir : Dirs, pos : Int \X Int, hp : Int, attack : Int, defence : Int]

(* The variables have their types, and no dead object stays in the room:   *)
(* hp lies between 1 and maxHp.                                            *)
TypeOK ==
  /\ status \in [Sessions -> {"new", "connected", "gone"}]
  /\ DOMAIN objects \subseteq Ids
  /\ \A o \in DOMAIN objects :
       /\ objects[o] \in Infos
       /\ objects[o].hp \in 1 .. (IF o = TheMonster THEN MonsterHp ELSE PlayerHp)
  /\ DOMAIN told = Sessions
  /\ \A s \in Sessions : \A o \in DOMAIN told[s] : o \in Ids /\ told[s][o] \in Infos
  /\ target \in Sessions \cup {NoPlayer}
  /\ moves \in 0 .. MaxMoves

(***************************************************************************)
(* Safety                                                                  *)
(***************************************************************************)

(* What a client may be told of an object in the room.                     *)
Announced(o, info, view) ==
  \/ view = info
  \/ /\ o = TheMonster
     /\ info.state = "idle"
     /\ view = [info EXCEPT !.state = "move"]

KnowsTheRoom(s) ==
  /\ DOMAIN told[s] = DOMAIN objects
  /\ \A o \in DOMAIN objects : Announced(o, objects[o], told[s][o])

(* Every handler tells every player all it changed: a session whose player *)
(* is in the room knows each object in it as it is, and no other, except   *)
(* that the end of a monster's step is not announced.                      *)
Replicated == \A s \in Players(objects) : KnowsTheRoom(s)

(* hp falls, or an object dies, only by a blow: the monster is wounded by  *)
(* a player that starts a skill and faces it; a player is wounded by the   *)
(* monster that ends a skill next to it.  A player may also leave.         *)
Wounded(o) ==
  o \in DOMAIN objects /\ (o \in DOMAIN objects' => objects'[o].hp < objects[o].hp)

PlayerStrikes(s) ==
  /\ objects[s].state # "skill" /\ objects'[s].state = "skill"
  /\ GetFrontCell(objects'[s].pos, objects'[s].dir) = objects[TheMonster].pos

MonsterStrikes(p) ==
  /\ TheMonster \in DOMAIN objects
  /\ objects[TheMonster].state = "skill" /\ objects'[TheMonster].state = "idle"
  /\ target = p
  /\ Dist(objects[TheMonster].pos, objects[p].pos) = 1

WoundsAreBlows ==
  /\ Wounded(TheMonster) => \E s \in Players(objects) : PlayerStrikes(s)
  /\ \A p \in Players(objects) :
       Wounded(p) => status'[p] = "gone" \/ MonsterStrikes(p)

EveryWoundIsABlow == [][WoundsAreBlows]_vars

(***************************************************************************)
(* Liveness                                                                *)
(***************************************************************************)

(* The monster does not leave a target alone that stays next to it: it     *)
(* wounds it, or the player gets away or leaves, or the monster dies.      *)
Cornered(p, hp) ==
  /\ {p, TheMonster} \subseteq DOMAIN objects
  /\ target = p
  /\ objects[p].hp = hp
  /\ Dist(objects[TheMonster].pos, objects[p].pos) = 1

CorneredIsHit ==
  \A p \in Sessions, hp \in 1 .. PlayerHp : Cornered(p, hp) ~> ~Cornered(p, hp)

=============================================================================
