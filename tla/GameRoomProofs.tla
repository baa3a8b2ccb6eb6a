---------------------------- MODULE GameRoomProofs ----------------------------
(***************************************************************************)
(* What GameRoom is checked for on a small map, for every map, any number  *)
(* of sessions, any hp and any range.                                      *)
(*                                                                         *)
(* A handler changes the room and what the sessions were told in several   *)
(* parts, so the invariants are stated of a room and views given as        *)
(* arguments, and each part has a lemma.                                   *)
(***************************************************************************)
EXTENDS GameRoom, TLAPS

(* TypeOK of a room and of views given as arguments.                       *)
MaxHp(o) == IF o = TheMonster THEN MonsterHp ELSE PlayerHp

Living(world) ==
  /\ DOMAIN world \subseteq Ids
  /\ \A o \in DOMAIN world : world[o] \in Infos /\ world[o].hp \in 1 .. MaxHp(o)

ViewsOK(views) ==
  /\ DOMAIN views = Sessions
  /\ \A s \in Sessions : \A o \in DOMAIN views[s] : o \in Ids /\ views[s][o] \in Infos

(* Every player's session knows every object, but maybe not x as it is.    *)
KnownBut(world, views, x) ==
  \A s \in Players(world) :
    /\ DOMAIN views[s] = DOMAIN world
    /\ \A o \in DOMAIN world \ {x} : Announced(o, world[o], views[s][o])

-----------------------------------------------------------------------------
(* Pieces of a handler: types                                              *)

(* A weapon's values are numbers, whatever attack the packet names.        *)
LEMMA WeaponHasStats ==
  ASSUME NEW attack
  PROVE  ResolveWeaponStat(attack).attack \in Int /\ ResolveWeaponStat(attack).defence \in Int
<1>1. ResolveWeaponStat(attack) \in WeaponStats
  BY DEF ResolveWeaponStat, WeaponStats
<1> QED BY <1>1 DEF WeaponStats

(* A cell in front of a cell is a cell.                                    *)
LEMMA FrontIsCell ==
  ASSUME NEW pos \in Int \X Int, NEW d \in Dirs
  PROVE  GetFrontCell(pos, d) \in Int \X Int
BY DEF GetFrontCell, Dirs

(* The direction to a cell is one of the four.                             *)
LEMMA LookIsDir ==
  ASSUME NEW pos \in Int \X Int, NEW cell \in Int \X Int
  PROVE  GetLookAtDir(pos, cell) \in Dirs
BY DEF GetLookAtDir, Dirs

(* A map gains or replaces a living object and stays one.                  *)
LEMMA WithLives ==
  ASSUME NEW world, Living(world), NEW o \in Ids,
         NEW info \in Infos, info.hp \in 1 .. MaxHp(o)
  PROVE  Living(With(world, o, info))
BY DEF Living, With

(* A map that loses an object stays one.                                   *)
LEMMA WithoutLives ==
  ASSUME NEW world, Living(world), NEW o
  PROVE  Living(Without(world, o))
BY DEF Living, Without

(* The three broadcasts keep the views' types.                             *)
LEMMA TellKeepsViews ==
  ASSUME NEW world, NEW views, ViewsOK(views), NEW o, Living(world)
  PROVE  /\ ViewsOK(TellRemove(world, views, o))
         /\ o \in DOMAIN world => ViewsOK(TellAdd(world, views, o))
         /\ o \in DOMAIN world => ViewsOK(TellMove(world, views, o))
<1>1. ViewsOK(TellRemove(world, views, o))
  BY DEF ViewsOK, TellRemove, Without
<1>2. ASSUME o \in DOMAIN world PROVE ViewsOK(TellAdd(world, views, o))
  BY <1>2 DEF ViewsOK, TellAdd, With, Living
<1>3. ASSUME o \in DOMAIN world PROVE ViewsOK(TellMove(world, views, o))
  BY <1>3 DEF ViewsOK, TellMove, With, Living
<1> QED BY <1>1, <1>2, <1>3

(* hp that is in its range is left alone by the clamp, and a blow takes at *)
(* least one.                                                              *)
LEMMA BlowHurts ==
  ASSUME NEW world, Living(world), NEW a \in DOMAIN world, NEW v \in DOMAIN world
  PROVE  /\ Clamp(v, world[v].hp) = world[v].hp
         /\ HpAfter(world, a, v) \in Nat
         /\ HpAfter(world, a, v) < world[v].hp
<1>1. /\ world[a].attack \in Int /\ world[v].defence \in Int
      /\ world[v].hp \in 1 .. MaxHp(v)
  BY DEF Living, Infos
<1>2. MaxHp(v) \in Nat
  BY GameRoomAssumption DEF MaxHp
<1>3. Clamp(v, world[v].hp) = world[v].hp
  BY <1>1, <1>2 DEF Clamp, MaxHp
<1> QED BY <1>1, <1>2, <1>3 DEF HpAfter

(* A blow keeps the types of the room and of the views.                    *)
LEMMA BlowKeepsTypes ==
  ASSUME NEW world, Living(world), NEW views, ViewsOK(views),
         NEW a \in DOMAIN world, NEW v \in DOMAIN world
  PROVE  /\ Living(ApplyDamage(world, views, a, v).objects)
         /\ ViewsOK(ApplyDamage(world, views, a, v).told)
<1> DEFINE newHp == HpAfter(world, a, v)
           hurt  == [world EXCEPT ![v].hp = newHp]
           rest  == Without(world, v)
<1>1. newHp \in Nat /\ newHp < world[v].hp
  BY BlowHurts
<1>2. CASE newHp <= 0
  <2>1. Living(rest)
    BY WithoutLives
  <2>2. ViewsOK(TellRemove(rest, views, v))
    BY <2>1, TellKeepsViews
  <2>3. ApplyDamage(world, views, a, v) = [objects |-> rest, told |-> TellRemove(rest, views, v)]
    BY <1>2 DEF ApplyDamage
  <2> HIDE DEF rest
  <2> QED BY <2>1, <2>2, <2>3
<1>3. CASE newHp > 0
  <2>1. Living(hurt)
    <3>1. world[v] \in Infos /\ world[v].hp \in 1 .. MaxHp(v) /\ MaxHp(v) \in Nat
      BY GameRoomAssumption DEF Living, MaxHp
    <3>2. newHp \in 1 .. MaxHp(v)
      BY <1>1, <1>3, <3>1
    <3>3. [world[v] EXCEPT !.hp = newHp] \in Infos /\ [world[v] EXCEPT !.hp = newHp].hp = newHp
      <4> HIDE DEF newHp
      <4> QED BY <3>1, <3>2 DEF Infos
    <3> HIDE DEF newHp
    <3> QED BY <3>2, <3>3 DEF Living
  <2>2. v \in DOMAIN hurt
    OBVIOUS
  <2>3. ViewsOK(TellMove(hurt, views, v))
    <3> HIDE DEF hurt
    <3> QED BY <2>1, <2>2, TellKeepsViews
  <2>4. ApplyDamage(world, views, a, v) = [objects |-> hurt, told |-> TellMove(hurt, views, v)]
    BY <1>1, <1>3 DEF ApplyDamage
  <2> HIDE DEF hurt
  <2> QED BY <2>1, <2>3, <2>4
<1> QED BY <1>1, <1>2, <1>3

(* Whom a blow leaves: everyone but its victim, as he was.                 *)
LEMMA BlowHitsOnlyVictim ==
  ASSUME NEW world, NEW views, NEW a \in DOMAIN world, NEW v \in DOMAIN world,
         NEW o \in DOMAIN world \ {v}
  PROVE  /\ o \in DOMAIN ApplyDamage(world, views, a, v).objects
         /\ ApplyDamage(world, views, a, v).objects[o] = world[o]
BY DEF ApplyDamage, Without

-----------------------------------------------------------------------------
(* Types                                                                   *)

(* TypeOK by its parts.                                                    *)
LEMMA TypesApart ==
  TypeOK <=> /\ status \in [Sessions -> {"new", "connected", "gone"}]
             /\ Living(objects) /\ ViewsOK(told)
             /\ target \in Sessions \cup {NoPlayer}
             /\ moves \in 0 .. MaxMoves
BY DEF TypeOK, Living, ViewsOK, MaxHp

(* A new player, and the monster, start with full hp.                      *)
LEMMA NewObjects ==
  /\ NewPlayer \in Infos /\ \A s \in Sessions : NewPlayer.hp \in 1 .. MaxHp(s)
  /\ NewMonster \in Infos /\ NewMonster.hp \in 1 .. MaxHp(TheMonster)
BY GameRoomAssumption DEF NewPlayer, NewMonster, Infos, States, Dirs, MaxHp

(* At the start only the monster is in the room.                           *)
LEMMA InitTyped == Init => TypeOK
<1> SUFFICES ASSUME Init PROVE TypeOK
  OBVIOUS
<1>1. Living(Nothing)
  BY DEF Nothing, Living
<1>2. Living(objects)
  BY <1>1, NewObjects, WithLives DEF Init, Ids
<1>3. ViewsOK(told)
  BY DEF Init, Nothing, ViewsOK
<1>4. moves \in 0 .. MaxMoves
  BY GameRoomAssumption DEF Init
<1> QED BY <1>2, <1>3, <1>4, TypesApart DEF Init

(* EnterRoom adds a player with full hp (and tells the others).            *)
LEMMA EnterRoomTyped ==
  ASSUME TypeOK, NEW s \in Sessions, EnterRoom(s)
  PROVE  TypeOK'
<1>1. Living(objects) /\ ViewsOK(told)
  BY TypesApart
<1>2. Living(objects') /\ s \in DOMAIN objects'
  BY <1>1, NewObjects, WithLives DEF EnterRoom, Ids, With
<1>3. ViewsOK([told EXCEPT ![s] = objects'])
  BY <1>1, <1>2 DEF ViewsOK, Living
<1>4. ViewsOK(told')
  BY <1>2, <1>3, TellKeepsViews DEF EnterRoom
<1>5. /\ status' \in [Sessions -> {"new", "connected", "gone"}]
      /\ target' \in Sessions \cup {NoPlayer} /\ moves' \in 0 .. MaxMoves
  BY DEF EnterRoom, TypeOK
<1> QED BY <1>2, <1>4, <1>5 DEF TypeOK, Living, ViewsOK, MaxHp

(* LeaveRoom only removes: from the room and from what is known.           *)
LEMMA LeaveRoomTyped ==
  ASSUME TypeOK, NEW s \in Sessions, LeaveRoom(s)
  PROVE  TypeOK'
<1>1. Living(objects) /\ ViewsOK(told)
  BY TypesApart
<1>2. Living(objects')
  BY <1>1, WithoutLives DEF LeaveRoom
<1>3. ViewsOK([told EXCEPT ![s] = Nothing])
  BY <1>1 DEF ViewsOK, Nothing
<1>4. ViewsOK(told')
  BY <1>2, <1>3, TellKeepsViews DEF LeaveRoom
<1>5. /\ status' \in [Sessions -> {"new", "connected", "gone"}]
      /\ target' \in Sessions \cup {NoPlayer} /\ moves' \in 0 .. MaxMoves
  BY DEF LeaveRoom, TypeOK
<1> QED BY <1>2, <1>4, <1>5 DEF TypeOK, Living, ViewsOK, MaxHp

(* A report is a state, a direction and a cell.                            *)
LEMMA ReportIsTyped ==
  ASSUME NEW info \in Infos, NEW pkt \in ClientMoves(info)
  PROVE  pkt.state \in States /\ pkt.dir \in Dirs /\ pkt.pos \in Int \X Int
<1>1. info.dir \in Dirs /\ info.pos \in Int \X Int
  BY DEF Infos
<1>2. CASE info.state = "idle"
  <2>1. PICK d \in Dirs :
          pkt \in [state : {"idle"}, dir : {d}, pos : {info.pos}, attack : Attacks]
            \cup [state : {"skill"}, dir : {d}, pos : {info.pos}, attack : Attacks]
            \cup [state : {"move"}, dir : {d}, pos : {GetFrontCell(info.pos, d)}, attack : Attacks]
    BY <1>2 DEF ClientMoves
  <2>2. GetFrontCell(info.pos, d) \in Int \X Int
    BY <1>1, FrontIsCell
  <2> QED BY <1>1, <2>1, <2>2 DEF States
<1>3. CASE info.state # "idle"
  <2>1. pkt \in [state : {"idle"}, dir : {info.dir}, pos : {info.pos}, attack : Attacks]
    BY <1>3 DEF ClientMoves
  <2> QED BY <1>1, <2>1 DEF States
<1> QED BY <1>2, <1>3

(* The player as a report leaves it, before its skill strikes.             *)
TakenOver(s, pkt) ==
  LET weapon == ResolveWeaponStat(pkt.attack)
  IN  [state |-> pkt.state, dir |-> pkt.dir, pos |-> pkt.pos, hp |-> Clamp(s, objects[s].hp),
       attack |-> weapon.attack, defence |-> weapon.defence]

(* The room after Info_objectInfo was copied, before ProcessSkill.         *)
LEMMA ReportedLives ==
  ASSUME TypeOK, NEW s \in Sessions \cap DOMAIN objects, NEW pkt \in ClientMoves(objects[s])
  PROVE  /\ Living(With(objects, s, TakenOver(s, pkt)))
         /\ TakenOver(s, pkt).hp = objects[s].hp
<1>1. Living(objects) /\ objects[s] \in Infos /\ objects[s].hp \in 1 .. MaxHp(s)
  BY TypesApart DEF Living
<1>2. Clamp(s, objects[s].hp) = objects[s].hp
  BY <1>1, BlowHurts
<1>3. TakenOver(s, pkt) \in Infos /\ TakenOver(s, pkt).hp = objects[s].hp
  <2>1. objects[s].hp \in Int
    BY <1>1 DEF Infos
  <2> QED BY <1>1, <1>2, <2>1, ReportIsTyped, WeaponHasStats DEF TakenOver, Infos
<1> QED BY <1>1, <1>3, WithLives DEF Ids

(* The three ways Handles may end.                                         *)
LEMMA HandlesApart ==
  ASSUME NEW s, NEW pkt, Handles(s, pkt)
  PROVE  LET moved == With(objects, s, TakenOver(s, pkt))
         IN  \/ /\ StartsSkill(objects[s].state, pkt.state)
                /\ HitsMonster(moved, s)
                /\ objects' = ApplyDamage(moved, told, s, TheMonster).objects
                /\ told' = TellMove(objects', ApplyDamage(moved, told, s, TheMonster).told, s)
             \/ /\ objects' = moved
                /\ told' = TellMove(moved, told, s)
<1> DEFINE moved == With(objects, s, TakenOver(s, pkt))
           strikes == StartsSkill(objects[s].state, pkt.state) /\ HitsMonster(moved, s)
           after == IF strikes THEN ApplyDamage(moved, told, s, TheMonster)
                    ELSE [objects |-> moved, told |-> told]
<1>1. objects' = after.objects /\ told' = TellMove(after.objects, after.told, s)
  BY DEF Handles, TakenOver
<1>2. CASE strikes
  BY <1>1, <1>2
<1>3. CASE ~strikes
  <2>1. after = [objects |-> moved, told |-> told]
    BY <1>3
  <2>2. after.objects = moved /\ after.told = told
    <3> HIDE DEF moved, after
    <3> QED BY <2>1
  <2> QED BY <1>1, <2>2
<1> QED BY <1>2, <1>3

(* Handle_C_Move may end in a blow, which leaves no dead object behind.    *)
LEMMA HandlesTyped ==
  ASSUME TypeOK, NEW s \in Sessions \cap DOMAIN objects, NEW pkt \in ClientMoves(objects[s]),
         Handles(s, pkt)
  PROVE  TypeOK'
<1> DEFINE moved == With(objects, s, TakenOver(s, pkt))
<1>1. Living(moved) /\ s \in DOMAIN moved /\ ViewsOK(told)
  BY ReportedLives, TypesApart DEF With
<1>2. ASSUME HitsMonster(moved, s),
             objects' = ApplyDamage(moved, told, s, TheMonster).objects,
             told' = TellMove(objects', ApplyDamage(moved, told, s, TheMonster).told, s)
      PROVE  Living(objects') /\ ViewsOK(told')
  <2> DEFINE after == ApplyDamage(moved, told, s, TheMonster)
  <2>1. TheMonster \in DOMAIN moved /\ s # TheMonster
    BY <1>2, GameRoomAssumption DEF HitsMonster, Occupants
  <2>2. Living(after.objects) /\ ViewsOK(after.told) /\ s \in DOMAIN after.objects
    <3> HIDE DEF moved
    <3> QED BY <1>1, <2>1, BlowKeepsTypes, BlowHitsOnlyVictim
  <2>3. Living(objects') /\ ViewsOK(told')
    <3> HIDE DEF moved
    <3> QED BY <1>2, <2>2, TellKeepsViews
  <2> QED BY <2>3
<1>3. ASSUME objects' = moved, told' = TellMove(moved, told, s)
      PROVE  Living(objects') /\ ViewsOK(told')
  <2>1. Living(objects') /\ ViewsOK(told')
    <3> HIDE DEF moved
    <3> QED BY <1>1, <1>3, TellKeepsViews
  <2> QED BY <2>1
<1>4. Living(objects') /\ ViewsOK(told')
  BY <1>2, <1>3, HandlesApart
<1>5. /\ status' \in [Sessions -> {"new", "connected", "gone"}]
      /\ target' \in Sessions \cup {NoPlayer} /\ moves' \in 0 .. MaxMoves
  BY GameRoomAssumption DEF Handles, TypeOK
<1> QED BY <1>4, <1>5 DEF TypeOK, Living, ViewsOK, MaxHp

(* What the monster becomes, whichever action it is, is announced.         *)
LEMMA MonsterBecomesTyped ==
  ASSUME TypeOK, TheMonster \in DOMAIN objects, NEW info \in Infos,
         info.hp = objects[TheMonster].hp, MonsterBecomes(info)
  PROVE  Living(objects') /\ ViewsOK(told')
<1>1. Living(objects) /\ ViewsOK(told) /\ info.hp \in 1 .. MaxHp(TheMonster)
  BY TypesApart DEF Living
<1>2. Living(objects') /\ TheMonster \in DOMAIN objects'
  BY <1>1, WithLives DEF MonsterBecomes, With, Ids
<1> QED BY <1>1, <1>2, TellKeepsViews DEF MonsterBecomes

(* A monster that goes on keeps its type.                                  *)
LEMMA MonsterInfos ==
  ASSUME NEW self \in Infos, NEW goal \in Int \X Int, NEW cell \in Int \X Int
  PROVE  LET strikes == [self EXCEPT !.state = "skill", !.dir = GetLookAtDir(self.pos, goal)]
             steps   == [self EXCEPT !.state = "move", !.pos = cell,
                                     !.dir = GetLookAtDir(self.pos, cell)]
             rests   == [self EXCEPT !.state = "idle"]
         IN  /\ {strikes, steps, rests} \subseteq Infos
             /\ strikes.hp = self.hp /\ steps.hp = self.hp /\ rests.hp = self.hp
<1>1. self.pos \in Int \X Int
  BY DEF Infos
<1>2. GetLookAtDir(self.pos, goal) \in Dirs /\ GetLookAtDir(self.pos, cell) \in Dirs
  BY <1>1, LookIsDir
<1> QED BY <1>2 DEF Infos, States

(* The target that is chosen is nobody, or a player in the room.           *)
LEMMA TargetIsPlayer ==
  ASSUME TypeOK, UpdateIdle
  PROVE  target' \in (Sessions \cap DOMAIN objects) \cup {NoPlayer}
<1>1. Players(objects) \subseteq Sessions \cap DOMAIN objects
  BY DEF TypeOK, Players, Ids
<1>2. target \in Sessions \cup {NoPlayer}
  BY DEF TypeOK
<1>3. target' \in IF LockedTarget # NoPlayer THEN {target}
                  ELSE FindClosestPlayer(objects, objects[TheMonster].pos)
  BY DEF UpdateIdle
<1>4. CASE LockedTarget # NoPlayer
  BY <1>2, <1>3, <1>4 DEF LockedTarget
<1>5. CASE LockedTarget = NoPlayer
  BY <1>1, <1>3, <1>5 DEF FindClosestPlayer
<1> QED BY <1>4, <1>5

(* The three ways UpdateIdle may end.                                      *)
LEMMA UpdateIdleApart ==
  ASSUME TypeOK, UpdateIdle
  PROVE  \/ \E info \in Infos : /\ info.hp = objects[TheMonster].hp
                               /\ info.state # "idle"
                               /\ MonsterBecomes(info)
         \/ UNCHANGED <<objects, told>>
<1> DEFINE self == objects[TheMonster]
           goal == IF target' = NoPlayer THEN self.pos ELSE objects[target'].pos
           strikes == [self EXCEPT !.state = "skill", !.dir = GetLookAtDir(self.pos, goal)]
           steps(cell) == [self EXCEPT !.state = "move", !.pos = cell,
                                       !.dir = GetLookAtDir(self.pos, cell)]
<1>1. self \in Infos
  BY DEF UpdateIdle, TypeOK
<1>2. self.pos \in Int \X Int /\ goal \in Int \X Int
  BY <1>1, TargetIsPlayer DEF TypeOK, Infos
<1>3. \/ MonsterBecomes(strikes)
      \/ \E cell \in PathSteps(objects, self.pos, goal) : MonsterBecomes(steps(cell))
      \/ UNCHANGED <<objects, told>>
  BY DEF UpdateIdle
<1>4. CASE MonsterBecomes(strikes)
  <2>1. strikes \in Infos /\ strikes.hp = self.hp /\ strikes.state = "skill"
    <3> HIDE DEF goal
    <3>1. strikes \in Infos /\ strikes.hp = self.hp
      BY <1>1, <1>2, MonsterInfos
    <3>2. strikes.state = "skill"
      BY <1>1 DEF Infos
    <3> QED BY <3>1, <3>2
  <2> HIDE DEF strikes
  <2> QED BY <1>4, <2>1
<1>5. ASSUME NEW cell \in PathSteps(objects, self.pos, goal), MonsterBecomes(steps(cell))
      PROVE  \E info \in Infos : /\ info.hp = objects[TheMonster].hp
                                /\ info.state # "idle"
                                /\ MonsterBecomes(info)
  <2>1. cell \in Int \X Int
    BY <1>2, FrontIsCell DEF PathSteps
  <2>2. steps(cell) \in Infos /\ steps(cell).hp = self.hp
    BY <1>1, <1>2, <2>1, MonsterInfos
  <2>3. steps(cell).state = "move"
    BY <1>1 DEF Infos
  <2> HIDE DEF steps
  <2> QED BY <1>5, <2>2, <2>3
<1> QED
  <2> HIDE DEF strikes, steps
  <2> QED BY <1>3, <1>4, <1>5

(* Whatever the idle monster does, it keeps its hp.                        *)
LEMMA UpdateIdleTyped ==
  ASSUME TypeOK, UpdateIdle
  PROVE  TypeOK'
<1>1. CASE UNCHANGED <<objects, told>>
  <2>1. Living(objects') /\ ViewsOK(told')
    BY <1>1, TypesApart
  <2> QED BY <2>1, TargetIsPlayer DEF UpdateIdle, TypeOK, Living, ViewsOK, MaxHp
<1>2. ASSUME NEW info \in Infos, info.hp = objects[TheMonster].hp, MonsterBecomes(info)
      PROVE  TypeOK'
  <2>1. Living(objects') /\ ViewsOK(told')
    BY <1>2, MonsterBecomesTyped DEF UpdateIdle
  <2> QED BY <2>1, TargetIsPlayer DEF UpdateIdle, TypeOK, Living, ViewsOK, MaxHp
<1> QED BY <1>1, <1>2, UpdateIdleApart

(* The end of a step changes the monster's state only.                     *)
LEMMA UpdateMoveTyped ==
  ASSUME TypeOK, UpdateMove
  PROVE  TypeOK'
<1>1. objects[TheMonster] \in Infos
  BY DEF UpdateMove, TypeOK
<1>2. [objects[TheMonster] EXCEPT !.state = "idle"] \in Infos
  BY <1>1 DEF Infos, States
<1>3. [objects[TheMonster] EXCEPT !.state = "idle"].hp = objects[TheMonster].hp
  BY <1>1 DEF Infos
<1> QED BY <1>2, <1>3 DEF UpdateMove, TypeOK

(* The ways UpdateSkill may end; the victim is a player in the room.       *)
LEMMA UpdateSkillApart ==
  ASSUME TypeOK, UpdateSkill
  PROVE  LET idle == [objects EXCEPT ![TheMonster].state = "idle"]
         IN  \/ /\ target \in Sessions \cap DOMAIN objects
                /\ InReach(objects[TheMonster].pos, objects[target].pos)
                /\ objects' = ApplyDamage(idle, told, TheMonster, target).objects
                /\ told' = TellMove(objects',
                             ApplyDamage(idle, told, TheMonster, target).told, TheMonster)
             \/ /\ objects' = idle
                /\ told' = TellMove(idle, told, TheMonster)
<1> DEFINE idle == [objects EXCEPT ![TheMonster].state = "idle"]
           strikes == LockedTarget # NoPlayer
                      /\ InReach(idle[TheMonster].pos, idle[LockedTarget].pos)
           after == IF strikes THEN ApplyDamage(idle, told, TheMonster, LockedTarget)
                    ELSE [objects |-> idle, told |-> told]
<1>1. objects' = after.objects /\ told' = TellMove(after.objects, after.told, TheMonster)
  BY DEF UpdateSkill
<1>2. CASE strikes
  <2>1. LockedTarget = target /\ target \in Sessions \cap DOMAIN objects /\ target # TheMonster
    BY <1>2, GameRoomAssumption DEF LockedTarget, TypeOK
  <2>2. idle[target] = objects[target] /\ TheMonster \in DOMAIN objects
    BY <2>1 DEF UpdateSkill
  <2>3. idle[TheMonster].pos = objects[TheMonster].pos
    BY <2>2 DEF TypeOK, Infos
  <2> QED BY <1>1, <1>2, <2>1, <2>2, <2>3
<1>3. CASE ~strikes
  <2>1. after = [objects |-> idle, told |-> told]
    BY <1>3
  <2>2. after.objects = idle /\ after.told = told
    <3> HIDE DEF idle, after
    <3> QED BY <2>1
  <2> QED BY <1>1, <2>2
<1> QED BY <1>2, <1>3

(* The end of a skill may hurt the target, which leaves if it dies.        *)
LEMMA UpdateSkillTyped ==
  ASSUME TypeOK, UpdateSkill
  PROVE  TypeOK'
<1> DEFINE idle == [objects EXCEPT ![TheMonster].state = "idle"]
<1>1. TheMonster \in DOMAIN idle /\ Living(idle) /\ ViewsOK(told)
  <2>1. TheMonster \in DOMAIN objects /\ objects[TheMonster] \in Infos
    BY DEF UpdateSkill, TypeOK
  <2>2. /\ [objects[TheMonster] EXCEPT !.state = "idle"] \in Infos
        /\ [objects[TheMonster] EXCEPT !.state = "idle"].hp = objects[TheMonster].hp
    BY <2>1 DEF Infos, States
  <2> QED BY <2>1, <2>2, TypesApart DEF Living
<1>2. ASSUME target \in Sessions \cap DOMAIN objects,
             objects' = ApplyDamage(idle, told, TheMonster, target).objects,
             told' = TellMove(objects', ApplyDamage(idle, told, TheMonster, target).told,
                               TheMonster)
      PROVE  Living(objects') /\ ViewsOK(told')
  <2>1. target \in DOMAIN idle /\ target # TheMonster
    BY <1>2, GameRoomAssumption
  <2> HIDE DEF idle
  <2> QED BY <1>1, <1>2, <2>1, BlowKeepsTypes, BlowHitsOnlyVictim, TellKeepsViews
<1>3. ASSUME objects' = idle, told' = TellMove(idle, told, TheMonster)
      PROVE  Living(objects') /\ ViewsOK(told')
  <2> HIDE DEF idle
  <2> QED BY <1>1, <1>3, TellKeepsViews
<1>4. Living(objects') /\ ViewsOK(told')
  BY <1>2, <1>3, UpdateSkillApart
<1>5. /\ status' \in [Sessions -> {"new", "connected", "gone"}]
      /\ target' \in Sessions \cup {NoPlayer} /\ moves' \in 0 .. MaxMoves
  BY DEF UpdateSkill, TypeOK
<1> QED BY <1>4, <1>5 DEF TypeOK, Living, ViewsOK, MaxHp

(* TypeOK needs nothing else to be kept by every step.                     *)
LEMMA TypeStep == TypeOK /\ [Next]_vars => TypeOK'
<1> SUFFICES ASSUME TypeOK, [Next]_vars PROVE TypeOK'
  OBVIOUS
<1>1. ASSUME NEW s \in Sessions, EnterRoom(s) PROVE TypeOK'
  BY <1>1, EnterRoomTyped
<1>2. ASSUME NEW s \in Sessions, LeaveRoom(s) PROVE TypeOK'
  BY <1>2, LeaveRoomTyped
<1>3. ASSUME NEW s \in Sessions, Handle_C_Move(s) PROVE TypeOK'
  BY <1>3, HandlesTyped DEF Handle_C_Move
<1>4. CASE Update
  BY <1>4, UpdateIdleTyped, UpdateMoveTyped, UpdateSkillTyped DEF Update
<1>5. CASE UNCHANGED vars
  BY <1>5 DEF vars, TypeOK
<1> QED BY <1>1, <1>2, <1>3, <1>4, <1>5 DEF Next

(* The variables have their types and no dead object stays in the room,    *)
(* whatever the map, the weapons and the hp (Handle_C_Move, ApplyDamage).  *)
THEOREM TypeCorrect == Spec => []TypeOK
BY InitTyped, TypeStep, PTL DEF Spec

-----------------------------------------------------------------------------
(* Replication                                                             *)

(* An announcement of x makes it known, if all else was.                   *)
LEMMA MoveTells ==
  ASSUME NEW world, NEW views, NEW x \in DOMAIN world, KnownBut(world, views, x),
         Players(world) \subseteq Sessions
  PROVE  /\ KnownBut(world, TellMove(world, views, x), x)
         /\ \A s \in Players(world) : TellMove(world, views, x)[s][x] = world[x]
<1> SUFFICES ASSUME NEW s \in Players(world)
             PROVE  /\ DOMAIN TellMove(world, views, x)[s] = DOMAIN world
                    /\ \A o \in DOMAIN world \ {x} :
                         Announced(o, world[o], TellMove(world, views, x)[s][o])
                    /\ TellMove(world, views, x)[s][x] = world[x]
  BY DEF KnownBut
<1>1. /\ s \in Sessions /\ DOMAIN views[s] = DOMAIN world
      /\ \A o \in DOMAIN world \ {x} : Announced(o, world[o], views[s][o])
  BY DEF KnownBut
<1>2. TellMove(world, views, x)[s] = With(views[s], x, world[x])
  BY <1>1 DEF TellMove
<1> QED BY <1>1, <1>2 DEF With

(* Before a handler every object is known as it is.                        *)
LEMMA ReplicatedIsKnown ==
  ASSUME Replicated, NEW x
  PROVE  KnownBut(objects, told, x)
BY DEF KnownBut, Replicated, KnowsTheRoom

(* A blow is told to everybody, even while another object, x, has still to *)
(* be announced.                                                           *)
LEMMA BlowTells ==
  ASSUME NEW world, NEW views, NEW x, KnownBut(world, views, x),
         NEW a \in DOMAIN world, NEW v \in DOMAIN world \ {x},
         Players(world) \subseteq Sessions
  PROVE  LET after == ApplyDamage(world, views, a, v)
         IN  KnownBut(after.objects, after.told, x)
<1> DEFINE newHp == HpAfter(world, a, v)
           hurt  == [world EXCEPT ![v].hp = newHp]
           rest  == Without(world, v)
<1>1. CASE newHp <= 0
  <2>1. ApplyDamage(world, views, a, v) = [objects |-> rest, told |-> TellRemove(rest, views, v)]
    BY <1>1 DEF ApplyDamage
  <2>2. KnownBut(rest, TellRemove(rest, views, v), x)
    <3> SUFFICES ASSUME NEW s \in Players(rest)
                 PROVE  /\ DOMAIN TellRemove(rest, views, v)[s] = DOMAIN rest
                        /\ \A o \in DOMAIN rest \ {x} :
                             Announced(o, rest[o], TellRemove(rest, views, v)[s][o])
      BY DEF KnownBut
    <3>1. s \in Players(world) /\ s \in Sessions
      BY DEF Players, Without
    <3>2. TellRemove(rest, views, v)[s] = Without(views[s], v)
      BY <3>1 DEF TellRemove
    <3> QED BY <3>1, <3>2 DEF KnownBut, Without
  <2> HIDE DEF rest
  <2> QED BY <2>1, <2>2
<1>2. CASE ~(newHp <= 0)
  <2>1. ApplyDamage(world, views, a, v) = [objects |-> hurt, told |-> TellMove(hurt, views, v)]
    BY <1>2 DEF ApplyDamage
  <2>2. DOMAIN hurt = DOMAIN world /\ \A o \in DOMAIN world \ {v} : hurt[o] = world[o]
    OBVIOUS
  <2>3. KnownBut(hurt, TellMove(hurt, views, v), x)
    <3> HIDE DEF hurt
    <3> SUFFICES ASSUME NEW s \in Players(hurt)
                 PROVE  /\ DOMAIN TellMove(hurt, views, v)[s] = DOMAIN hurt
                        /\ \A o \in DOMAIN hurt \ {x} :
                             Announced(o, hurt[o], TellMove(hurt, views, v)[s][o])
      BY DEF KnownBut
    <3>1. s \in Players(world) /\ s \in Sessions
      BY <2>2 DEF Players
    <3>2. TellMove(hurt, views, v)[s] = With(views[s], v, hurt[v])
      BY <3>1 DEF TellMove, KnownBut
    <3> QED BY <2>2, <3>1, <3>2 DEF KnownBut, With, Announced
  <2> HIDE DEF hurt
  <2> QED BY <2>1, <2>3
<1> QED BY <1>1, <1>2

(* Every object but the monster belongs to a session.                      *)
LEMMA PlayersAreSessions ==
  ASSUME NEW world, DOMAIN world \subseteq Ids
  PROVE  Players(world) \subseteq Sessions
BY DEF Players, Ids

(* The last step of a handler announces what it changed itself.            *)
LEMMA AnnouncedLast ==
  ASSUME NEW world, NEW views, NEW x \in DOMAIN world, KnownBut(world, views, x),
         DOMAIN world \subseteq Ids,
         objects' = world, told' = TellMove(world, views, x)
  PROVE  Replicated'
<1>1. /\ KnownBut(objects', told', x)
      /\ \A s \in Players(objects') : told'[s][x] = objects'[x]
  BY MoveTells, PlayersAreSessions
<1> QED BY <1>1 DEF KnownBut, Replicated, KnowsTheRoom, Announced

(* The new session gets all of the room, and the others the new player.    *)
LEMMA EnterRoomTold ==
  ASSUME TypeOK, Replicated, NEW s \in Sessions, EnterRoom(s)
  PROVE  Replicated'
<1> DEFINE views == [told EXCEPT ![s] = objects']
<1>1. objects' = With(objects, s, NewPlayer) /\ told' = TellAdd(objects', views, s)
  BY DEF EnterRoom
<1>2. s \in DOMAIN told /\ s # TheMonster /\ s \in Players(objects')
  BY <1>1, GameRoomAssumption DEF TypeOK, Players, With
<1> SUFFICES ASSUME NEW p \in Players(objects')
             PROVE  /\ DOMAIN told'[p] = DOMAIN objects'
                    /\ \A o \in DOMAIN objects' : Announced(o, objects'[o], told'[p][o])
  BY DEF Replicated, KnowsTheRoom
<1>3. p \in Sessions /\ told'[p] = With(views[p], s, objects'[s])
  BY <1>1, <1>2 DEF TellAdd, TypeOK, Players, With, Ids
<1>4. CASE p = s
  <2>1. views[p] = objects'
    BY <1>2, <1>4
  <2> QED BY <1>2, <1>3, <2>1 DEF With, Announced, Players
<1>5. CASE p # s
  <2>1. views[p] = told[p] /\ p \in Players(objects)
    BY <1>1, <1>3, <1>5 DEF Players, With, TypeOK
  <2>2. /\ DOMAIN told[p] = DOMAIN objects
        /\ \A o \in DOMAIN objects : Announced(o, objects[o], told[p][o])
    BY <2>1 DEF Replicated, KnowsTheRoom
  <2>3. told'[p] = With(told[p], s, objects'[s])
    BY <1>3, <2>1
  <2> HIDE DEF views
  <2>4. DOMAIN told'[p] = DOMAIN objects'
    BY <1>1, <2>2, <2>3 DEF With
  <2>5. ASSUME NEW o \in DOMAIN objects' PROVE Announced(o, objects'[o], told'[p][o])
    <3>1. CASE o = s
      BY <1>1, <2>3, <3>1 DEF With, Announced
    <3>2. CASE o # s
      BY <1>1, <2>2, <2>3, <3>2 DEF With
    <3> QED BY <3>1, <3>2
  <2> QED BY <2>4, <2>5
<1> QED BY <1>4, <1>5

(* The sessions that stay forget the player that left.                     *)
LEMMA LeaveRoomTold ==
  ASSUME TypeOK, Replicated, NEW s \in Sessions, LeaveRoom(s)
  PROVE  Replicated'
<1> DEFINE views == [told EXCEPT ![s] = Nothing]
<1> SUFFICES ASSUME NEW p \in Players(objects')
             PROVE  /\ DOMAIN told'[p] = DOMAIN objects'
                    /\ \A o \in DOMAIN objects' : Announced(o, objects'[o], told'[p][o])
  BY DEF Replicated, KnowsTheRoom
<1>1. objects' = Without(objects, s)
  BY DEF LeaveRoom
<1>2. p \in Players(objects) /\ p # s /\ p \in Sessions /\ views[p] = told[p]
  BY <1>1 DEF Players, Without, TypeOK, Ids
<1>3. /\ DOMAIN told[p] = DOMAIN objects
      /\ \A o \in DOMAIN objects : Announced(o, objects[o], told[p][o])
  BY <1>2 DEF Replicated, KnowsTheRoom
<1>4. CASE s \in DOMAIN objects
  <2>1. told'[p] = Without(told[p], s)
    BY <1>2, <1>4 DEF LeaveRoom, TellRemove
  <2> QED BY <1>1, <1>3, <2>1 DEF Without
<1>5. CASE s \notin DOMAIN objects
  <2>1. told'[p] = told[p]
    BY <1>2, <1>5 DEF LeaveRoom
  <2> QED BY <1>1, <1>3, <1>5, <2>1 DEF Without
<1> QED BY <1>4, <1>5

(* A report is echoed after the blow it gives: the sender is known last.   *)
LEMMA HandlesTold ==
  ASSUME TypeOK, Replicated, NEW s \in Sessions \cap DOMAIN objects,
         NEW pkt \in ClientMoves(objects[s]), Handles(s, pkt)
  PROVE  Replicated'
<1> DEFINE moved == With(objects, s, TakenOver(s, pkt))
<1>1. Living(moved) /\ DOMAIN moved \subseteq Ids /\ s \in DOMAIN moved
  BY ReportedLives DEF Living, With
<1>2. KnownBut(moved, told, s)
  <2>1. KnownBut(objects, told, s)
    BY ReplicatedIsKnown
  <2>2. DOMAIN moved = DOMAIN objects /\ \A o \in DOMAIN objects \ {s} : moved[o] = objects[o]
    BY DEF With
  <2> HIDE DEF moved
  <2> QED BY <2>1, <2>2 DEF KnownBut, Players
<1>3. ASSUME HitsMonster(moved, s),
             objects' = ApplyDamage(moved, told, s, TheMonster).objects,
             told' = TellMove(objects', ApplyDamage(moved, told, s, TheMonster).told, s)
      PROVE  Replicated'
  <2>1. TheMonster \in DOMAIN moved \ {s}
    BY <1>3, GameRoomAssumption DEF HitsMonster, Occupants
  <2> HIDE DEF moved
  <2>2. KnownBut(objects', ApplyDamage(moved, told, s, TheMonster).told, s)
    BY <1>1, <1>2, <1>3, <2>1, BlowTells, PlayersAreSessions
  <2>3. s \in DOMAIN objects' /\ DOMAIN objects' \subseteq Ids
    <3>1. Living(objects')
      BY <1>1, <1>3, <2>1, BlowKeepsTypes, TypesApart
    <3> QED BY <1>1, <1>3, <2>1, <3>1, BlowHitsOnlyVictim DEF Living
  <2> QED BY <1>3, <2>2, <2>3, AnnouncedLast
<1>4. ASSUME objects' = moved, told' = TellMove(moved, told, s)
      PROVE  Replicated'
  <2> HIDE DEF moved
  <2> QED BY <1>1, <1>2, <1>4, AnnouncedLast
<1> QED BY <1>3, <1>4, HandlesApart

(* SetState announces what the idle monster decides.                       *)
LEMMA UpdateIdleTold ==
  ASSUME TypeOK, Replicated, UpdateIdle
  PROVE  Replicated'
<1>1. CASE UNCHANGED <<objects, told>>
  BY <1>1 DEF Replicated, KnowsTheRoom
<1>2. ASSUME NEW info \in Infos, MonsterBecomes(info)
      PROVE  Replicated'
  <2> DEFINE world == With(objects, TheMonster, info)
  <2>1. TheMonster \in DOMAIN objects /\ DOMAIN objects \subseteq Ids
    BY DEF UpdateIdle, TypeOK
  <2>2. /\ DOMAIN world = DOMAIN objects
        /\ \A o \in DOMAIN objects \ {TheMonster} : world[o] = objects[o]
    BY <2>1 DEF With
  <2>3. objects' = world /\ told' = TellMove(world, told, TheMonster)
    BY <1>2 DEF MonsterBecomes
  <2> HIDE DEF world
  <2>4. KnownBut(world, told, TheMonster)
    BY <2>2, ReplicatedIsKnown DEF KnownBut, Players
  <2> QED BY <2>1, <2>2, <2>3, <2>4, AnnouncedLast
<1> QED BY <1>1, <1>2, UpdateIdleApart

(* The end of a step is the one change that is not announced.              *)
LEMMA UpdateMoveTold ==
  ASSUME TypeOK, Replicated, UpdateMove
  PROVE  Replicated'
<1> DEFINE self == objects[TheMonster]
           rests == [self EXCEPT !.state = "idle"]
<1>1. /\ TheMonster \in DOMAIN objects /\ self \in Infos /\ self.state = "move"
      /\ objects' = [objects EXCEPT ![TheMonster] = rests] /\ told' = told
  BY DEF UpdateMove, TypeOK
<1>2. rests.state = "idle" /\ self = [rests EXCEPT !.state = "move"]
  BY <1>1 DEF Infos
<1> SUFFICES ASSUME NEW s \in Players(objects')
             PROVE  /\ DOMAIN told'[s] = DOMAIN objects'
                    /\ \A o \in DOMAIN objects' : Announced(o, objects'[o], told'[s][o])
  BY DEF Replicated, KnowsTheRoom
<1>3. /\ DOMAIN told[s] = DOMAIN objects
      /\ \A o \in DOMAIN objects : Announced(o, objects[o], told[s][o])
  BY <1>1 DEF Replicated, KnowsTheRoom, Players
<1>4. told[s][TheMonster] = self
  BY <1>1, <1>3 DEF Announced
<1> HIDE DEF rests, self
<1>5. Announced(TheMonster, rests, told[s][TheMonster])
  BY <1>2, <1>4 DEF Announced
<1> QED BY <1>1, <1>3, <1>5 DEF Announced

(* The target is hit first; then the monster, idle again, is announced.    *)
LEMMA UpdateSkillTold ==
  ASSUME TypeOK, Replicated, UpdateSkill
  PROVE  Replicated'
<1> DEFINE idle == [objects EXCEPT ![TheMonster].state = "idle"]
<1>1. TheMonster \in DOMAIN idle /\ Living(idle) /\ DOMAIN idle \subseteq Ids
  <2>1. TheMonster \in DOMAIN objects /\ objects[TheMonster] \in Infos
    BY DEF UpdateSkill, TypeOK
  <2>2. /\ [objects[TheMonster] EXCEPT !.state = "idle"] \in Infos
        /\ [objects[TheMonster] EXCEPT !.state = "idle"].hp = objects[TheMonster].hp
    BY <2>1 DEF Infos, States
  <2> QED BY <2>1, <2>2, TypesApart DEF Living
<1>2. KnownBut(idle, told, TheMonster)
  <2>1. /\ DOMAIN idle = DOMAIN objects
        /\ \A o \in DOMAIN objects \ {TheMonster} : idle[o] = objects[o]
    OBVIOUS
  <2> HIDE DEF idle
  <2> QED BY <2>1, ReplicatedIsKnown DEF KnownBut, Players
<1>3. ASSUME target \in Sessions \cap DOMAIN objects,
             objects' = ApplyDamage(idle, told, TheMonster, target).objects,
             told' = TellMove(objects', ApplyDamage(idle, told, TheMonster, target).told,
                               TheMonster)
      PROVE  Replicated'
  <2>1. target \in DOMAIN idle \ {TheMonster}
    BY <1>3, GameRoomAssumption
  <2> HIDE DEF idle
  <2>2. KnownBut(objects', ApplyDamage(idle, told, TheMonster, target).told, TheMonster)
    BY <1>1, <1>2, <1>3, <2>1, BlowTells, PlayersAreSessions
  <2>3. TheMonster \in DOMAIN objects' /\ DOMAIN objects' \subseteq Ids
    <3>1. Living(objects')
      BY <1>1, <1>3, <2>1, BlowKeepsTypes, TypesApart
    <3> QED BY <1>1, <1>3, <2>1, <3>1, BlowHitsOnlyVictim DEF Living
  <2> QED BY <1>3, <2>2, <2>3, AnnouncedLast
<1>4. ASSUME objects' = idle, told' = TellMove(idle, told, TheMonster)
      PROVE  Replicated'
  <2> HIDE DEF idle
  <2> QED BY <1>1, <1>2, <1>4, AnnouncedLast
<1> QED BY <1>3, <1>4, UpdateSkillApart

(* Replicated is kept by every step from a state of the right types.       *)
LEMMA ReplicationStep == TypeOK /\ Replicated /\ [Next]_vars => Replicated'
<1> SUFFICES ASSUME TypeOK, Replicated, [Next]_vars PROVE Replicated'
  OBVIOUS
<1>1. ASSUME NEW s \in Sessions, EnterRoom(s) PROVE Replicated'
  BY <1>1, EnterRoomTold
<1>2. ASSUME NEW s \in Sessions, LeaveRoom(s) PROVE Replicated'
  BY <1>2, LeaveRoomTold
<1>3. ASSUME NEW s \in Sessions, Handle_C_Move(s) PROVE Replicated'
  BY <1>3, HandlesTold DEF Handle_C_Move
<1>4. CASE Update
  BY <1>4, UpdateIdleTold, UpdateMoveTold, UpdateSkillTold DEF Update
<1>5. CASE UNCHANGED vars
  BY <1>5 DEF vars, Replicated, KnowsTheRoom
<1> QED BY <1>1, <1>2, <1>3, <1>4, <1>5 DEF Next

(* Every handler tells every player's session all that it changes, for any *)
(* number of sessions (GameRoom.cpp, the calls of Broadcast).              *)
THEOREM RoomIsReplicated == Spec => []Replicated
<1>1. Init => Replicated
  BY GameRoomAssumption DEF Init, Replicated, Players, With, Nothing
<1> QED BY <1>1, TypeCorrect, ReplicationStep, PTL DEF Spec

-----------------------------------------------------------------------------
(* Wounds                                                                  *)

(* Where nobody loses hp or leaves, there is no wound.                     *)
LEMMA NoWound ==
  ASSUME TypeOK,
         \A o \in DOMAIN objects : o \in DOMAIN objects' /\ objects'[o].hp = objects[o].hp
  PROVE  WoundsAreBlows
<1>1. ASSUME NEW o PROVE ~Wounded(o)
  <2>1. CASE o \in DOMAIN objects
    <3>1. objects[o].hp \in Int
      BY <2>1 DEF TypeOK, Infos
    <3> QED BY <2>1, <3>1 DEF Wounded
  <2>2. CASE o \notin DOMAIN objects
    BY <2>2 DEF Wounded
  <2> QED BY <2>1, <2>2
<1> QED BY <1>1 DEF WoundsAreBlows

(* EnterRoom hurts nobody: a player that enters has full hp.               *)
LEMMA EnterRoomHarmless ==
  ASSUME TypeOK, NEW s \in Sessions, EnterRoom(s)
  PROVE  WoundsAreBlows
<1>1. s # TheMonster /\ NewPlayer.hp = PlayerHp /\ PlayerHp \in Nat
  BY GameRoomAssumption DEF NewPlayer
<1>2. \A o \in DOMAIN objects : objects[o].hp \in Int /\ (o = s => objects[o].hp <= PlayerHp)
  BY <1>1 DEF TypeOK, Infos
<1>3. ASSUME NEW o \in DOMAIN objects
      PROVE  /\ o \in DOMAIN objects'
             /\ objects'[o].hp = IF o = s THEN PlayerHp ELSE objects[o].hp
  BY <1>1 DEF EnterRoom, With
<1>4. \A o : ~Wounded(o)
  BY <1>1, <1>2, <1>3 DEF Wounded
<1> QED BY <1>4 DEF WoundsAreBlows

(* LeaveRoom takes one player away, whose session is then gone.            *)
LEMMA LeaveRoomHarmless ==
  ASSUME TypeOK, NEW s \in Sessions, LeaveRoom(s)
  PROVE  WoundsAreBlows
<1>1. status'[s] = "gone" /\ s # TheMonster
  BY GameRoomAssumption DEF LeaveRoom, TypeOK
<1>2. \A o \in DOMAIN objects \ {s} : o \in DOMAIN objects' /\ objects'[o] = objects[o]
  BY DEF LeaveRoom, Without
<1>3. \A o \in DOMAIN objects : objects[o].hp \in Int
  BY DEF TypeOK, Infos
<1>4. \A o \in Ids \ {s} : ~Wounded(o)
  BY <1>2, <1>3 DEF Wounded
<1> QED BY <1>1, <1>4 DEF WoundsAreBlows, Wounded, Players, TypeOK, Ids

(* A report hurts the monster only when a skill starts in front of it.     *)
LEMMA HandlesStrikes ==
  ASSUME TypeOK, NEW s \in Sessions \cap DOMAIN objects,
         NEW pkt \in ClientMoves(objects[s]), Handles(s, pkt)
  PROVE  WoundsAreBlows
<1> DEFINE moved == With(objects, s, TakenOver(s, pkt))
<1>1. /\ DOMAIN moved = DOMAIN objects /\ moved[s] = TakenOver(s, pkt)
      /\ \A o \in DOMAIN objects \ {s} : moved[o] = objects[o]
  BY DEF With
<1>2. Living(moved) /\ \A o \in DOMAIN objects : moved[o].hp = objects[o].hp
  BY <1>1, ReportedLives
<1>3. \A o \in DOMAIN objects : objects[o].hp \in Int
  BY DEF TypeOK, Infos
<1>4. ASSUME objects' = moved PROVE WoundsAreBlows
  <2> HIDE DEF moved
  <2> QED BY <1>1, <1>2, <1>3, <1>4, NoWound
<1>5. ASSUME StartsSkill(objects[s].state, pkt.state), HitsMonster(moved, s),
             objects' = ApplyDamage(moved, told, s, TheMonster).objects
      PROVE  WoundsAreBlows
  <2>1. TheMonster \in DOMAIN moved /\ s # TheMonster /\ s \in Players(objects)
    BY <1>5, GameRoomAssumption DEF HitsMonster, Occupants, Players
  <2>2. moved[TheMonster].pos = GetFrontCell(moved[s].pos, moved[s].dir)
    <3> HIDE DEF moved
    <3> QED BY <1>5 DEF HitsMonster, Occupants
  <2>3. moved[s].state = "skill" /\ objects[s].state # "skill"
    BY <1>1, <1>5 DEF StartsSkill, TakenOver
  <2> HIDE DEF moved
  <2>4. \A o \in DOMAIN objects \ {TheMonster} : o \in DOMAIN objects' /\ objects'[o] = moved[o]
    BY <1>1, <1>5, <2>1, BlowHitsOnlyVictim
  <2>5. PlayerStrikes(s)
    BY <1>1, <2>1, <2>2, <2>3, <2>4 DEF PlayerStrikes
  <2>6. \A p \in Players(objects) : ~Wounded(p)
    BY <1>2, <1>3, <2>4 DEF Wounded, Players
  <2> QED BY <2>1, <2>5, <2>6 DEF WoundsAreBlows
<1> QED BY <1>4, <1>5, HandlesApart

(* The idle monster hurts nobody yet.                                      *)
LEMMA UpdateIdleHarmless ==
  ASSUME TypeOK, UpdateIdle
  PROVE  WoundsAreBlows
<1>1. \A o \in DOMAIN objects : objects[o].hp \in Int
  BY DEF TypeOK, Infos
<1>2. CASE UNCHANGED <<objects, told>>
  BY <1>1, <1>2, NoWound
<1>3. ASSUME NEW info \in Infos, info.hp = objects[TheMonster].hp, MonsterBecomes(info)
      PROVE  WoundsAreBlows
  <2>1. \A o \in DOMAIN objects : o \in DOMAIN objects' /\ objects'[o].hp = objects[o].hp
    BY <1>3 DEF MonsterBecomes, With
  <2> QED BY <2>1, NoWound
<1> QED BY <1>2, <1>3, UpdateIdleApart

(* Nor does the end of its step.                                           *)
LEMMA UpdateMoveHarmless ==
  ASSUME TypeOK, UpdateMove
  PROVE  WoundsAreBlows
<1>1. \A o \in DOMAIN objects : objects[o] \in Infos /\ objects[o].hp \in Int
  BY DEF TypeOK, Infos
<1>2. \A o \in DOMAIN objects : o \in DOMAIN objects' /\ objects'[o].hp = objects[o].hp
  BY <1>1 DEF UpdateMove, Infos
<1> QED BY <1>1, <1>2, NoWound

(* The end of its skill hurts its target, if that is still adjacent.       *)
LEMMA UpdateSkillStrikes ==
  ASSUME TypeOK, UpdateSkill
  PROVE  WoundsAreBlows
<1> DEFINE idle == [objects EXCEPT ![TheMonster].state = "idle"]
<1>1. \A o \in DOMAIN objects : objects[o] \in Infos /\ objects[o].hp \in Int
  BY DEF TypeOK, Infos
<1>2. /\ TheMonster \in DOMAIN objects /\ objects[TheMonster].state = "skill"
      /\ DOMAIN idle = DOMAIN objects /\ idle[TheMonster].state = "idle"
      /\ \A o \in DOMAIN objects : idle[o].hp = objects[o].hp
  BY <1>1 DEF UpdateSkill, Infos
<1> HIDE DEF idle
<1>3. ASSUME objects' = idle PROVE WoundsAreBlows
  BY <1>1, <1>2, <1>3, NoWound
<1>4. ASSUME target \in Sessions \cap DOMAIN objects,
             InReach(objects[TheMonster].pos, objects[target].pos),
             objects' = ApplyDamage(idle, told, TheMonster, target).objects
      PROVE  WoundsAreBlows
  <2>1. target \in DOMAIN idle \ {TheMonster}
    BY <1>2, <1>4, GameRoomAssumption
  <2>2. \A o \in DOMAIN objects \ {target} : o \in DOMAIN objects' /\ objects'[o] = idle[o]
    BY <1>2, <1>4, <2>1, BlowHitsOnlyVictim
  <2>3. MonsterStrikes(target)
    BY <1>2, <1>4, <2>1, <2>2 DEF MonsterStrikes, InReach
  <2>4. \A o \in Ids \ {target} : ~Wounded(o)
    BY <1>1, <1>2, <2>2 DEF Wounded
  <2> QED BY <1>2, <2>1, <2>3, <2>4 DEF WoundsAreBlows, Wounded, Players, TypeOK, Ids
<1> QED BY <1>3, <1>4, UpdateSkillApart DEF idle

(* Every step from a state of the right types is free of other wounds.     *)
LEMMA WoundStep == TypeOK /\ [Next]_vars => [WoundsAreBlows]_vars
<1> SUFFICES ASSUME TypeOK, Next PROVE WoundsAreBlows
  OBVIOUS
<1>1. ASSUME NEW s \in Sessions, EnterRoom(s) PROVE WoundsAreBlows
  BY <1>1, EnterRoomHarmless
<1>2. ASSUME NEW s \in Sessions, LeaveRoom(s) PROVE WoundsAreBlows
  BY <1>2, LeaveRoomHarmless
<1>3. ASSUME NEW s \in Sessions, Handle_C_Move(s) PROVE WoundsAreBlows
  BY <1>3, HandlesStrikes DEF Handle_C_Move
<1>4. CASE Update
  BY <1>4, UpdateIdleHarmless, UpdateMoveHarmless, UpdateSkillStrikes DEF Update
<1> QED BY <1>1, <1>2, <1>3, <1>4 DEF Next

(* Nobody loses hp or dies but by a blow that reaches it (ProcessSkill and *)
(* UpdateSkill, the only callers of ApplyDamage), on every map.            *)
THEOREM WoundsNeedBlows == Spec => EveryWoundIsABlow
BY TypeCorrect, WoundStep, PTL DEF Spec, EveryWoundIsABlow
=============================================================================
