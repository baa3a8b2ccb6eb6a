--------------------------- MODULE ClientPlayProofs ---------------------------
(***************************************************************************)
(* Clients and room together, for any map, any number of sessions and of   *)
(* packets on their way: the clients drive the room as GameRoom allows,    *)
(* and what they show is what the room holds once they have caught up.     *)
(***************************************************************************)
EXTENDS ClientPlay, GameRoomProofs, SequenceTheorems

(* A player's defence is that of its weapon.                               *)
Armed(info) ==
  info.attack \in Attacks /\ info.defence = ResolveWeaponStat(info.attack).defence

(* What may stand in a scene: alive, and with a weapon if it is a player.  *)
Shown(o, info) == info \in Infos /\ info.hp > 0 /\ (o \in Sessions => Armed(info))

(* Scenes, and the rooms they can show.                                    *)
Views == {v \in UNION {[D -> Infos] : D \in SUBSET Ids} : \A o \in DOMAIN v : Shown(o, v[o])}

(* Packets of the server.                                                  *)
Packets ==
  [type : {"S_MyPlayer"}, id : Sessions, info : {NewPlayer}]
    \cup [type : {"S_AddObject"}, infos : Views]
    \cup [type : {"S_RemoveObject"}, id : Ids]
    \cup {pkt \in [type : {"S_Move"}, id : Ids, info : Infos] : Shown(pkt.id, pkt.info)}

(* The types the invariant needs: queues are sequences, scenes are views.  *)
PlayTypes ==
  /\ TypeOK
  /\ objects \in Views
  /\ toServer \in [Watched -> Seq(Reports)]
  /\ toClient \in [Watched -> Seq(Packets)]
  /\ scene \in [Watched -> Views]

(* What a player does next depends on these only.                          *)
Stands(a, b) == a.state = b.state /\ a.dir = b.dir /\ a.pos = b.pos

(* Nothing comes before S_MyPlayer, and until it has come the client is    *)
(* idle.                                                                   *)
Opening(s) ==
  /\ status[s] = "new" =>
       s \notin DOMAIN objects /\ toServer[s] = <<>> /\ toClient[s] = <<>> /\ DOMAIN scene[s] = {}
  /\ \A i \in DOMAIN toClient[s] : toClient[s][i].type = "S_MyPlayer" =>
       /\ i = 1 /\ toClient[s][i].id = s
       /\ toServer[s] = <<>> /\ DOMAIN scene[s] = {}
       /\ s \in DOMAIN objects => Stands(NewPlayer, objects[s])

(* Each report is a step from the one before, the first from what the room *)
(* has; and the own player stands where the last one says.                 *)
Chain(s) ==
  /\ \A i \in DOMAIN toServer[s] :
       toServer[s][i] \in ClientMoves(IF i = 1 THEN objects[s] ELSE toServer[s][i - 1])
  /\ s \in DOMAIN scene[s] =>
       Stands(scene[s][s],
              IF toServer[s] = <<>> THEN objects[s] ELSE toServer[s][Len(toServer[s])])

(* The packets after which session s takes over what the room has of o.    *)
Concerns(s, pkt, o) ==
  IF o = s THEN pkt.type \in {"S_MyPlayer", "S_Move"} /\ pkt.id = s ELSE About(pkt, o)

(* What all clients are told of an object: where it stands, its weapon and *)
(* its hp. Its state and direction may change without a packet             *)
(* (UpdateMove).                                                           *)
Same(a, b) ==
  a.pos = b.pos /\ a.attack = b.attack /\ a.defence = b.defence /\ a.hp = b.hp

(* The packet is true of the room.                                         *)
Tells(world, pkt, o) ==
  /\ o \in DOMAIN world <=> pkt.type # "S_RemoveObject"
  /\ pkt.type = "S_AddObject" => Same(pkt.infos[o], world[o])
  /\ pkt.type \in {"S_MyPlayer", "S_Move"} => Same(pkt.info, world[o])

(* The last packet on its way about an object is true of it.               *)
Queue(s) ==
  \A o \in Ids : \A i \in DOMAIN toClient[s] :
    Concerns(s, toClient[s][i], o) =>
      \/ Tells(objects, toClient[s][i], o)
      \/ \E j \in DOMAIN toClient[s] : j > i /\ Concerns(s, toClient[s][j], o)

(* None of the packets on their way is about the object.                   *)
Caught(s, o) == \A i \in DOMAIN toClient[s] : ~Concerns(s, toClient[s][i], o)

(* What is shown of an object that none is about is true, too.             *)
Copies(s) ==
  \A o \in DOMAIN scene[s] : Caught(s, o) =>
    /\ o \in DOMAIN objects
    /\ scene[s][o].hp <= objects[o].hp
    /\ o # s => scene[s][o].pos = objects[o].pos /\ scene[s][o].attack = objects[o].attack
    /\ o = s /\ toServer[s] = <<>> =>
         scene[s][o].attack = objects[o].attack /\ scene[s][o].defence = objects[o].defence

(* What the invariant says of one client.                                  *)
Session(s) == Opening(s) /\ (s \in DOMAIN objects => Chain(s) /\ Queue(s) /\ Copies(s))

(* The inductive invariant.                                                *)
PlayInv == PlayTypes /\ \A s \in Watched : Session(s)

-----------------------------------------------------------------------------
(* Weapons and views                                                       *)

(* A weapon is known by its attack.                                        *)
LEMMA WeaponIsKnown ==
  ASSUME NEW attack \in Attacks
  PROVE  ResolveWeaponStat(attack).attack = attack
<1>1. \E w \in WeaponStats : w.attack = attack
  BY GameRoomAssumption DEF WeaponStats
<1> QED BY <1>1 DEF ResolveWeaponStat

(* What a player picks up, it is armed with.                               *)
LEMMA PicksUp ==
  ASSUME NEW attack \in Attacks, NEW info, info.attack = ResolveWeaponStat(attack).attack,
         info.defence = ResolveWeaponStat(attack).defence
  PROVE  Armed(info) /\ info.attack = attack
BY WeaponIsKnown DEF Armed

(* A new player has the sword.                                             *)
LEMMA NewPlayerIsArmed == Armed(NewPlayer)
<1>1. NewPlayer.attack \in Attacks BY ClientPlayAssumption
<1>2. \A w \in WeaponStats : w.attack = 15 => w = [attack |-> 15, defence |-> 5]
  BY DEF WeaponStats
<1>3. ResolveWeaponStat(15) = [attack |-> 15, defence |-> 5]
  <2>1. [attack |-> 15, defence |-> 5] \in WeaponStats BY DEF WeaponStats
  <2> QED BY <1>2, <2>1 DEF ResolveWeaponStat
<1> QED BY <1>1, <1>3 DEF Armed, NewPlayer

(* A view is a function of the ids it shows.                               *)
LEMMA ViewFacts ==
  ASSUME NEW v \in Views
  PROVE  v \in [DOMAIN v -> Infos] /\ DOMAIN v \subseteq Ids /\ \A o \in DOMAIN v : Shown(o, v[o])
BY DEF Views

(* And such a function is a view.                                          *)
LEMMA IsView ==
  ASSUME NEW D \in SUBSET Ids, NEW v \in [D -> Infos], \A o \in D : Shown(o, v[o])
  PROVE  v \in Views
BY DEF Views

(* A view that gains or replaces an object stays one.                      *)
LEMMA ViewWith ==
  ASSUME NEW v \in Views, NEW o \in Ids, NEW info, Shown(o, info)
  PROVE  With(v, o, info) \in Views
<1> DEFINE D == DOMAIN v \cup {o}
           w == With(v, o, info)
<1>1. D \in SUBSET Ids BY ViewFacts
<1>2. w \in [D -> Infos] BY ViewFacts DEF With, Shown
<1>3. \A x \in D : Shown(x, w[x]) BY ViewFacts DEF With
<1> HIDE DEF D, w
<1> QED BY <1>1, <1>2, <1>3, IsView DEF w

(* So does a view that loses one.                                          *)
LEMMA ViewWithout ==
  ASSUME NEW v \in Views, NEW o
  PROVE  Without(v, o) \in Views
<1> DEFINE D == DOMAIN v \ {o}
           w == Without(v, o)
<1>1. D \in SUBSET Ids BY ViewFacts
<1>2. w \in [D -> Infos] BY ViewFacts DEF Without, Shown
<1>3. \A x \in D : Shown(x, w[x]) BY ViewFacts DEF Without
<1> HIDE DEF D, w
<1> QED BY <1>1, <1>2, <1>3, IsView DEF w

-----------------------------------------------------------------------------
(* A frame                                                                 *)

(* Frames of a scene: what has no hp left is gone.                         *)
FrameOK(f, D) ==
  /\ f \in [actors : [D -> Infos], gone : SUBSET D]
  /\ \A o \in D : f.actors[o].hp \in Nat /\ (f.actors[o].hp = 0 => o \in f.gone)

(* Only hp was lost.                                                       *)
Hurt(a, b) == b.hp <= a.hp /\ a.hp \in Nat /\ b = [a EXCEPT !.hp = b.hp]

(* Blows add up.                                                           *)
LEMMA HurtTwice ==
  ASSUME NEW a \in Infos, NEW b \in Infos, NEW c \in Infos, Hurt(a, b), Hurt(b, c), c.hp \in Nat
  PROVE  Hurt(a, c)
BY DEF Hurt, Infos

(* OnDamaged takes hp of the victim, and takes it out when none is left.   *)
LEMMA DamageHurts ==
  ASSUME NEW D, NEW f, FrameOK(f, D), NEW attacker \in Infos, NEW v \in D \ f.gone,
         NEW g, g = OnDamaged(f, attacker, v)
  PROVE  /\ FrameOK(g, D) /\ f.gone \subseteq g.gone
         /\ \A o \in D : Hurt(f.actors[o], g.actors[o])
<1> DEFINE hp == HpLeft(f, attacker, v)
<1>1. /\ f.actors[v] \in Infos /\ attacker.attack \in Int
      /\ f.actors[v].hp \in Nat /\ f.actors[v].hp > 0 /\ f.actors[v].defence \in Int
  BY DEF FrameOK, Infos
<1>2. hp \in Nat /\ hp <= f.actors[v].hp
  BY <1>1 DEF HpLeft
<1> DEFINE hurt == [f.actors EXCEPT ![v] = [f.actors[v] EXCEPT !.hp = hp]]
<1>3. g.actors = hurt
  <2>1. CASE hp = 0
    <3>1. g.actors = [f.actors EXCEPT ![v].hp = 0] BY <2>1 DEF OnDamaged
    <3> HIDE DEF hp
    <3> QED BY <2>1, <3>1
  <2>2. CASE hp # 0
    <3>1. g = [f EXCEPT !.actors[v].hp = hp] BY <2>2 DEF OnDamaged
    <3> HIDE DEF hp
    <3> QED BY <3>1 DEF FrameOK
  <2> QED BY <2>1, <2>2
<1> HIDE DEF hp
<1>4. /\ hurt \in [D -> Infos] /\ hurt[v] = [f.actors[v] EXCEPT !.hp = hp]
      /\ \A o \in D \ {v} : hurt[o] = f.actors[o]
  <2> DEFINE info == [f.actors[v] EXCEPT !.hp = hp]
  <2>1. info \in Infos BY <1>1, <1>2 DEF Infos
  <2> HIDE DEF info
  <2>2. f.actors \in [D -> Infos] BY DEF FrameOK
  <2> QED BY <2>1, <2>2 DEF info
<1> HIDE DEF hurt
<1>5. g.gone = IF hp = 0 THEN f.gone \cup {v} ELSE f.gone
  BY DEF OnDamaged, FrameOK, hp
<1>6. g \in [actors : [D -> Infos], gone : SUBSET D]
  <2>1. g = [actors |-> g.actors, gone |-> g.gone] BY DEF OnDamaged, FrameOK
  <2>2. g.gone \in SUBSET D BY <1>5 DEF FrameOK
  <2> QED BY <1>3, <1>4, <2>1, <2>2
<1>7. ASSUME NEW o \in D \ {v} PROVE Hurt(f.actors[o], g.actors[o])
  <2>1. g.actors[o] = f.actors[o] BY <1>3, <1>4
  <2>2. f.actors[o] \in Infos /\ f.actors[o].hp \in Nat BY DEF FrameOK
  <2> QED BY <2>1, <2>2 DEF Hurt, Infos
<1>8. Hurt(f.actors[v], g.actors[v])
  <2>1. g.actors[v] = [f.actors[v] EXCEPT !.hp = hp] BY <1>3, <1>4
  <2>2. g.actors[v].hp = hp BY <1>1, <2>1 DEF Infos
  <2> QED BY <1>1, <1>2, <2>1, <2>2 DEF Hurt
<1>9. \A o \in D : g.actors[o].hp \in Nat /\ (g.actors[o].hp = 0 => o \in g.gone)
  BY <1>1, <1>2, <1>3, <1>4, <1>5 DEF FrameOK, Infos
<1>10. FrameOK(g, D) BY <1>6, <1>9 DEF FrameOK
<1>11. f.gone \subseteq g.gone BY <1>5
<1> QED BY <1>7, <1>8, <1>10, <1>11

(* A blow at the cell in front hurts, or does nothing.                     *)
LEMMA StrikeHurts ==
  ASSUME NEW D, NEW f, FrameOK(f, D), NEW attacker \in Infos, NEW g \in StrikesFront(f, attacker)
  PROVE  /\ FrameOK(g, D) /\ f.gone \subseteq g.gone
         /\ \A o \in D : Hurt(f.actors[o], g.actors[o])
<1>1. CASE g = f
  <2>1. \A o \in D : Hurt(f.actors[o], f.actors[o]) BY DEF Hurt, FrameOK, Infos
  <2> QED BY <1>1, <2>1
<1>2. CASE \E o \in Present(f) : g = OnDamaged(f, attacker, o)
  <2>1. Present(f) = D \ f.gone BY DEF Present, FrameOK
  <2> QED BY <1>2, <2>1, DamageHurts
<1> QED BY <1>1, <1>2 DEF StrikesFront

(* Only hp was lost, and what an actor is doing may be over.               *)
Aged(a, b) ==
  /\ b.hp <= a.hp
  /\ b.dir = a.dir /\ b.pos = a.pos /\ b.attack = a.attack /\ b.defence = a.defence

(* A blow leaves all but the hp.                                           *)
LEMMA HurtIsAged ==
  ASSUME NEW a \in Infos, NEW b \in Infos, Hurt(a, b)
  PROVE  Aged(a, b) /\ b.state = a.state
<1>1. /\ b.hp <= a.hp /\ b = [a EXCEPT !.hp = b.hp] BY DEF Hurt
<1>2. \A h : LET c == [a EXCEPT !.hp = h]
             IN  /\ c.dir = a.dir /\ c.pos = a.pos /\ c.attack = a.attack
                 /\ c.defence = a.defence /\ c.state = a.state
  BY DEF Infos
<1> QED BY <1>1, <1>2 DEF Aged

(* SetActor replaces one actor.                                            *)
LEMMA SettingActor ==
  ASSUME NEW D, NEW f, FrameOK(f, D), NEW p \in D, NEW info \in Infos,
         info.hp = f.actors[p].hp
  PROVE  /\ FrameOK(SetActor(f, p, info), D) /\ SetActor(f, p, info).gone = f.gone
         /\ SetActor(f, p, info).actors[p] = info
         /\ \A o \in D \ {p} : SetActor(f, p, info).actors[o] = f.actors[o]
BY DEF SetActor, FrameOK

(* The monster's tick may hurt others and ends its own skill.              *)
LEMMA MonsterTicksAge ==
  ASSUME NEW D, NEW f, FrameOK(f, D), NEW g \in MonsterTicks(f)
  PROVE  /\ FrameOK(g, D) /\ f.gone \subseteq g.gone
         /\ \A o \in D : Aged(f.actors[o], g.actors[o])
         /\ \A o \in D \ {TheMonster} : g.actors[o].state = f.actors[o].state
<1>1. CASE g = f
  <2>1. \A o \in D : Aged(f.actors[o], f.actors[o]) BY DEF Aged, FrameOK, Infos
  <2> QED BY <1>1, <2>1
<1>2. CASE /\ TheMonster \in DOMAIN f.actors
           /\ \E h \in StrikesFront(f, f.actors[TheMonster]) :
                g = [h EXCEPT !.actors[TheMonster].state = "idle"]
  <2>1. TheMonster \in D /\ f.actors[TheMonster] \in Infos BY <1>2 DEF FrameOK
  <2>2. PICK h \in StrikesFront(f, f.actors[TheMonster]) :
               g = [h EXCEPT !.actors[TheMonster].state = "idle"]
    BY <1>2
  <2>3. /\ FrameOK(h, D) /\ f.gone \subseteq h.gone
        /\ \A o \in D : Hurt(f.actors[o], h.actors[o])
    BY <2>1, StrikeHurts
  <2> DEFINE info == [h.actors[TheMonster] EXCEPT !.state = "idle"]
  <2>4. info \in Infos /\ info.hp = h.actors[TheMonster].hp
    BY <2>1, <2>3 DEF FrameOK, Infos, States
  <2>5. g = SetActor(h, TheMonster, info) BY <2>1, <2>2, <2>3 DEF SetActor, FrameOK
  <2> HIDE DEF info
  <2>6. /\ FrameOK(g, D) /\ g.gone = h.gone /\ g.actors[TheMonster] = info
        /\ \A o \in D \ {TheMonster} : g.actors[o] = h.actors[o]
    BY <2>1, <2>3, <2>4, <2>5, SettingActor
  <2>7. \A o \in D : Aged(f.actors[o], h.actors[o]) /\ h.actors[o].state = f.actors[o].state
    BY <2>3, HurtIsAged DEF FrameOK
  <2>8. Aged(h.actors[TheMonster], info) BY <2>1, <2>3 DEF Aged, info, FrameOK, Infos
  <2>9. \A o \in D : Aged(f.actors[o], g.actors[o])
    BY <2>6, <2>7, <2>8, <2>1, <2>3 DEF Aged, FrameOK
  <2> QED BY <2>3, <2>6, <2>7, <2>9
<1> QED BY <1>1, <1>2 DEF MonsterTicks

(* A skill of p strikes, and then p is idle.                               *)
LEMMA SkillEnds ==
  ASSUME NEW D, NEW f, FrameOK(f, D), NEW p \in D, NEW g \in EndsSkill(f, p)
  PROVE  /\ FrameOK(g, D) /\ f.gone \subseteq g.gone
         /\ \A o \in D : Aged(f.actors[o], g.actors[o])
         /\ \A o \in D \ {p} : g.actors[o].state = f.actors[o].state
         /\ g.actors[p].state = "idle"
<1>1. f.actors[p] \in Infos BY DEF FrameOK
<1>2. \E h : /\ h = f \/ h \in StrikesFront(f, f.actors[p])
             /\ g = SetActor(h, p, [h.actors[p] EXCEPT !.state = "idle"])
  BY DEF EndsSkill
<1>3. PICK h : /\ h = f \/ h \in StrikesFront(f, f.actors[p])
               /\ g = SetActor(h, p, [h.actors[p] EXCEPT !.state = "idle"])
  BY <1>2
<1>4. /\ FrameOK(h, D) /\ f.gone \subseteq h.gone
      /\ \A o \in D : Aged(f.actors[o], h.actors[o]) /\ h.actors[o].state = f.actors[o].state
  <2>1. CASE h = f
    <3>1. \A o \in D : Aged(f.actors[o], f.actors[o]) BY DEF Aged, FrameOK, Infos
    <3> QED BY <2>1, <3>1
  <2>2. CASE h \in StrikesFront(f, f.actors[p])
    <3>1. /\ FrameOK(h, D) /\ f.gone \subseteq h.gone
          /\ \A o \in D : Hurt(f.actors[o], h.actors[o])
      BY <1>1, <2>2, StrikeHurts
    <3> QED BY <3>1, HurtIsAged DEF FrameOK
  <2> QED BY <1>3, <2>1, <2>2
<1> DEFINE info == [h.actors[p] EXCEPT !.state = "idle"]
<1>5. info \in Infos /\ info.hp = h.actors[p].hp /\ info.state = "idle"
  BY <1>4 DEF FrameOK, Infos, States
<1>6. Aged(f.actors[p], info) BY <1>4 DEF FrameOK, Infos, Aged
<1> HIDE DEF info
<1>7. /\ FrameOK(g, D) /\ g.gone = h.gone /\ g.actors[p] = info
      /\ \A o \in D \ {p} : g.actors[o] = h.actors[o]
  <2>1. g = SetActor(h, p, info) BY <1>3 DEF info
  <2> QED BY <2>1, <1>4, <1>5, SettingActor
<1> QED BY <1>4, <1>5, <1>6, <1>7

(* What the own player does in a frame, seen in its report.                *)
Acts(a, b, dirty) ==
  /\ b.hp <= a.hp
  /\ Armed(b)
  /\ dirty => Report(b) \in ClientMoves(a)
  /\ ~dirty => Stands(a, b) /\ b.attack = a.attack /\ b.defence = a.defence

(* What is reported of an armed player.                                    *)
LEMMA ReportOf ==
  ASSUME NEW info \in Infos, Armed(info)
  PROVE  /\ Report(info) \in Reports
         /\ Report(info).state = info.state /\ Report(info).dir = info.dir
         /\ Report(info).pos = info.pos /\ Report(info).attack = info.attack
BY DEF Report, Reports, Infos, Armed

(* The end of a move or of a skill is a move that ClientMoves allows.      *)
LEMMA BusyEnds ==
  ASSUME NEW a \in Infos, NEW b \in Infos, Aged(a, b), Armed(a), a.state # "idle", b.state = "idle"
  PROVE  Armed(b) /\ Report(b) \in ClientMoves(a)
<1>1. Armed(b) BY DEF Armed, Aged
<1>2. Report(b) = [state |-> "idle", dir |-> a.dir, pos |-> a.pos, attack |-> b.attack]
  BY DEF Report, Aged
<1> QED BY <1>1, <1>2 DEF ClientMoves, Armed

(* So is whatever the keys make of an idle player; and if nothing is to be *)
(* sent, nothing but hp has changed.                                       *)
LEMMA PressedActs ==
  ASSUME NEW D, NEW f, FrameOK(f, D), NEW s \in D, Armed(f.actors[s]),
         f.actors[s].state = "idle",
         NEW turn \in Keys \cup {"none"}, NEW attack \in Attacks \cup {f.actors[s].attack},
         NEW space \in BOOLEAN
  PROVE  LET g == Pressed(f, s, turn, attack, space)
             dirty == turn # "none" \/ space \/ attack # f.actors[s].attack
         IN  /\ FrameOK(g, D) /\ g.gone = f.gone
             /\ \A o \in D \ {s} : g.actors[o] = f.actors[o]
             /\ Acts(f.actors[s], g.actors[s], dirty)
<1> DEFINE a == f.actors[s]
           g == Pressed(f, s, turn, attack, space)
           weapon == ResolveWeaponStat(attack)
           dir == IF turn = "none" THEN a.dir ELSE turn
           armed == [a EXCEPT !.attack = weapon.attack, !.defence = weapon.defence,
                              !.dir = dir, !.state = IF space THEN "skill" ELSE a.state]
           next == GetFrontCell(armed.pos, armed.dir)
           info == IF turn # "none" /\ FreeInScene(f, next)
                   THEN [armed EXCEPT !.pos = next, !.state = "move"] ELSE armed
           dirty == turn # "none" \/ space \/ attack # a.attack
<1>1. a \in Infos /\ attack \in Attacks /\ Keys \subseteq Dirs
  BY ClientPlayAssumption DEF FrameOK, Armed
<1>2. weapon.attack = attack /\ weapon.attack \in Int /\ weapon.defence \in Int
  BY <1>1, WeaponIsKnown, WeaponHasStats
<1>3. dir \in Dirs BY <1>1 DEF Infos
<1>4. g = SetActor(f, s, info) BY DEF Pressed
<1> HIDE DEF weapon, dir
<1>5. /\ armed \in Infos /\ armed.hp = a.hp /\ armed.pos = a.pos /\ armed.dir = dir
      /\ armed.attack = weapon.attack /\ armed.defence = weapon.defence
      /\ armed.state = IF space THEN "skill" ELSE "idle"
  BY <1>1, <1>2, <1>3 DEF Infos, States
<1> HIDE DEF armed
<1>6. next \in Int \X Int BY <1>5, <1>3, FrontIsCell DEF Infos
<1>7. /\ info \in Infos /\ info.hp = a.hp /\ info.dir = dir
      /\ info.attack = weapon.attack /\ info.defence = weapon.defence
      /\ \/ info.pos = a.pos /\ info.state = IF space THEN "skill" ELSE "idle"
         \/ info.pos = GetFrontCell(a.pos, dir) /\ info.pos \in Walkable /\ info.state = "move"
            /\ turn # "none"
  <2>1. FreeInScene(f, next) => next \in Walkable BY DEF FreeInScene
  <2> HIDE DEF next
  <2>2. CASE turn # "none" /\ FreeInScene(f, next)
    <3>1. info = [armed EXCEPT !.pos = next, !.state = "move"] BY <2>2
    <3>2. next = GetFrontCell(a.pos, dir) BY <1>5 DEF next
    <3> QED BY <3>1, <3>2, <2>1, <2>2, <1>5, <1>6 DEF Infos, States
  <2>3. CASE ~(turn # "none" /\ FreeInScene(f, next))
    <3>1. info = armed BY <2>3
    <3> QED BY <3>1, <1>5
  <2> QED BY <2>2, <2>3
<1> HIDE DEF info, next
<1>8. /\ FrameOK(g, D) /\ g.gone = f.gone /\ g.actors[s] = info
      /\ \A o \in D \ {s} : g.actors[o] = f.actors[o]
  BY <1>4, <1>7, SettingActor
<1>9. Armed(info) BY <1>1, <1>2, <1>7 DEF weapon, Armed
<1>10. Report(info) \in ClientMoves(a)
  <2>1. Report(info) = [state |-> info.state, dir |-> dir, pos |-> info.pos, attack |-> attack]
    BY <1>2, <1>7 DEF Report
  <2> QED BY <2>1, <1>1, <1>3, <1>7 DEF ClientMoves
<1>11. ~dirty => Stands(a, info) /\ info.attack = a.attack /\ info.defence = a.defence
  <2> SUFFICES ASSUME ~dirty
               PROVE  Stands(a, info) /\ info.attack = a.attack /\ info.defence = a.defence
    OBVIOUS
  <2>1. turn = "none" /\ space = FALSE /\ attack = a.attack OBVIOUS
  <2>2. info.pos = a.pos /\ info.state = "idle" /\ info.dir = a.dir BY <2>1, <1>7 DEF dir
  <2> QED BY <2>1, <2>2, <1>2, <1>7 DEF Stands, Armed, weapon
<1>12. info.hp <= a.hp BY <1>7, <1>1 DEF Infos
<1> QED BY <1>8, <1>9, <1>10, <1>11, <1>12 DEF Acts

(* A tick of a player: what the own player does, it reports; the others    *)
(* only end what they do.                                                  *)
LEMMA PlayerTicksAct ==
  ASSUME NEW D, NEW f, FrameOK(f, D), NEW s \in Sessions,
         s \in D => Armed(f.actors[s]), NEW p \in D, NEW t \in PlayerTicks(f, s, p)
  PROVE  /\ FrameOK(t.frame, D) /\ f.gone \subseteq t.frame.gone
         /\ \A o \in D \ {p} : Aged(f.actors[o], t.frame.actors[o])
                               /\ t.frame.actors[o].state = f.actors[o].state
         /\ p = s => Acts(f.actors[s], t.frame.actors[s], t.dirty)
         /\ p # s => Aged(f.actors[p], t.frame.actors[p])
<1> DEFINE me == f.actors[p]
<1>1. me \in Infos /\ me.state \in {"idle", "move", "skill"} BY DEF FrameOK, Infos, States
<1>2. \A o \in D : Aged(f.actors[o], f.actors[o]) BY DEF Aged, FrameOK, Infos
<1>3. CASE me.state = "idle" /\ p = s
  <2>1. t \in Inputs(f, s) BY <1>3 DEF PlayerTicks
  <2>2. PICK turn \in Keys \cup {"none"}, attack \in Attacks \cup {f.actors[s].attack},
             space \in BOOLEAN :
               t = [frame |-> Pressed(f, s, turn, attack, space),
                    dirty |-> \/ turn # "none" \/ space
                              \/ attack # f.actors[s].attack]
    BY <2>1 DEF Inputs
  <2>3. /\ FrameOK(t.frame, D) /\ t.frame.gone = f.gone
        /\ \A o \in D \ {s} : t.frame.actors[o] = f.actors[o]
        /\ Acts(f.actors[s], t.frame.actors[s], t.dirty)
    <3> DEFINE g == Pressed(f, s, turn, attack, space)
               dirty == turn # "none" \/ space \/ attack # f.actors[s].attack
    <3>1. /\ FrameOK(g, D) /\ g.gone = f.gone
          /\ \A o \in D \ {s} : g.actors[o] = f.actors[o]
          /\ Acts(f.actors[s], g.actors[s], dirty)
      BY <1>3, PressedActs
    <3>2. t.frame = g /\ t.dirty = dirty BY <2>2
    <3> HIDE DEF g, dirty
    <3> QED BY <3>1, <3>2
  <2> QED BY <1>2, <1>3, <2>3
<1>4. CASE me.state = "move" /\ p = s
  <2> DEFINE info == [me EXCEPT !.state = "idle"]
  <2>1. t = [frame |-> EndsMove(f, s), dirty |-> TRUE] BY <1>4 DEF PlayerTicks
  <2>2. t.frame = SetActor(f, p, info) BY <2>1, <1>4 DEF EndsMove, SetActor, FrameOK
  <2>3. info \in Infos /\ info.hp = me.hp /\ info.state = "idle" /\ Aged(me, info)
    BY <1>1 DEF Infos, States, Aged
  <2> HIDE DEF info
  <2>4. /\ FrameOK(t.frame, D) /\ t.frame.gone = f.gone /\ t.frame.actors[p] = info
        /\ \A o \in D \ {p} : t.frame.actors[o] = f.actors[o]
    BY <2>2, <2>3, SettingActor
  <2>5. Acts(me, info, t.dirty) BY <1>1, <1>4, <2>1, <2>3, BusyEnds DEF Acts, Aged
  <2> QED BY <1>2, <1>4, <2>4, <2>5
<1>5. CASE me.state = "skill"
  <2>1. PICK g \in EndsSkill(f, p) : t = [frame |-> g, dirty |-> TRUE]
    BY <1>5 DEF PlayerTicks
  <2>2. /\ FrameOK(g, D) /\ f.gone \subseteq g.gone
        /\ \A o \in D : Aged(f.actors[o], g.actors[o])
        /\ \A o \in D \ {p} : g.actors[o].state = f.actors[o].state
        /\ g.actors[p].state = "idle"
    BY SkillEnds
  <2>3. g.actors[p] \in Infos BY <2>2 DEF FrameOK
  <2>4. p = s => Acts(me, g.actors[p], TRUE)
    BY <1>1, <1>5, <2>2, <2>3, BusyEnds DEF Acts, Aged
  <2> QED BY <2>1, <2>2, <2>4
<1> QED BY <1>1, <1>3, <1>4, <1>5 DEF PlayerTicks

(* What a player does next depends only on how it stands.                  *)
LEMMA SameMoves ==
  ASSUME NEW a, NEW b, Stands(a, b)
  PROVE  ClientMoves(a) = ClientMoves(b)
BY DEF Stands, ClientMoves

(* What happens to an actor in two parts of a frame.                       *)
LEMMA InTwoParts ==
  ASSUME NEW a \in Infos, NEW b \in Infos, NEW c \in Infos, NEW dirty
  PROVE  /\ Aged(a, b) /\ Aged(b, c) => Aged(a, c)
         /\ Acts(a, b, dirty) /\ Aged(b, c) /\ c.state = b.state => Acts(a, c, dirty)
         /\ Aged(a, b) /\ b.state = a.state /\ Acts(b, c, dirty) => Acts(a, c, dirty)
<1>1. a.hp \in Int /\ b.hp \in Int /\ c.hp \in Int BY DEF Infos
<1>2. Aged(a, b) /\ Aged(b, c) => Aged(a, c) BY <1>1 DEF Aged
<1>3. ASSUME Acts(a, b, dirty), Aged(b, c), c.state = b.state PROVE Acts(a, c, dirty)
  <2>1. Report(c) = Report(b) BY <1>3 DEF Report, Aged
  <2>2. Armed(c) BY <1>3 DEF Acts, Aged, Armed
  <2> QED BY <1>1, <1>3, <2>1, <2>2 DEF Acts, Aged, Stands
<1>4. ASSUME Aged(a, b), b.state = a.state, Acts(b, c, dirty) PROVE Acts(a, c, dirty)
  <2>1. Stands(a, b) BY <1>4 DEF Stands, Aged
  <2>2. ClientMoves(a) = ClientMoves(b) BY <2>1, SameMoves
  <2> QED BY <1>1, <1>4, <2>1, <2>2 DEF Acts, Aged, Stands
<1> QED BY <1>2, <1>3, <1>4

(* An own player that does nothing in a frame.                             *)
LEMMA IdleActs ==
  ASSUME NEW a \in Infos, NEW b \in Infos, Armed(a), Aged(a, b), b.state = a.state
  PROVE  Acts(a, b, FALSE)
BY DEF Acts, Aged, Armed, Stands

(* What a frame makes of a scene.                                          *)
LEMMA FrameEndsWell ==
  ASSUME NEW s \in Watched, scene[s] \in Views, NEW end \in FrameEnds(s)
  PROVE  LET D == DOMAIN scene[s]
             f == end.frame
         IN  /\ FrameOK(f, D) /\ end.dirty \in BOOLEAN
             /\ \A o \in D \ {s} : Aged(scene[s][o], f.actors[o])
             /\ s \in D => Acts(scene[s][s], f.actors[s], end.dirty)
             /\ s \notin D => end.dirty = FALSE
<1> DEFINE D == DOMAIN scene[s]
           start == [actors |-> scene[s], gone |-> {}]
<1>1. /\ s \in Sessions /\ D \in SUBSET Ids /\ FrameOK(start, D) /\ start.actors = scene[s]
      /\ s \in D => Armed(scene[s][s])
      /\ \A o \in D : scene[s][o] \in Infos
  <2>1. s \in Sessions BY ClientPlayAssumption
  <2> QED BY <2>1, ViewFacts DEF FrameOK, Shown, Infos
<1>2. s # TheMonster BY <1>1, GameRoomAssumption
<1> HIDE DEF start, D
<1>3. ASSUME NEW f \in MonsterTicks(start), end = [frame |-> f, dirty |-> FALSE]
      PROVE  /\ FrameOK(end.frame, D) /\ end.dirty = FALSE
             /\ \A o \in D \ {s} : Aged(scene[s][o], end.frame.actors[o])
             /\ s \in D => Acts(scene[s][s], end.frame.actors[s], FALSE)
  <2>1. /\ FrameOK(f, D)
        /\ \A o \in D : Aged(scene[s][o], f.actors[o])
        /\ s \in D => f.actors[s].state = scene[s][s].state
    BY <1>1, <1>2, MonsterTicksAge
  <2>2. s \in D => Acts(scene[s][s], f.actors[s], FALSE)
    BY <1>1, <2>1, IdleActs DEF FrameOK
  <2> QED BY <1>3, <2>1, <2>2
<1>4. ASSUME NEW p \in Players(scene[s]), NEW t \in PlayerTicks(start, s, p),
             NEW f \in MonsterTicks(t.frame), end = [frame |-> f, dirty |-> t.dirty /\ p = s]
      PROVE  /\ FrameOK(end.frame, D) /\ end.dirty \in BOOLEAN
             /\ \A o \in D \ {s} : Aged(scene[s][o], end.frame.actors[o])
             /\ s \in D => Acts(scene[s][s], end.frame.actors[s], end.dirty)
             /\ s \notin D => end.dirty = FALSE
  <2>1. p \in D /\ p # TheMonster BY DEF Players, D
  <2>2. /\ FrameOK(t.frame, D)
        /\ \A o \in D \ {p} : Aged(scene[s][o], t.frame.actors[o])
                              /\ t.frame.actors[o].state = scene[s][o].state
        /\ p = s => Acts(scene[s][s], t.frame.actors[s], t.dirty)
        /\ p # s => Aged(scene[s][p], t.frame.actors[p])
    <3>1. s \in D => Armed(start.actors[s]) BY <1>1
    <3>2. /\ FrameOK(t.frame, D)
          /\ \A o \in D \ {p} : Aged(start.actors[o], t.frame.actors[o])
                                /\ t.frame.actors[o].state = start.actors[o].state
          /\ p = s => Acts(start.actors[s], t.frame.actors[s], t.dirty)
          /\ p # s => Aged(start.actors[p], t.frame.actors[p])
      BY <1>1, <2>1, <3>1, PlayerTicksAct
    <3> QED BY <1>1, <3>2
  <2>3. /\ FrameOK(f, D)
        /\ \A o \in D : Aged(t.frame.actors[o], f.actors[o])
        /\ \A o \in D \ {TheMonster} : f.actors[o].state = t.frame.actors[o].state
    BY <2>2, MonsterTicksAge
  <2>4. \A o \in D : t.frame.actors[o] \in Infos /\ f.actors[o] \in Infos
    BY <2>2, <2>3 DEF FrameOK
  <2>5. \A o \in D \ {s} : Aged(scene[s][o], f.actors[o])
    BY <1>1, <2>2, <2>3, <2>4, InTwoParts
  <2>6. CASE p = s
    <3>1. s \in D /\ Acts(scene[s][s], f.actors[s], t.dirty)
      BY <1>1, <1>2, <2>1, <2>2, <2>3, <2>4, <2>6, InTwoParts
    <3>2. end.dirty \in BOOLEAN /\ (end.dirty <=> t.dirty) BY <1>4, <2>6
    <3>3. Acts(scene[s][s], f.actors[s], end.dirty) BY <3>1, <3>2 DEF Acts
    <3> QED BY <1>4, <2>3, <2>5, <3>1, <3>2, <3>3
  <2>7. CASE p # s
    <3>1. s \in D => Aged(scene[s][s], f.actors[s]) /\ f.actors[s].state = scene[s][s].state
      BY <1>1, <1>2, <2>2, <2>3, <2>4, <2>7, InTwoParts
    <3>2. s \in D => Acts(scene[s][s], f.actors[s], FALSE) BY <1>1, <2>4, <3>1, IdleActs
    <3>3. end.dirty = FALSE /\ end.frame = f BY <1>4, <2>7
    <3> QED BY <2>3, <2>5, <3>2, <3>3
  <2> QED BY <2>6, <2>7
<1>5. ASSUME NEW p \in Players(scene[s]), NEW f \in MonsterTicks(start),
             NEW t \in PlayerTicks(f, s, p), end = [frame |-> t.frame, dirty |-> t.dirty /\ p = s]
      PROVE  /\ FrameOK(end.frame, D) /\ end.dirty \in BOOLEAN
             /\ \A o \in D \ {s} : Aged(scene[s][o], end.frame.actors[o])
             /\ s \in D => Acts(scene[s][s], end.frame.actors[s], end.dirty)
             /\ s \notin D => end.dirty = FALSE
  <2>1. p \in D /\ p # TheMonster BY DEF Players, D
  <2>2. /\ FrameOK(f, D)
        /\ \A o \in D : Aged(scene[s][o], f.actors[o])
        /\ \A o \in D \ {TheMonster} : f.actors[o].state = scene[s][o].state
    BY <1>1, MonsterTicksAge
  <2>3. s \in D => Armed(f.actors[s]) BY <1>1, <2>2 DEF Armed, Aged
  <2>4. /\ FrameOK(t.frame, D)
        /\ \A o \in D \ {p} : Aged(f.actors[o], t.frame.actors[o])
                              /\ t.frame.actors[o].state = f.actors[o].state
        /\ p = s => Acts(f.actors[s], t.frame.actors[s], t.dirty)
        /\ p # s => Aged(f.actors[p], t.frame.actors[p])
    BY <1>1, <2>1, <2>2, <2>3, PlayerTicksAct
  <2>5. \A o \in D : t.frame.actors[o] \in Infos /\ f.actors[o] \in Infos
    BY <2>2, <2>4 DEF FrameOK
  <2>6. \A o \in D \ {s} : Aged(scene[s][o], t.frame.actors[o])
    BY <1>1, <2>2, <2>4, <2>5, InTwoParts
  <2>7. CASE p = s
    <3>1. s \in D /\ Acts(scene[s][s], t.frame.actors[s], t.dirty)
      BY <1>1, <1>2, <2>1, <2>2, <2>4, <2>5, <2>7, InTwoParts
    <3>2. end.dirty \in BOOLEAN /\ (end.dirty <=> t.dirty) BY <1>5, <2>7
    <3>3. Acts(scene[s][s], t.frame.actors[s], end.dirty) BY <3>1, <3>2 DEF Acts
    <3> QED BY <1>5, <2>4, <2>6, <3>1, <3>2, <3>3
  <2>8. CASE p # s
    <3>1. s \in D => Aged(scene[s][s], t.frame.actors[s])
                     /\ t.frame.actors[s].state = scene[s][s].state
      BY <1>1, <1>2, <2>2, <2>4, <2>5, <2>8, InTwoParts
    <3>2. s \in D => Acts(scene[s][s], t.frame.actors[s], FALSE) BY <1>1, <2>5, <3>1, IdleActs
    <3>3. end.dirty = FALSE /\ end.frame = t.frame BY <1>5, <2>8
    <3> QED BY <2>4, <2>6, <3>2, <3>3
  <2> QED BY <2>7, <2>8
<1>6. \/ \E f \in MonsterTicks(start) : end = [frame |-> f, dirty |-> FALSE]
      \/ \E p \in Players(scene[s]) : \E t \in PlayerTicks(start, s, p) :
           \E f \in MonsterTicks(t.frame) : end = [frame |-> f, dirty |-> t.dirty /\ p = s]
      \/ \E p \in Players(scene[s]) : \E f \in MonsterTicks(start) :
           \E t \in PlayerTicks(f, s, p) : end = [frame |-> t.frame, dirty |-> t.dirty /\ p = s]
  BY DEF FrameEnds, start
<1> QED BY <1>3, <1>4, <1>5, <1>6 DEF D

-----------------------------------------------------------------------------
(* Telling the clients                                                     *)

(* What nobody needs to be told.                                           *)
Kept(o) ==
  /\ o \in DOMAIN objects <=> o \in DOMAIN objects'
  /\ o \in DOMAIN objects => Same(objects[o], objects'[o])

(* A queue and what is added to it.                                        *)
LEMMA JoinedParts ==
  ASSUME NEW q \in Seq(Packets), NEW packets \in Seq(Packets), NEW r, r = q \o packets
  PROVE  /\ r \in Seq(Packets)
         /\ \A i \in DOMAIN q : i \in DOMAIN r /\ r[i] = q[i]
         /\ \A k \in DOMAIN packets : /\ Len(q) + k \in DOMAIN r /\ r[Len(q) + k] = packets[k]
                                      /\ \A i \in DOMAIN q : Len(q) + k > i
         /\ \A i \in DOMAIN r \ DOMAIN q : /\ i - Len(q) \in DOMAIN packets
                                            /\ r[i] = packets[i - Len(q)]
<1>1. /\ r \in Seq(Packets) /\ Len(r) = Len(q) + Len(packets)
      /\ Len(q) \in Nat /\ Len(packets) \in Nat
      /\ \A i \in 1 .. Len(q) : r[i] = q[i]
      /\ \A i \in 1 .. Len(packets) : r[Len(q) + i] = packets[i]
  OBVIOUS
<1>2. DOMAIN q = 1 .. Len(q) /\ DOMAIN packets = 1 .. Len(packets) /\ DOMAIN r = 1 .. Len(r)
  BY <1>1
<1>3. ASSUME NEW i \in DOMAIN r \ DOMAIN q
      PROVE  i - Len(q) \in DOMAIN packets /\ r[i] = packets[i - Len(q)]
  <2> DEFINE k == i - Len(q)
  <2>1. i \in 1 .. (Len(q) + Len(packets)) /\ i \notin 1 .. Len(q) BY <1>1, <1>2
  <2>2. k \in 1 .. Len(packets) /\ i = Len(q) + k BY <1>1, <2>1
  <2>3. r[i] = packets[k] BY <1>1, <2>2
  <2> QED BY <1>2, <2>2, <2>3
<1> QED BY <1>1, <1>2, <1>3

(* A session that is told of all that has changed can still catch up.      *)
LEMMA ToldOfAll ==
  ASSUME PlayTypes, NEW s \in Watched, Queue(s), Copies(s),
         NEW packets \in Seq(Packets),
         toClient'[s] = toClient[s] \o packets, scene'[s] = scene[s],
         toServer'[s] = toServer[s] \/ \E i \in DOMAIN packets : Concerns(s, packets[i], s),
         \A o \in Ids : \A i \in DOMAIN packets :
           Concerns(s, packets[i], o) => Tells(objects', packets[i], o),
         \A o \in Ids : Kept(o) \/ \E i \in DOMAIN packets : Concerns(s, packets[i], o)
  PROVE  Queue(s)' /\ Copies(s)'
<1> DEFINE q == toClient[s]
           r == q \o packets
<1>1. /\ q \in Seq(Packets) /\ scene[s] \in Views /\ toClient'[s] = r /\ s \in Ids
      /\ r = q \o packets
  BY ClientPlayAssumption DEF PlayTypes, Ids
<1> HIDE DEF q, r
<1>2. /\ r \in Seq(Packets)
      /\ \A i \in DOMAIN q : i \in DOMAIN r /\ r[i] = q[i]
      /\ \A k \in DOMAIN packets : /\ Len(q) + k \in DOMAIN r /\ r[Len(q) + k] = packets[k]
                                   /\ \A i \in DOMAIN q : Len(q) + k > i
      /\ \A i \in DOMAIN r \ DOMAIN q : /\ i - Len(q) \in DOMAIN packets
                                         /\ r[i] = packets[i - Len(q)]
  BY <1>1, JoinedParts
<1>6. ASSUME NEW o \in Ids, NEW i \in DOMAIN r, Concerns(s, r[i], o)
      PROVE  Tells(objects', r[i], o) \/ \E j \in DOMAIN r : j > i /\ Concerns(s, r[j], o)
  <2>1. CASE i \notin DOMAIN q
    BY <1>2, <1>6, <2>1
  <2>2. CASE i \in DOMAIN q /\ \E j \in DOMAIN q : j > i /\ Concerns(s, q[j], o)
    BY <1>2, <2>2
  <2>3. CASE i \in DOMAIN q /\ Tells(objects, q[i], o)
    <3>1. CASE \E k \in DOMAIN packets : Concerns(s, packets[k], o)
      BY <1>2, <2>3, <3>1
    <3>2. CASE Kept(o)
      BY <1>2, <2>3, <3>2 DEF Kept, Tells, Same
    <3> QED BY <3>1, <3>2
  <2>4. i \in DOMAIN q => \/ Tells(objects, q[i], o)
                          \/ \E j \in DOMAIN q : j > i /\ Concerns(s, q[j], o)
    BY <1>2, <1>6 DEF Queue, q
  <2> QED BY <1>2, <2>1, <2>2, <2>3, <2>4
<1>7. ASSUME NEW o \in DOMAIN scene[s], \A i \in DOMAIN r : ~Concerns(s, r[i], o)
      PROVE  /\ o \in DOMAIN objects'
             /\ scene[s][o].hp <= objects'[o].hp
             /\ o # s => /\ scene[s][o].pos = objects'[o].pos
                         /\ scene[s][o].attack = objects'[o].attack
             /\ o = s /\ toServer'[s] = <<>> =>
                  /\ scene[s][o].attack = objects'[o].attack
                  /\ scene[s][o].defence = objects'[o].defence
  <2>1. o \in Ids BY <1>1, ViewFacts
  <2>2. Caught(s, o) BY <1>2, <1>7 DEF Caught, q
  <2>3. \A k \in DOMAIN packets : ~Concerns(s, packets[k], o) BY <1>2, <1>7
  <2>4. Kept(o) BY <2>1, <2>3
  <2>5. o = s => toServer'[s] = toServer[s] BY <2>3
  <2> QED BY <2>2, <2>4, <2>5 DEF Copies, Kept, Same
<1>8. Queue(s)' BY <1>1, <1>6 DEF Queue
<1>9. Copies(s)' BY <1>1, <1>7 DEF Copies, Caught
<1> QED BY <1>8, <1>9

(* A handler that changes x, and maybe hurts v, announces both.            *)
Changes(x, v) ==
  /\ objects' \in Views /\ DOMAIN objects' \subseteq DOMAIN objects /\ x \in DOMAIN objects'
  /\ \A o \in DOMAIN objects \ {x, v} : o \in DOMAIN objects' /\ objects'[o] = objects[o]
  /\ v \in DOMAIN objects' =>
       /\ Stands(objects[v], objects'[v])
       /\ objects'[v].attack = objects[v].attack /\ objects'[v].defence = objects[v].defence

(* Packets that tell the truth about all that has changed.                 *)
Announcement(packets) ==
  /\ packets \in Seq(Packets)
  /\ \A i \in DOMAIN packets : /\ packets[i].type \in {"S_RemoveObject", "S_Move"}
                               /\ Tells(objects', packets[i], packets[i].id)
  /\ \A o \in Ids : Kept(o) \/ \E i \in DOMAIN packets : packets[i].id = o

(* An S_Move built from the room is true of it.                            *)
LEMMA MoveTellsAll ==
  ASSUME objects' \in Views, NEW o \in DOMAIN objects'
  PROVE  LET pkt == S_Move(o, objects'[o])
         IN  pkt \in Packets /\ pkt.type = "S_Move" /\ pkt.id = o /\ Tells(objects', pkt, o)
<1>1. o \in Ids /\ objects'[o] \in Infos /\ Shown(o, objects'[o]) BY ViewFacts
<1> QED BY <1>1 DEF S_Move, Packets, Tells, Same

(* An S_RemoveObject is true of an object that is gone.                    *)
LEMMA RemoveTellsAll ==
  ASSUME NEW o \in Ids, o \notin DOMAIN objects'
  PROVE  LET pkt == S_RemoveObject(o)
         IN  pkt \in Packets /\ pkt.type = "S_RemoveObject" /\ pkt.id = o /\ Tells(objects', pkt, o)
BY DEF S_RemoveObject, Packets, Tells

(* ApplyDamage announces what it did to its victim, or did nothing that    *)
(* needs to be known.                                                      *)
LEMMA DamageIsTold ==
  ASSUME objects \in Views, NEW x, NEW v, v # x, Changes(x, v)
  PROVE  \/ Damage(v) = <<>> /\ Kept(v)
         \/ \E pkt \in Packets : /\ Damage(v) = <<pkt>> /\ pkt.id = v
                                 /\ pkt.type \in {"S_RemoveObject", "S_Move"}
                                 /\ Tells(objects', pkt, v)
<1>1. CASE v \notin DOMAIN objects
  BY <1>1 DEF Damage, Kept, Changes
<1>2. CASE v \in DOMAIN objects /\ v \notin DOMAIN objects'
  <2>1. v \in Ids BY <1>2, ViewFacts
  <2> QED BY <1>2, <2>1, RemoveTellsAll DEF Damage
<1>3. CASE v \in DOMAIN objects /\ v \in DOMAIN objects'
  <2>1. CASE objects'[v].hp # objects[v].hp
    <3>1. Damage(v) = <<S_Move(v, objects'[v])>> BY <1>3, <2>1 DEF Damage
    <3> QED BY <1>3, <3>1, MoveTellsAll DEF Changes
  <2>2. CASE objects'[v].hp = objects[v].hp
    <3>1. Damage(v) = <<>> BY <1>3, <2>2 DEF Damage
    <3> QED BY <1>3, <2>2, <3>1 DEF Kept, Same, Changes, Stands
  <2> QED BY <2>1, <2>2
<1> QED BY <1>1, <1>2, <1>3

(* A queue of two.                                                         *)
LEMMA TwoPackets ==
  ASSUME NEW S, NEW a \in S, NEW b \in S
  PROVE  LET c == <<a>> \o <<b>> IN c \in Seq(S) /\ DOMAIN c = {1, 2} /\ c[1] = a /\ c[2] = b
<1> DEFINE c == <<a>> \o <<b>>
<1>1. /\ <<a>> \in Seq(S) /\ <<b>> \in Seq(S) /\ Len(<<a>>) = 1 /\ Len(<<b>>) = 1
      /\ <<a>>[1] = a /\ <<b>>[1] = b
  OBVIOUS
<1>2. c \in Seq(S) /\ Len(c) = 2 BY <1>1
<1>3. c[1] = a /\ c[2] = b OBVIOUS
<1>4. DOMAIN c = {1, 2} BY <1>2
<1> QED BY <1>2, <1>3, <1>4

(* Handlers tell first of the victim, then of the object they are about:   *)
(* that is all that has changed.                                           *)
LEMMA ChangeIsTold ==
  ASSUME objects \in Views, NEW x, NEW v, v # x, Changes(x, v)
  PROVE  LET packets == Damage(v) \o <<S_Move(x, objects'[x])>>
         IN  Announcement(packets) /\ \E i \in DOMAIN packets : packets[i].id = x
<1> DEFINE move == S_Move(x, objects'[x])
<1>1. /\ move \in Packets /\ move.type = "S_Move" /\ move.id = x /\ Tells(objects', move, x)
  BY MoveTellsAll DEF Changes
<1>2. \A o \in Ids \ {x, v} : Kept(o)
  BY DEF Changes, Kept, Same
<1> HIDE DEF move
<1>3. CASE Damage(v) = <<>> /\ Kept(v)
  <2>1. Damage(v) \o <<move>> = <<move>> BY <1>3
  <2>2. DOMAIN <<move>> = {1} /\ <<move>>[1] = move /\ <<move>> \in Seq(Packets) BY <1>1
  <2>3. Announcement(<<move>>) /\ <<move>>[1].id = x BY <1>1, <1>2, <1>3, <2>2 DEF Announcement
  <2> QED BY <2>1, <2>2, <2>3 DEF move
<1>4. CASE \E pkt \in Packets : /\ Damage(v) = <<pkt>> /\ pkt.id = v
                                /\ pkt.type \in {"S_RemoveObject", "S_Move"}
                                /\ Tells(objects', pkt, v)
  <2>1. PICK pkt \in Packets : /\ Damage(v) = <<pkt>> /\ pkt.id = v
                               /\ pkt.type \in {"S_RemoveObject", "S_Move"}
                               /\ Tells(objects', pkt, v)
    BY <1>4
  <2> DEFINE both == <<pkt>> \o <<move>>
  <2>2. both \in Seq(Packets) /\ DOMAIN both = {1, 2} /\ both[1] = pkt /\ both[2] = move
    BY <1>1, TwoPackets
  <2> HIDE DEF both
  <2>3. Announcement(both) /\ both[2].id = x BY <1>1, <1>2, <2>1, <2>2 DEF Announcement
  <2> QED BY <2>1, <2>2, <2>3 DEF move, both
<1> QED BY <1>3, <1>4, DamageIsTold

(* A player that is still in the room has been told of all that has        *)
(* changed.                                                                *)
LEMMA BroadcastIsTold ==
  ASSUME PlayTypes, NEW s \in Watched, s \in DOMAIN objects', Queue(s), Copies(s),
         NEW packets, Announcement(packets), Broadcast(packets),
         scene'[s] = scene[s],
         toServer'[s] = toServer[s] \/ \E i \in DOMAIN packets : packets[i].id = s
  PROVE  Queue(s)' /\ Copies(s)'
<1>1. s \in Players(objects') /\ s \in Sessions
  BY ClientPlayAssumption, GameRoomAssumption DEF Players
<1>2. toClient'[s] = toClient[s] \o packets BY <1>1 DEF Broadcast
<1>3. \A i \in DOMAIN packets : \A o : Concerns(s, packets[i], o) => packets[i].id = o
  BY DEF Announcement, Concerns, About
<1>4. \A i \in DOMAIN packets : \A o : packets[i].id = o => Concerns(s, packets[i], o)
  <2>1. ASSUME NEW i \in DOMAIN packets, packets[i].id = s PROVE packets[i].type = "S_Move"
    BY <2>1 DEF Announcement, Tells
  <2> QED BY <2>1 DEF Announcement, Concerns, About
<1>5. packets \in Seq(Packets) BY DEF Announcement
<1>6. \A o \in Ids : \A i \in DOMAIN packets :
        Concerns(s, packets[i], o) => Tells(objects', packets[i], o)
  BY <1>3 DEF Announcement
<1>7. \A o \in Ids : Kept(o) \/ \E i \in DOMAIN packets : Concerns(s, packets[i], o)
  BY <1>4 DEF Announcement
<1>8. toServer'[s] = toServer[s] \/ \E i \in DOMAIN packets : Concerns(s, packets[i], s)
  BY <1>4
<1> QED BY <1>2, <1>5, <1>6, <1>7, <1>8, ToldOfAll

-----------------------------------------------------------------------------
(* What the handlers of the room change                                    *)

(* A blow on a room that clients can be shown.                             *)
LEMMA BlowOnView ==
  ASSUME NEW world \in Views, Living(world), NEW views,
         NEW a \in DOMAIN world, NEW v \in DOMAIN world \ {a},
         NEW rest, rest = ApplyDamage(world, views, a, v).objects
  PROVE  /\ rest \in Views /\ DOMAIN rest \subseteq DOMAIN world /\ a \in DOMAIN rest
         /\ \A o \in DOMAIN world \ {v} : o \in DOMAIN rest /\ rest[o] = world[o]
         /\ v \in DOMAIN rest =>
              /\ Stands(world[v], rest[v])
              /\ rest[v].attack = world[v].attack /\ rest[v].defence = world[v].defence
<1> DEFINE newHp == HpAfter(world, a, v)
           hurt == [world EXCEPT ![v].hp = newHp]
<1>1. newHp \in Nat BY BlowHurts
<1>2. \A o \in DOMAIN world \ {v} : o \in DOMAIN rest /\ rest[o] = world[o]
  BY BlowHitsOnlyVictim
<1>3. CASE newHp <= 0
  <2>1. rest = Without(world, v) BY <1>3 DEF ApplyDamage
  <2>2. v \notin DOMAIN rest /\ DOMAIN rest \subseteq DOMAIN world
    BY <2>1 DEF Without
  <2>3. rest \in Views
    BY <2>1, ViewWithout
  <2> QED BY <1>2, <2>2, <2>3
<1>4. CASE ~(newHp <= 0)
  <2>1. rest = hurt BY <1>4 DEF ApplyDamage
  <2>2. world[v] \in Infos /\ Shown(v, world[v]) /\ world \in [DOMAIN world -> Infos]
    BY ViewFacts
  <2>3. hurt = [world EXCEPT ![v] = [world[v] EXCEPT !.hp = newHp]] OBVIOUS
  <2>4. /\ [world[v] EXCEPT !.hp = newHp] \in Infos
        /\ Shown(v, [world[v] EXCEPT !.hp = newHp])
        /\ Stands(world[v], [world[v] EXCEPT !.hp = newHp])
        /\ [world[v] EXCEPT !.hp = newHp].attack = world[v].attack
        /\ [world[v] EXCEPT !.hp = newHp].defence = world[v].defence
    <3> HIDE DEF newHp
    <3> QED BY <1>1, <1>4, <2>2 DEF Infos, Shown, Armed, Stands
  <2>5. /\ hurt \in [DOMAIN world -> Infos] /\ hurt[v] = [world[v] EXCEPT !.hp = newHp]
        /\ \A o \in DOMAIN world \ {v} : hurt[o] = world[o]
    <3> HIDE DEF newHp, hurt
    <3> QED BY <2>2, <2>3, <2>4
  <2> HIDE DEF newHp, hurt
  <2>6. \A o \in DOMAIN world : Shown(o, hurt[o])
    BY <2>4, <2>5, ViewFacts
  <2>7. hurt \in Views
    BY <2>5, <2>6, ViewFacts, IsView
  <2> QED BY <1>2, <2>1, <2>4, <2>5, <2>7
<1> QED BY <1>3, <1>4

(* What a report leaves is armed.                                          *)
LEMMA ReportedStands ==
  ASSUME TypeOK, objects \in Views, NEW s \in Sessions \cap DOMAIN objects,
         NEW pkt \in ClientMoves(objects[s])
  PROVE  /\ With(objects, s, TakenOver(s, pkt)) \in Views
         /\ Stands(pkt, TakenOver(s, pkt))
<1>1. Living(With(objects, s, TakenOver(s, pkt))) BY ReportedLives
<1>2. TakenOver(s, pkt) \in Infos /\ TakenOver(s, pkt).hp >= 1
  <2> DEFINE moved == With(objects, s, TakenOver(s, pkt))
  <2>1. s \in DOMAIN moved /\ moved[s] = TakenOver(s, pkt) BY DEF With
  <2> HIDE DEF moved
  <2>2. moved[s] \in Infos /\ moved[s].hp \in 1 .. MaxHp(s) BY <1>1, <2>1 DEF Living, moved
  <2> QED BY <2>1, <2>2 DEF Infos
<1>3. pkt.attack \in Attacks BY DEF ClientMoves
<1>4. Armed(TakenOver(s, pkt))
  BY <1>3, PicksUp DEF TakenOver
<1>5. Shown(s, TakenOver(s, pkt)) BY <1>2, <1>4 DEF Shown, Infos
<1>6. Stands(pkt, TakenOver(s, pkt)) BY DEF Stands, TakenOver
<1> QED BY <1>5, <1>6, ViewWith DEF Ids

(* Handle_C_Move changes its player, and maybe hurts the monster.          *)
LEMMA HandlesChange ==
  ASSUME TypeOK, objects \in Views, NEW s \in Sessions \cap DOMAIN objects,
         NEW pkt \in ClientMoves(objects[s]), Handles(s, pkt)
  PROVE  Changes(s, TheMonster) /\ Stands(pkt, objects'[s])
<1> DEFINE moved == With(objects, s, TakenOver(s, pkt))
<1>1. /\ moved \in Views /\ Living(moved) /\ Stands(pkt, TakenOver(s, pkt))
      /\ s # TheMonster
  BY ReportedLives, ReportedStands, GameRoomAssumption
<1>2. /\ DOMAIN moved = DOMAIN objects /\ moved[s] = TakenOver(s, pkt)
      /\ \A o \in DOMAIN objects \ {s} : moved[o] = objects[o]
  BY DEF With
<1> HIDE DEF moved
<1>3. \/ /\ HitsMonster(moved, s)
         /\ objects' = ApplyDamage(moved, told, s, TheMonster).objects
      \/ objects' = moved
  BY HandlesApart DEF moved
<1>4. CASE objects' = moved
  BY <1>1, <1>2, <1>4 DEF Changes, Stands
<1>5. CASE HitsMonster(moved, s) /\ objects' = ApplyDamage(moved, told, s, TheMonster).objects
  <2>1. TheMonster \in DOMAIN moved \ {s} /\ s \in DOMAIN moved
    BY <1>1, <1>2, <1>5 DEF HitsMonster, Occupants
  <2>2. /\ objects' \in Views /\ DOMAIN objects' \subseteq DOMAIN moved /\ s \in DOMAIN objects'
        /\ \A o \in DOMAIN moved \ {TheMonster} : o \in DOMAIN objects' /\ objects'[o] = moved[o]
        /\ TheMonster \in DOMAIN objects' =>
             /\ Stands(moved[TheMonster], objects'[TheMonster])
             /\ objects'[TheMonster].attack = moved[TheMonster].attack
             /\ objects'[TheMonster].defence = moved[TheMonster].defence
    BY <1>1, <1>5, <2>1, BlowOnView
  <2> QED BY <1>1, <1>2, <2>1, <2>2 DEF Changes
<1> QED BY <1>3, <1>4, <1>5

(* The end of a skill changes the monster, and maybe hurts the target.     *)
LEMMA UpdateSkillChange ==
  ASSUME TypeOK, objects \in Views, UpdateSkill
  PROVE  Changes(TheMonster, target) /\ target # TheMonster
<1> DEFINE idle == [objects EXCEPT ![TheMonster].state = "idle"]
<1>1. TheMonster \in DOMAIN objects /\ target # TheMonster
  BY GameRoomAssumption DEF UpdateSkill, TypeOK
<1>2. /\ DOMAIN idle = DOMAIN objects
      /\ idle[TheMonster] = [objects[TheMonster] EXCEPT !.state = "idle"]
      /\ \A o \in DOMAIN objects \ {TheMonster} : idle[o] = objects[o]
  BY <1>1
<1>3. objects[TheMonster] \in Infos /\ objects[TheMonster].hp \in 1 .. MonsterHp
  BY <1>1, GameRoomAssumption DEF TypeOK
<1>4. /\ idle[TheMonster] \in Infos /\ idle[TheMonster].hp = objects[TheMonster].hp
  <2> HIDE DEF idle
  <2> QED BY <1>2, <1>3 DEF Infos, States
<1> HIDE DEF idle
<1>5. idle \in [DOMAIN objects -> Infos] /\ \A o \in DOMAIN objects : Shown(o, idle[o])
  <2>1. /\ objects \in [DOMAIN objects -> Infos] /\ DOMAIN objects \subseteq Ids
        /\ \A o \in DOMAIN objects : Shown(o, objects[o])
    BY ViewFacts
  <2>2. Shown(TheMonster, idle[TheMonster])
    BY <1>3, <1>4, GameRoomAssumption DEF Shown
  <2>3. idle = [o \in DOMAIN objects |-> idle[o]] BY <1>2 DEF idle
  <2> QED BY <1>2, <1>4, <2>1, <2>2, <2>3
<1>6. idle \in Views
  BY <1>5, ViewFacts, IsView
<1>7. Living(idle)
  <2>1. Living(objects) BY TypesApart
  <2> QED BY <1>1, <1>2, <1>4, <2>1 DEF Living
<1>8. \/ /\ target \in Sessions \cap DOMAIN objects
         /\ objects' = ApplyDamage(idle, told, TheMonster, target).objects
      \/ objects' = idle
  BY UpdateSkillApart DEF idle
<1>9. CASE objects' = idle
  BY <1>1, <1>2, <1>6, <1>9 DEF Changes, Stands
<1>10. CASE /\ target \in Sessions \cap DOMAIN objects
            /\ objects' = ApplyDamage(idle, told, TheMonster, target).objects
  <2>1. TheMonster \in DOMAIN idle /\ target \in DOMAIN idle \ {TheMonster}
    BY <1>1, <1>2, <1>10
  <2>2. /\ objects' \in Views /\ DOMAIN objects' \subseteq DOMAIN idle
        /\ TheMonster \in DOMAIN objects'
        /\ \A o \in DOMAIN idle \ {target} : o \in DOMAIN objects' /\ objects'[o] = idle[o]
        /\ target \in DOMAIN objects' =>
             /\ Stands(idle[target], objects'[target])
             /\ objects'[target].attack = idle[target].attack
             /\ objects'[target].defence = idle[target].defence
    BY <1>6, <1>7, <1>10, <2>1, BlowOnView
  <2> QED BY <1>1, <1>2, <2>1, <2>2 DEF Changes
<1> QED BY <1>1, <1>8, <1>9, <1>10

(* A monster that goes on, and nothing else.                               *)
LEMMA MonsterChanges ==
  ASSUME TypeOK, objects \in Views, NEW info \in Infos, TheMonster \in DOMAIN objects,
         info.hp = objects[TheMonster].hp, objects' = With(objects, TheMonster, info)
  PROVE  Changes(TheMonster, NoPlayer)
<1>1. info.hp > 0 BY GameRoomAssumption DEF TypeOK
<1>2. Shown(TheMonster, info) BY <1>1, GameRoomAssumption DEF Shown
<1>3. With(objects, TheMonster, info) \in Views BY <1>2, ViewWith DEF Ids
<1>4. NoPlayer \notin DOMAIN objects' /\ NoPlayer \notin DOMAIN objects
  <2>1. DOMAIN objects \subseteq Ids /\ NoPlayer \notin Ids
    BY GameRoomAssumption DEF TypeOK, Ids
  <2> QED BY <2>1 DEF With
<1>5. /\ DOMAIN objects' = DOMAIN objects
      /\ \A o \in DOMAIN objects \ {TheMonster} : objects'[o] = objects[o]
  BY DEF With
<1> QED BY <1>3, <1>4, <1>5 DEF Changes

(* What nobody needs to be told.                                           *)
LEMMA NothingIsTold ==
  ASSUME toClient \in [Watched -> Seq(Packets)], \A o \in Ids : Kept(o), UNCHANGED toClient
  PROVE  Announcement(<<>>) /\ Broadcast(<<>>)
<1>1. Announcement(<<>>) BY DEF Announcement
<1>2. \A s \in Watched : toClient[s] \o <<>> = toClient[s]
  <2> TAKE s \in Watched
  <2>1. toClient[s] \in Seq(Packets) OBVIOUS
  <2> QED BY <2>1
<1> QED BY <1>1, <1>2 DEF Broadcast

(* What a step of the room tells is all that the players need.             *)
Settles ==
  /\ objects' \in Views /\ DOMAIN objects' \subseteq DOMAIN objects
  /\ \A s \in Players(objects') : Stands(objects[s], objects'[s])
  /\ \E packets : Announcement(packets) /\ Broadcast(packets)

(* The monster's change and its victim's are told.                         *)
LEMMA ChangeSettles ==
  ASSUME objects \in Views, NEW v, v # TheMonster, Changes(TheMonster, v),
         Broadcast(Damage(v) \o <<S_Move(TheMonster, objects'[TheMonster])>>)
  PROVE  Settles
<1>1. Announcement(Damage(v) \o <<S_Move(TheMonster, objects'[TheMonster])>>)
  BY ChangeIsTold
<1>2. /\ objects' \in Views /\ DOMAIN objects' \subseteq DOMAIN objects
      /\ \A s \in Players(objects') : Stands(objects[s], objects'[s])
  BY DEF Changes, Players, Stands
<1> QED BY <1>1, <1>2 DEF Settles

(* Whatever Update does is told, or need not be.                           *)
LEMMA RoomSettles ==
  ASSUME PlayTypes, RoomUpdates
  PROVE  Settles /\ UNCHANGED <<status, toServer, scene>>
<1>1. TypeOK /\ objects \in Views /\ toClient \in [Watched -> Seq(Packets)] BY DEF PlayTypes
<1>2. UNCHANGED <<status, toServer, scene>>
  BY DEF RoomUpdates, UpdateIdle, UpdateMove, UpdateSkill
<1>3. CASE UpdateSkill /\ Broadcast(Damage(target) \o <<S_Move(TheMonster, objects'[TheMonster])>>)
  BY <1>1, <1>2, <1>3, UpdateSkillChange, ChangeSettles
<1>4. CASE UpdateMove /\ UNCHANGED toClient
  <2> DEFINE info == [objects[TheMonster] EXCEPT !.state = "idle"]
  <2>1. TheMonster \in DOMAIN objects /\ objects[TheMonster] \in Infos
    BY <1>1, <1>4 DEF UpdateMove, TypeOK
  <2>2. objects' = [objects EXCEPT ![TheMonster] = info]
    BY <1>4 DEF UpdateMove
  <2>3. info \in Infos /\ info.hp = objects[TheMonster].hp /\ Same(objects[TheMonster], info)
    BY <2>1 DEF Infos, States, Same
  <2> HIDE DEF info
  <2>4. objects' = With(objects, TheMonster, info)
    BY <1>1, <2>1, <2>2, ViewFacts DEF With
  <2>5. Changes(TheMonster, NoPlayer) BY <1>1, <2>1, <2>3, <2>4, MonsterChanges
  <2>6. /\ DOMAIN objects' = DOMAIN objects /\ objects'[TheMonster] = info
        /\ \A o \in DOMAIN objects \ {TheMonster} : objects'[o] = objects[o]
    BY <2>1, <2>4 DEF With
  <2>7. \A o \in Ids : Kept(o) BY <2>3, <2>6 DEF Kept, Same
  <2>8. Announcement(<<>>) /\ Broadcast(<<>>) BY <1>1, <1>4, <2>7, NothingIsTold
  <2>9. /\ objects' \in Views
        /\ \A s \in Players(objects') : Stands(objects[s], objects'[s])
    BY <2>5, <2>6 DEF Changes, Players, Stands
  <2> QED BY <1>2, <2>6, <2>8, <2>9 DEF Settles
<1>5. CASE /\ UpdateIdle
           /\ Broadcast(IF objects' = objects THEN <<>>
                        ELSE <<S_Move(TheMonster, objects'[TheMonster])>>)
  <2>1. CASE objects' = objects
    <3>1. Broadcast(<<>>) BY <1>5, <2>1
    <3>2. Announcement(<<>>) BY <2>1 DEF Announcement, Kept, Same
    <3>3. \A s \in Players(objects') : Stands(objects[s], objects'[s]) BY <2>1 DEF Stands
    <3> QED BY <1>1, <1>2, <2>1, <3>1, <3>2, <3>3 DEF Settles
  <2>2. CASE objects' # objects
    <3>1. TheMonster \in DOMAIN objects BY <1>5 DEF UpdateIdle
    <3>2. PICK info \in Infos : /\ info.hp = objects[TheMonster].hp
                                /\ objects' = With(objects, TheMonster, info)
      BY <1>1, <1>5, <2>2, UpdateIdleApart DEF MonsterBecomes
    <3>3. Changes(TheMonster, NoPlayer) BY <1>1, <3>1, <3>2, MonsterChanges
    <3>4. NoPlayer \notin DOMAIN objects /\ NoPlayer # TheMonster
      BY <1>1, GameRoomAssumption DEF TypeOK, Ids
    <3>5. Damage(NoPlayer) = <<>> BY <3>4 DEF Damage
    <3> DEFINE move == S_Move(TheMonster, objects'[TheMonster])
    <3>6. Broadcast(<<move>>) BY <1>5, <2>2
    <3> HIDE DEF move
    <3>7. Damage(NoPlayer) \o <<move>> = <<move>> BY <3>5
    <3>8. Broadcast(Damage(NoPlayer) \o <<move>>) BY <3>6, <3>7
    <3> QED BY <1>1, <1>2, <3>3, <3>4, <3>8, ChangeSettles DEF move
  <2> QED BY <2>1, <2>2
<1> QED BY <1>3, <1>4, <1>5 DEF RoomUpdates

-----------------------------------------------------------------------------
(* What a step leaves to the sessions it is not about                      *)

(* No packet of a broadcast is an S_MyPlayer.                              *)
LEMMA OpeningKept ==
  ASSUME NEW s \in Watched, Opening(s), toClient[s] \in Seq(Packets),
         status'[s] = status[s], toServer'[s] = toServer[s], scene'[s] = scene[s],
         s \in DOMAIN objects' => s \in DOMAIN objects /\ Stands(objects[s], objects'[s]),
         \/ toClient'[s] = toClient[s]
         \/ /\ s \in DOMAIN objects'
            /\ \E packets \in Seq(Packets) :
                 /\ toClient'[s] = toClient[s] \o packets
                 /\ \A i \in DOMAIN packets : packets[i].type # "S_MyPlayer"
  PROVE  Opening(s)'
<1>1. ASSUME status'[s] = "new"
      PROVE  /\ s \notin DOMAIN objects' /\ toServer'[s] = <<>> /\ toClient'[s] = <<>>
             /\ DOMAIN scene'[s] = {}
  BY <1>1 DEF Opening
<1>2. ASSUME NEW i \in DOMAIN toClient'[s], toClient'[s][i].type = "S_MyPlayer"
      PROVE  i \in DOMAIN toClient[s] /\ toClient'[s][i] = toClient[s][i]
  <2>1. CASE toClient'[s] = toClient[s] BY <1>2, <2>1
  <2>2. CASE \E packets \in Seq(Packets) :
               /\ toClient'[s] = toClient[s] \o packets
               /\ \A k \in DOMAIN packets : packets[k].type # "S_MyPlayer"
    <3>1. PICK packets \in Seq(Packets) :
               /\ toClient'[s] = toClient[s] \o packets
               /\ \A k \in DOMAIN packets : packets[k].type # "S_MyPlayer"
      BY <2>2
    <3> QED BY <1>2, <3>1, JoinedParts
  <2> QED BY <2>1, <2>2
<1>3. ASSUME NEW i \in DOMAIN toClient'[s], toClient'[s][i].type = "S_MyPlayer"
      PROVE  /\ i = 1 /\ toClient'[s][i].id = s
             /\ toServer'[s] = <<>> /\ DOMAIN scene'[s] = {}
             /\ s \in DOMAIN objects' => Stands(NewPlayer, objects'[s])
  <2>1. /\ i = 1 /\ toClient[s][i].id = s
        /\ toServer[s] = <<>> /\ DOMAIN scene[s] = {}
        /\ s \in DOMAIN objects => Stands(NewPlayer, objects[s])
    BY <1>2, <1>3 DEF Opening
  <2> QED BY <1>2, <1>3, <2>1 DEF Stands
<1> QED BY <1>1, <1>3 DEF Opening

(* The reports on their way stay moves of a player that stands as before.  *)
LEMMA ChainKept ==
  ASSUME NEW s \in Watched, Chain(s), Stands(objects[s], objects'[s]),
         toServer'[s] = toServer[s], scene'[s] = scene[s]
  PROVE  Chain(s)'
<1>1. ClientMoves(objects'[s]) = ClientMoves(objects[s]) BY SameMoves
<1>2. \A i \in DOMAIN toServer'[s] :
        toServer'[s][i] \in ClientMoves(IF i = 1 THEN objects'[s] ELSE toServer'[s][i - 1])
  BY <1>1 DEF Chain
<1>3. s \in DOMAIN scene'[s] =>
       Stands(scene'[s][s],
              IF toServer'[s] = <<>> THEN objects'[s] ELSE toServer'[s][Len(toServer'[s])])
  BY DEF Chain, Stands
<1> QED BY <1>2, <1>3 DEF Chain

(* A session that a step of the room only tells of it.                     *)
LEMMA TellingKeeps ==
  ASSUME PlayTypes, NEW s \in Watched, Session(s), DOMAIN objects' \subseteq DOMAIN objects,
         s \in DOMAIN objects' => Stands(objects[s], objects'[s]),
         status'[s] = status[s], toServer'[s] = toServer[s], scene'[s] = scene[s],
         NEW packets, Announcement(packets), Broadcast(packets)
  PROVE  Session(s)'
<1>1. s \in Sessions /\ s # TheMonster BY ClientPlayAssumption, GameRoomAssumption
<1>2. toClient[s] \in Seq(Packets) BY DEF PlayTypes
<1>3. /\ s \in DOMAIN objects' => toClient'[s] = toClient[s] \o packets
      /\ s \notin DOMAIN objects' => toClient'[s] = toClient[s]
  BY <1>1 DEF Broadcast, Players
<1>4. packets \in Seq(Packets) /\ \A i \in DOMAIN packets : packets[i].type # "S_MyPlayer"
  BY DEF Announcement
<1>5. Opening(s)' BY <1>2, <1>3, <1>4, OpeningKept DEF Session
<1>6. ASSUME s \in DOMAIN objects' PROVE Chain(s)' /\ Queue(s)' /\ Copies(s)'
  BY <1>6, ChainKept, BroadcastIsTold DEF Session
<1> QED BY <1>5, <1>6 DEF Session

(* A session that a step has nothing to do with.                           *)
LEMMA SessionUnchanged ==
  ASSUME NEW s, Session(s), objects' = objects,
         status'[s] = status[s], toServer'[s] = toServer[s], toClient'[s] = toClient[s],
         scene'[s] = scene[s]
  PROVE  Session(s)'
BY DEF Session, Opening, Chain, Queue, Copies, Caught

-----------------------------------------------------------------------------
(* The steps                                                               *)

(* Of the reports on their way, the first is a move of the player in the   *)
(* room.                                                                   *)
LEMMA FirstReport ==
  ASSUME PlayInv, NEW s \in Watched, toServer[s] # <<>>, s \in DOMAIN objects
  PROVE  /\ Head(toServer[s]) \in ClientMoves(objects[s]) /\ s \in Sessions \cap DOMAIN objects
         /\ Head(toServer[s]) = toServer[s][1]
<1>1. toServer[s] \in Seq(Reports) /\ s \in Sessions
  BY ClientPlayAssumption DEF PlayInv, PlayTypes
<1>2. 1 \in DOMAIN toServer[s] /\ Head(toServer[s]) = toServer[s][1] BY <1>1
<1>3. Chain(s) BY DEF PlayInv, Session
<1> QED BY <1>1, <1>2, <1>3 DEF Chain

(* The clients drive the room as GameRoom lets them.                       *)
LEMMA ClientsStepRoom ==
  ASSUME PlayInv, [PlayNext]_playVars
  PROVE  [Next]_vars
<1>1. ASSUME NEW s \in Sessions, Enters(s) PROVE Next BY <1>1 DEF Enters, Next
<1>2. ASSUME NEW s \in Sessions, Leaves(s) PROVE Next BY <1>2 DEF Leaves, Next
<1>3. ASSUME NEW s \in Watched, ServerReceives(s) PROVE Next
  <2>1. Handles(s, Head(toServer[s])) /\ s \in DOMAIN objects
    BY <1>3 DEF ServerReceives, Handles
  <2>2. Head(toServer[s]) \in ClientMoves(objects[s]) /\ s \in Sessions
    BY <1>3, <2>1, FirstReport DEF ServerReceives
  <2> QED BY <2>1, <2>2 DEF Handle_C_Move, Next
<1>4. ASSUME NEW s \in Watched, ServerIgnores(s) \/ Frame(s) \/ ClientReceives(s)
      PROVE  UNCHANGED vars
  BY <1>4 DEF ServerIgnores, Frame, ClientReceives, room
<1>5. ASSUME NEW s \in Sessions \ Watched, OthersReport(s) PROVE Next
  BY <1>5 DEF OthersReport, Handle_C_Move, Next
<1>6. CASE RoomUpdates BY <1>6 DEF RoomUpdates, Update, Next
<1>7. CASE UNCHANGED playVars BY <1>7 DEF playVars, vars
<1> QED BY <1>1, <1>2, <1>3, <1>4, <1>5, <1>6, <1>7 DEF PlayNext

(* Queues that a broadcast adds to.                                        *)
LEMMA BroadcastTypes ==
  ASSUME PlayTypes, NEW packets, Announcement(packets), Broadcast(packets)
  PROVE  toClient' \in [Watched -> Seq(Packets)]
<1>1. packets \in Seq(Packets) BY DEF Announcement
<1>2. \A s \in Watched : toClient[s] \in Seq(Packets) /\ toClient[s] \o packets \in Seq(Packets)
  <2> TAKE s \in Watched
  <2>1. toClient[s] \in Seq(Packets) BY DEF PlayTypes
  <2> QED BY <1>1, <2>1
<1> QED BY <1>2 DEF Broadcast

(* A queue without its head.                                               *)
LEMMA TailParts ==
  ASSUME NEW S, NEW q \in Seq(S), q # <<>>
  PROVE  /\ Tail(q) \in Seq(S) /\ Head(q) = q[1] /\ 1 \in DOMAIN q
         /\ Len(Tail(q)) = Len(q) - 1 /\ Len(q) \in Nat \ {0}
         /\ \A i \in DOMAIN Tail(q) : i \in Nat \ {0} /\ i + 1 \in DOMAIN q /\ Tail(q)[i] = q[i + 1]
         /\ \A i \in DOMAIN q : i = 1 \/ i - 1 \in DOMAIN Tail(q)
         /\ Tail(q) = <<>> <=> Len(q) = 1
<1>1. Len(q) \in Nat \ {0} /\ DOMAIN q = 1 .. Len(q) OBVIOUS
<1>2. Tail(q) \in Seq(S) /\ Len(Tail(q)) = Len(q) - 1 OBVIOUS
<1>3. DOMAIN Tail(q) = 1 .. (Len(q) - 1) BY <1>2
<1>4. \A i \in 1 .. (Len(q) - 1) : Tail(q)[i] = q[i + 1] OBVIOUS
<1>5. Head(q) = q[1] OBVIOUS
<1>6. Tail(q) = <<>> <=> Len(q) = 1
  <2> DEFINE rest == Tail(q)
  <2>1. rest \in Seq(S) /\ Len(rest) = Len(q) - 1 BY <1>2
  <2> HIDE DEF rest
  <2>2. rest = <<>> <=> Len(rest) = 0 BY <2>1, EmptySeq
  <2> QED BY <1>1, <2>1, <2>2 DEF rest
<1> QED BY <1>1, <1>2, <1>3, <1>4, <1>5, <1>6

(* The server takes over the first report: the others now follow it.       *)
LEMMA ServerReceivesKeeps ==
  ASSUME PlayInv, TypeOK', NEW s \in Watched, ServerReceives(s)
  PROVE  PlayInv'
<1> DEFINE q == toServer[s]
           pkt == Head(q)
           packets == Damage(TheMonster) \o <<S_Move(s, objects'[s])>>
<1>1. /\ Handles(s, pkt) /\ s \in DOMAIN objects /\ q # <<>> /\ Broadcast(packets)
      /\ toServer' = [toServer EXCEPT ![s] = Tail(q)] /\ scene' = scene /\ status' = status
  BY DEF ServerReceives, Handles
<1>2. /\ q \in Seq(Reports) /\ toServer \in [Watched -> Seq(Reports)]
      /\ scene \in [Watched -> Views] /\ TypeOK /\ objects \in Views
  BY DEF PlayInv, PlayTypes
<1>3. pkt \in ClientMoves(objects[s]) /\ s \in Sessions \cap DOMAIN objects /\ s # TheMonster
  BY <1>1, FirstReport, GameRoomAssumption
<1>4. pkt = q[1] /\ Tail(q) \in Seq(Reports) BY <1>1, <1>2, TailParts
<1> HIDE DEF pkt, q
<1>5. Changes(s, TheMonster) /\ Stands(pkt, objects'[s])
  BY <1>1, <1>2, <1>3, HandlesChange
<1>6. Announcement(packets) /\ \E i \in DOMAIN packets : packets[i].id = s
  BY <1>2, <1>3, <1>5, ChangeIsTold
<1> HIDE DEF packets
<1>7. toClient' \in [Watched -> Seq(Packets)]
  BY <1>1, <1>6, BroadcastTypes DEF PlayInv
<1>8. toServer'[s] = Tail(q) /\ \A o \in Watched \ {s} : toServer'[o] = toServer[o]
  BY <1>1, <1>2
<1>9. PlayTypes'
  <2>1. toServer' \in [Watched -> Seq(Reports)] BY <1>1, <1>2, <1>4
  <2> QED BY <1>1, <1>2, <1>5, <1>7, <2>1 DEF PlayTypes, Changes
<1>10. ASSUME NEW o \in Watched \ {s} PROVE Session(o)'
  <2>1. DOMAIN objects' \subseteq DOMAIN objects BY <1>5 DEF Changes
  <2>2. o \in DOMAIN objects' => Stands(objects[o], objects'[o])
    BY <1>5, <2>1 DEF Changes, Stands
  <2>3. PlayTypes /\ Session(o) BY DEF PlayInv
  <2> QED BY <1>1, <1>6, <1>8, <2>1, <2>2, <2>3, TellingKeeps
<1>11. Session(s)'
  <2>1. PlayTypes /\ Opening(s) /\ Chain(s) /\ Queue(s) /\ Copies(s)
    BY <1>1 DEF PlayInv, Session
  <2>2. status[s] # "new" /\ \A i \in DOMAIN toClient[s] : toClient[s][i].type # "S_MyPlayer"
    BY <1>1, <2>1 DEF Opening, q
  <2>3. Opening(s)'
    <3>1. s \in DOMAIN objects' /\ s \in Players(objects')
      BY <1>3, <1>5 DEF Changes, Players
    <3>2. toClient'[s] = toClient[s] \o packets BY <1>1, <3>1 DEF Broadcast
    <3>3. /\ toClient[s] \in Seq(Packets) /\ packets \in Seq(Packets)
          /\ \A i \in DOMAIN packets : packets[i].type # "S_MyPlayer"
      BY <1>6, <2>1 DEF Announcement, PlayTypes
    <3>4. \A i \in DOMAIN toClient'[s] : toClient'[s][i].type # "S_MyPlayer"
      BY <2>2, <3>2, <3>3, JoinedParts
    <3> QED BY <1>1, <2>2, <3>4 DEF Opening
  <2>4. Chain(s)'
    <3>1. /\ \A i \in DOMAIN q : q[i] \in ClientMoves(IF i = 1 THEN objects[s] ELSE q[i - 1])
          /\ s \in DOMAIN scene[s] =>
               Stands(scene[s][s], IF q = <<>> THEN objects[s] ELSE q[Len(q)])
      BY <2>1 DEF Chain, q
    <3>2. ClientMoves(objects'[s]) = ClientMoves(q[1]) BY <1>4, <1>5, SameMoves
    <3>3. ASSUME NEW i \in DOMAIN Tail(q)
          PROVE  Tail(q)[i] \in ClientMoves(IF i = 1 THEN objects'[s] ELSE Tail(q)[i - 1])
      <4>1. /\ i \in Nat \ {0} /\ i + 1 \in DOMAIN q /\ Tail(q)[i] = q[i + 1]
        BY <1>1, <1>2, TailParts
      <4>2. q[i + 1] \in ClientMoves(q[i])
        <5>1. i + 1 # 1 /\ (i + 1) - 1 = i BY <4>1
        <5> QED BY <3>1, <4>1, <5>1
      <4>3. CASE i = 1 BY <3>2, <4>1, <4>2, <4>3
      <4>4. CASE i # 1
        <5>1. i - 1 \in DOMAIN Tail(q)
          <6>1. DOMAIN Tail(q) = 1 .. Len(Tail(q)) BY <1>4
          <6>2. Len(Tail(q)) \in Nat BY <1>4
          <6> QED BY <4>1, <4>4, <6>1, <6>2
        <5>2. Tail(q)[i - 1] = q[(i - 1) + 1] BY <1>1, <1>2, <5>1, TailParts
        <5>3. (i - 1) + 1 = i BY <4>1
        <5> QED BY <4>1, <4>2, <4>4, <5>2, <5>3
      <4> QED BY <4>3, <4>4
    <3>4. ASSUME s \in DOMAIN scene[s]
          PROVE  Stands(scene[s][s], IF Tail(q) = <<>> THEN objects'[s] ELSE Tail(q)[Len(Tail(q))])
      <4>1. Stands(scene[s][s], q[Len(q)]) BY <1>1, <3>1, <3>4
      <4>2. Len(Tail(q)) = Len(q) - 1 /\ Len(q) \in Nat \ {0} /\ (Tail(q) = <<>> <=> Len(q) = 1)
        BY <1>1, <1>2, TailParts
      <4>3. CASE Tail(q) = <<>>
        BY <1>4, <1>5, <4>1, <4>2, <4>3 DEF Stands
      <4>4. CASE Tail(q) # <<>>
        <5>1. Len(Tail(q)) \in DOMAIN Tail(q)
          <6>1. DOMAIN Tail(q) = 1 .. Len(Tail(q)) BY <1>4
          <6> QED BY <4>2, <4>4, <6>1
        <5>2. Tail(q)[Len(Tail(q))] = q[Len(Tail(q)) + 1] BY <1>1, <1>2, <5>1, TailParts
        <5>3. Len(Tail(q)) + 1 = Len(q) BY <4>2
        <5> QED BY <4>1, <4>4, <5>2, <5>3
      <4> QED BY <4>3, <4>4
    <3> QED BY <1>1, <1>8, <3>3, <3>4 DEF Chain
  <2>5. s \in DOMAIN objects' /\ scene'[s] = scene[s] BY <1>1, <1>5 DEF Changes
  <2>6. Queue(s)' /\ Copies(s)'
    BY <1>1, <1>6, <2>1, <2>5, BroadcastIsTold
  <2> QED BY <2>3, <2>4, <2>6 DEF Session
<1>12. \A o \in Watched : Session(o)' BY <1>10, <1>11
<1> QED BY <1>9, <1>12 DEF PlayInv

(* A report of a player that is no longer in the room is dropped.          *)
LEMMA ServerIgnoresKeeps ==
  ASSUME PlayInv, TypeOK', NEW s \in Watched, ServerIgnores(s)
  PROVE  PlayInv'
<1>1. /\ toServer[s] # <<>> /\ s \notin DOMAIN objects
      /\ toServer' = [toServer EXCEPT ![s] = Tail(toServer[s])]
      /\ objects' = objects /\ status' = status /\ toClient' = toClient /\ scene' = scene
  BY DEF ServerIgnores, room, vars
<1>2. PlayTypes BY DEF PlayInv
<1>3. toServer' \in [Watched -> Seq(Reports)]
  <2>1. toServer[s] \in Seq(Reports) BY <1>2 DEF PlayTypes
  <2>2. Tail(toServer[s]) \in Seq(Reports) BY <1>1, <2>1, TailParts
  <2> QED BY <1>1, <1>2, <2>2 DEF PlayTypes
<1>4. PlayTypes' BY <1>1, <1>2, <1>3 DEF PlayTypes
<1>5. ASSUME NEW o \in Watched \ {s} PROVE Session(o)'
  <2>1. toServer'[o] = toServer[o] BY <1>1, <1>2 DEF PlayTypes
  <2> QED BY <1>1, <2>1, SessionUnchanged DEF PlayInv
<1>6. Session(s)'
  <2>1. Opening(s) BY DEF PlayInv, Session
  <2> QED BY <1>1, <2>1 DEF Session, Opening
<1> QED BY <1>4, <1>5, <1>6 DEF PlayInv

(* A step of the room that is told tells every client.                     *)
LEMMA SettlingKeeps ==
  ASSUME PlayInv, TypeOK', UNCHANGED <<status, toServer, scene>>,
         objects' \in Views, DOMAIN objects' \subseteq DOMAIN objects,
         \A s \in Watched \cap DOMAIN objects' : Stands(objects[s], objects'[s]),
         NEW packets, Announcement(packets), Broadcast(packets)
  PROVE  PlayInv'
<1>1. PlayTypes BY DEF PlayInv
<1>2. toClient' \in [Watched -> Seq(Packets)] BY <1>1, BroadcastTypes
<1>3. PlayTypes' BY <1>1, <1>2 DEF PlayTypes
<1>4. ASSUME NEW s \in Watched PROVE Session(s)'
  <2>1. Session(s) BY DEF PlayInv
  <2> QED BY <1>1, <2>1, TellingKeeps
<1> QED BY <1>3, <1>4 DEF PlayInv

(* A report of a client that is not watched.                               *)
LEMMA OthersReportKeeps ==
  ASSUME PlayInv, TypeOK', NEW s \in Sessions \ Watched, OthersReport(s)
  PROVE  PlayInv'
<1> DEFINE packets == Damage(TheMonster) \o <<S_Move(s, objects'[s])>>
<1>1. PICK pkt \in ClientMoves(objects[s]) : Handles(s, pkt) BY DEF OthersReport
<1>2. /\ s \in Sessions \cap DOMAIN objects /\ Broadcast(packets) /\ s # TheMonster
      /\ UNCHANGED <<status, toServer, scene>>
  BY <1>1, GameRoomAssumption DEF OthersReport, Handles
<1>3. TypeOK /\ objects \in Views BY DEF PlayInv, PlayTypes
<1>4. Changes(s, TheMonster) BY <1>1, <1>2, <1>3, HandlesChange
<1>5. Announcement(packets) BY <1>2, <1>3, <1>4, ChangeIsTold
<1> HIDE DEF packets
<1>6. objects' \in Views /\ DOMAIN objects' \subseteq DOMAIN objects BY <1>4 DEF Changes
<1>7. \A o \in Watched \cap DOMAIN objects' : Stands(objects[o], objects'[o])
  BY <1>4, <1>6 DEF Changes, Stands
<1> QED BY <1>2, <1>5, <1>6, <1>7, SettlingKeeps

(* A step of the monster.                                                  *)
LEMMA RoomUpdatesKeeps ==
  ASSUME PlayInv, TypeOK', RoomUpdates
  PROVE  PlayInv'
<1>1. Settles /\ UNCHANGED <<status, toServer, scene>> BY RoomSettles DEF PlayInv
<1>2. PICK packets : Announcement(packets) /\ Broadcast(packets) BY <1>1 DEF Settles
<1>3. Watched \cap DOMAIN objects' \subseteq Players(objects')
  BY ClientPlayAssumption, GameRoomAssumption DEF Players
<1> QED BY <1>1, <1>2, <1>3, SettlingKeeps DEF Settles

(* EnterRoom tells the new session of all that is there, the others of it. *)
LEMMA EntersKeeps ==
  ASSUME PlayInv, TypeOK', NEW s \in Sessions, Enters(s)
  PROVE  PlayInv'
<1> DEFINE added == S_AddObject([o \in {s} |-> objects'[s]])
           hello == <<S_MyPlayer(s, objects'[s]), S_AddObject(objects), added>>
<1>1. /\ status[s] = "new" /\ objects' = With(objects, s, NewPlayer)
      /\ status' = [status EXCEPT ![s] = "connected"]
      /\ toServer' = toServer /\ scene' = scene
      /\ toClient' = [x \in Watched |->
           IF x = s THEN hello
           ELSE IF x \in Players(objects') THEN Append(toClient[x], added)
           ELSE toClient[x]]
  BY DEF Enters, EnterRoom
<1>2. /\ PlayTypes /\ TypeOK /\ objects \in Views /\ toClient \in [Watched -> Seq(Packets)]
      /\ toServer \in [Watched -> Seq(Reports)] /\ scene \in [Watched -> Views]
  BY DEF PlayInv, PlayTypes
<1>3. Shown(s, NewPlayer) /\ s \in Ids /\ s # TheMonster
  BY NewObjects, NewPlayerIsArmed, GameRoomAssumption DEF Shown, Ids, NewPlayer
<1>4. objects' \in Views BY <1>1, <1>2, <1>3, ViewWith
<1>5. /\ s \in DOMAIN objects' /\ objects'[s] = NewPlayer
      /\ \A o \in DOMAIN objects \ {s} : o \in DOMAIN objects' /\ objects'[o] = objects[o]
      /\ DOMAIN objects' = DOMAIN objects \cup {s}
  BY <1>1 DEF With
<1>6. /\ added \in Packets /\ added.type = "S_AddObject" /\ DOMAIN added.infos = {s}
      /\ added.infos[s] = objects'[s]
  <2> DEFINE one == [o \in {s} |-> objects'[s]]
  <2>1. one \in [{s} -> Infos] /\ one[s] = NewPlayer /\ {s} \in SUBSET Ids
    BY <1>3, <1>5 DEF Shown
  <2>2. one \in Views BY <1>3, <2>1, IsView
  <2>3. DOMAIN one = {s} /\ one[s] = objects'[s] OBVIOUS
  <2> HIDE DEF one
  <2>4. added = [type |-> "S_AddObject", infos |-> one] BY DEF S_AddObject, one
  <2> HIDE DEF added
  <2> QED BY <2>2, <2>3, <2>4 DEF Packets
<1> HIDE DEF added
<1>7. /\ S_MyPlayer(s, objects'[s]) \in Packets /\ S_AddObject(objects) \in Packets
  BY <1>2, <1>5 DEF S_MyPlayer, S_AddObject, Packets
<1>8. /\ hello \in Seq(Packets) /\ DOMAIN hello = {1, 2, 3}
      /\ hello[1] = [type |-> "S_MyPlayer", id |-> s, info |-> objects'[s]]
      /\ hello[2] = [type |-> "S_AddObject", infos |-> objects]
      /\ hello[3] = added
  BY <1>6, <1>7 DEF S_MyPlayer, S_AddObject
<1> HIDE DEF hello
<1>9. PlayTypes'
  <2>1. \A x \in Watched : Append(toClient[x], added) \in Seq(Packets)
    <3> TAKE x \in Watched
    <3>1. toClient[x] \in Seq(Packets) BY <1>2
    <3> QED BY <1>6, <3>1
  <2>2. toClient' \in [Watched -> Seq(Packets)] BY <1>1, <1>2, <1>8, <2>1
  <2> QED BY <1>1, <1>2, <1>4, <2>2 DEF PlayTypes
<1>10. ASSUME s \in Watched PROVE Session(s)'
  <2>1. /\ s \notin DOMAIN objects /\ toServer[s] = <<>> /\ DOMAIN scene[s] = {}
    BY <1>1, <1>10 DEF PlayInv, Session, Opening
  <2>2. toClient'[s] = hello BY <1>1, <1>10
  <2>3. status'[s] = "connected" BY <1>1, <1>2 DEF TypeOK
  <2>4. Opening(s)'
    <3>1. \A i \in DOMAIN hello : hello[i].type = "S_MyPlayer" => i = 1 /\ hello[i].id = s
      BY <1>6, <1>8
    <3>2. toServer'[s] = <<>> /\ DOMAIN scene'[s] = {} /\ Stands(NewPlayer, objects'[s])
      BY <1>1, <1>5, <2>1 DEF Stands
    <3>3. status'[s] # "new" BY <2>3
    <3> QED BY <2>2, <3>1, <3>2, <3>3 DEF Opening
  <2>5. Chain(s)' BY <1>1, <2>1 DEF Chain
  <2>6. ASSUME NEW o \in Ids, NEW i \in {1, 2, 3}, Concerns(s, hello[i], o)
        PROVE  Tells(objects', hello[i], o)
    BY <1>5, <1>6, <1>8, <2>1, <2>6 DEF Concerns, About, Tells, Same
  <2>7. Queue(s)' BY <1>8, <2>2, <2>6 DEF Queue
  <2>8. Copies(s)' BY <1>1, <2>1 DEF Copies
  <2> QED BY <2>4, <2>5, <2>7, <2>8 DEF Session
<1>11. ASSUME NEW x \in Watched \ {s} PROVE Session(x)'
  <2>1. x \in Sessions /\ Session(x) /\ x # TheMonster /\ toClient[x] \in Seq(Packets)
    BY <1>2, ClientPlayAssumption, GameRoomAssumption DEF PlayInv
  <2>2. status'[x] = status[x] BY <1>1, <1>2 DEF TypeOK
  <2> DEFINE packets == <<added>>
  <2>3. packets \in Seq(Packets) /\ DOMAIN packets = {1} /\ packets[1] = added BY <1>6
  <2>4. x \in DOMAIN objects' => toClient'[x] = toClient[x] \o packets
    <3>1. x \in DOMAIN objects' => toClient'[x] = Append(toClient[x], added)
      BY <1>1, <2>1 DEF Players
    <3>2. Append(toClient[x], added) = toClient[x] \o packets BY <1>6, <2>1
    <3> QED BY <3>1, <3>2
  <2> HIDE DEF packets
  <2>5. x \notin DOMAIN objects' => toClient'[x] = toClient[x]
    BY <1>1 DEF Players
  <2>6. x \in DOMAIN objects' => x \in DOMAIN objects /\ objects'[x] = objects[x] BY <1>5
  <2>7. Opening(x)'
    <3>1. x \in DOMAIN objects' => x \in DOMAIN objects /\ Stands(objects[x], objects'[x])
      BY <2>6 DEF Stands
    <3>2. \A i \in DOMAIN packets : packets[i].type # "S_MyPlayer" BY <1>6, <2>3
    <3>3. Opening(x) /\ toServer'[x] = toServer[x] /\ scene'[x] = scene[x]
      BY <1>1, <2>1 DEF Session
    <3> QED BY <2>1, <2>2, <2>3, <2>4, <2>5, <3>1, <3>2, <3>3, OpeningKept
  <2>8. ASSUME x \in DOMAIN objects' PROVE Chain(x)' /\ Queue(x)' /\ Copies(x)'
    <3>1. Chain(x) /\ Queue(x) /\ Copies(x) BY <2>1, <2>6, <2>8 DEF Session
    <3>2. Chain(x)' BY <1>1, <2>6, <2>8, <3>1, ChainKept DEF Stands
    <3>3. \A o : Concerns(x, added, o) <=> o = s
      BY <1>6 DEF Concerns, About
    <3>4. Tells(objects', added, s) BY <1>5, <1>6 DEF Tells, Same
    <3>5. \A o \in Ids : \A i \in DOMAIN packets :
            Concerns(x, packets[i], o) => Tells(objects', packets[i], o)
      BY <2>3, <3>3, <3>4
    <3>6. \A o \in Ids : Kept(o) \/ \E i \in DOMAIN packets : Concerns(x, packets[i], o)
      BY <1>5, <2>3, <3>3 DEF Kept, Same
    <3>7. toServer'[x] = toServer[x] /\ scene'[x] = scene[x] BY <1>1
    <3> QED BY <1>2, <2>3, <2>4, <2>8, <3>1, <3>2, <3>5, <3>6, <3>7, ToldOfAll
  <2> QED BY <2>7, <2>8 DEF Session
<1>12. \A x \in Watched : Session(x)' BY <1>10, <1>11
<1> QED BY <1>9, <1>12 DEF PlayInv

(* LeaveRoom tells the others, and nothing is on its way to or from it.    *)
LEMMA LeavesKeeps ==
  ASSUME PlayInv, TypeOK', NEW s \in Sessions, Leaves(s)
  PROVE  PlayInv'
<1>1. /\ status[s] = "connected" /\ objects' = Without(objects, s)
      /\ status' = [status EXCEPT ![s] = "gone"]
      /\ toClient' = [x \in Watched |->
           IF x = s THEN <<>>
           ELSE IF s \in DOMAIN objects /\ x \in Players(objects')
           THEN Append(toClient[x], S_RemoveObject(s)) ELSE toClient[x]]
      /\ toServer' = [x \in Watched |-> IF x = s THEN <<>> ELSE toServer[x]]
      /\ scene' = [x \in Watched |-> IF x = s THEN Nothing ELSE scene[x]]
  BY DEF Leaves, LeaveRoom
<1>2. /\ PlayTypes /\ TypeOK /\ objects \in Views /\ toClient \in [Watched -> Seq(Packets)]
      /\ toServer \in [Watched -> Seq(Reports)] /\ scene \in [Watched -> Views]
  BY DEF PlayInv, PlayTypes
<1>3. /\ objects' \in Views /\ s \notin DOMAIN objects'
      /\ DOMAIN objects' = DOMAIN objects \ {s}
      /\ \A o \in DOMAIN objects \ {s} : objects'[o] = objects[o]
  BY <1>1, <1>2, ViewWithout DEF Without
<1> DEFINE removed == S_RemoveObject(s)
<1>4. removed \in Packets /\ removed.type = "S_RemoveObject" /\ removed.id = s /\ s \in Ids
      /\ Tells(objects', removed, s)
  BY <1>3, RemoveTellsAll DEF Ids
<1> HIDE DEF removed
<1>5. PlayTypes'
  <2>1. \A x \in Watched : Append(toClient[x], removed) \in Seq(Packets)
    <3> TAKE x \in Watched
    <3>1. toClient[x] \in Seq(Packets) BY <1>2
    <3> QED BY <1>4, <3>1
  <2>2. toClient' \in [Watched -> Seq(Packets)] BY <1>1, <1>2, <2>1 DEF removed
  <2>3. toServer' \in [Watched -> Seq(Reports)] BY <1>1, <1>2
  <2>4. Nothing \in Views
    <3>1. Nothing \in [{} -> Infos] BY DEF Nothing
    <3> QED BY <3>1, IsView
  <2>5. scene' \in [Watched -> Views] BY <1>1, <1>2, <2>4
  <2> QED BY <1>3, <2>2, <2>3, <2>5 DEF PlayTypes
<1>6. ASSUME s \in Watched PROVE Session(s)'
  <2>1. status'[s] = "gone" /\ toClient'[s] = <<>> BY <1>1, <1>2, <1>6 DEF TypeOK
  <2>2. Opening(s)' BY <2>1 DEF Opening
  <2> QED BY <1>3, <2>2 DEF Session
<1>7. ASSUME NEW x \in Watched \ {s} PROVE Session(x)'
  <2>1. x \in Sessions /\ Session(x) /\ x # TheMonster /\ toClient[x] \in Seq(Packets)
    BY <1>2, ClientPlayAssumption, GameRoomAssumption DEF PlayInv
  <2>2. /\ status'[x] = status[x] /\ toServer'[x] = toServer[x] /\ scene'[x] = scene[x]
    BY <1>1, <1>2 DEF TypeOK
  <2>3. x \in DOMAIN objects' => x \in DOMAIN objects /\ objects'[x] = objects[x] BY <1>3
  <2>4. x \in DOMAIN objects' => Stands(objects[x], objects'[x]) BY <2>3 DEF Stands
  <2>5. PICK packets \in Seq(Packets) :
          /\ x \in DOMAIN objects' => toClient'[x] = toClient[x] \o packets
          /\ x \notin DOMAIN objects' => toClient'[x] = toClient[x]
          /\ \A i \in DOMAIN packets : packets[i] = removed
          /\ s \in DOMAIN objects => \E i \in DOMAIN packets : packets[i] = removed
    <3>1. CASE s \in DOMAIN objects
      <4> DEFINE one == <<removed>>
      <4>1. one \in Seq(Packets) /\ DOMAIN one = {1} /\ one[1] = removed BY <1>4
      <4>2. Append(toClient[x], removed) = toClient[x] \o one BY <1>4, <2>1
      <4>3. x \in DOMAIN objects' => toClient'[x] = Append(toClient[x], removed)
        BY <1>1, <2>1, <3>1 DEF Players, removed
      <4>4. x \notin DOMAIN objects' => toClient'[x] = toClient[x] BY <1>1 DEF Players
      <4> HIDE DEF one
      <4> QED BY <4>1, <4>2, <4>3, <4>4
    <3>2. CASE s \notin DOMAIN objects
      <4>1. toClient'[x] = toClient[x] BY <1>1, <3>2
      <4>2. toClient[x] \o <<>> = toClient[x] BY <2>1
      <4>3. <<>> \in Seq(Packets) /\ DOMAIN <<>> = {} OBVIOUS
      <4> QED BY <3>2, <4>1, <4>2, <4>3
    <3> QED BY <3>1, <3>2
  <2>6. Opening(x)'
    <3>1. \A i \in DOMAIN packets : packets[i].type # "S_MyPlayer" BY <1>4, <2>5
    <3>2. Opening(x) BY <2>1 DEF Session
    <3> QED BY <2>1, <2>2, <2>3, <2>4, <2>5, <3>1, <3>2, OpeningKept
  <2>7. ASSUME x \in DOMAIN objects' PROVE Chain(x)' /\ Queue(x)' /\ Copies(x)'
    <3>1. Chain(x) /\ Queue(x) /\ Copies(x) BY <2>1, <2>3, <2>7 DEF Session
    <3>2. Chain(x)' BY <2>2, <2>4, <2>7, <3>1, ChainKept
    <3>3. \A o : Concerns(x, removed, o) <=> o = s
      BY <1>4 DEF Concerns, About
    <3>4. \A o \in Ids : \A i \in DOMAIN packets :
            Concerns(x, packets[i], o) => Tells(objects', packets[i], o)
      BY <1>4, <2>5, <3>3
    <3>5. \A o \in Ids : Kept(o) \/ \E i \in DOMAIN packets : Concerns(x, packets[i], o)
      <4> TAKE o \in Ids
      <4>1. CASE o = s /\ s \in DOMAIN objects BY <2>5, <3>3, <4>1
      <4>2. CASE ~(o = s /\ s \in DOMAIN objects) BY <1>3, <4>2 DEF Kept, Same
      <4> QED BY <4>1, <4>2
    <3> QED BY <1>2, <2>2, <2>5, <2>7, <3>1, <3>2, <3>4, <3>5, ToldOfAll
  <2> QED BY <2>6, <2>7 DEF Session
<1>8. \A x \in Watched : Session(x)' BY <1>6, <1>7
<1> QED BY <1>5, <1>8 DEF PlayInv

(* A frame sends what the own player has done, and no more.                *)
LEMMA FrameKeeps ==
  ASSUME PlayInv, TypeOK', NEW s \in Watched, Frame(s)
  PROVE  PlayInv'
<1>1. PICK end \in FrameEnds(s) :
        /\ scene' = [scene EXCEPT ![s] = [o \in Present(end.frame) |-> end.frame.actors[o]]]
        /\ toServer' = SyncToServer(s, end)
  BY DEF Frame
<1>2. /\ objects' = objects /\ status' = status /\ toClient' = toClient /\ scene[s] # Nothing
  BY DEF Frame, room, vars
<1>3. /\ PlayTypes /\ scene \in [Watched -> Views] /\ scene[s] \in Views
      /\ toServer \in [Watched -> Seq(Reports)] /\ s \in Sessions
  BY ClientPlayAssumption DEF PlayInv, PlayTypes
<1> DEFINE f == end.frame
           view == [o \in Present(f) |-> f.actors[o]]
           D == DOMAIN scene[s]
           q == toServer[s]
<1>4. /\ FrameOK(f, D) /\ end.dirty \in BOOLEAN
      /\ \A o \in D \ {s} : Aged(scene[s][o], f.actors[o])
      /\ s \in D => Acts(scene[s][s], f.actors[s], end.dirty)
      /\ s \notin D => end.dirty = FALSE
  BY <1>3, FrameEndsWell
<1>5. /\ scene' = [scene EXCEPT ![s] = view]
      /\ scene'[s] = view /\ \A x \in Watched \ {s} : scene'[x] = scene[x]
  BY <1>1, <1>3
<1>6. /\ DOMAIN view \subseteq D /\ \A o \in DOMAIN view : view[o] = f.actors[o]
      /\ \A o \in DOMAIN view : f.actors[o] \in Infos /\ f.actors[o].hp > 0
  BY <1>4 DEF Present, FrameOK
<1>7. D \subseteq Ids /\ \A o \in D : Shown(o, scene[s][o]) BY <1>3, ViewFacts
<1>8. view \in Views
  <2>1. \A o \in DOMAIN view : Shown(o, view[o])
    <3> TAKE o \in DOMAIN view
    <3>1. o = s => Armed(f.actors[o]) BY <1>4, <1>6 DEF Acts
    <3>2. o # s /\ o \in Sessions => Armed(f.actors[o])
      BY <1>4, <1>6, <1>7 DEF Aged, Armed, Shown
    <3> QED BY <1>6, <3>1, <3>2 DEF Shown
  <2>2. view \in [DOMAIN view -> Infos] /\ DOMAIN view \in SUBSET Ids BY <1>6, <1>7
  <2> HIDE DEF view
  <2> QED BY <2>1, <2>2, IsView
<1>9. D # {}
  <2>1. scene[s] = [o \in D |-> scene[s][o]] BY <1>3, ViewFacts
  <2> QED BY <1>2, <2>1 DEF Nothing
<1> HIDE DEF f, view, D
<1>10. ASSUME end.dirty
       PROVE  /\ PlayTypes' /\ (s \in DOMAIN objects => Chain(s)')
              /\ toServer'[s] # <<>>
              /\ \A x \in Watched \ {s} : toServer'[x] = toServer[x]
  <2> DEFINE report == Report(f.actors[s])
  <2>1. s \in D /\ Acts(scene[s][s], f.actors[s], TRUE) BY <1>4, <1>10
  <2>2. f.actors[s] \in Infos BY <1>4, <2>1 DEF FrameOK
  <2>3. /\ report \in Reports /\ report \in ClientMoves(scene[s][s])
        /\ Stands(f.actors[s], report)
    BY <2>1, <2>2, ReportOf DEF Acts, Stands
  <2> HIDE DEF report
  <2>4. /\ toServer'[s] = Append(q, report) /\ toServer' \in [Watched -> Seq(Reports)]
        /\ \A x \in Watched \ {s} : toServer'[x] = toServer[x]
    <3>1. toServer' = [toServer EXCEPT ![s] = Append(q, report)]
      BY <1>1, <1>10 DEF SyncToServer, report, f
    <3>2. Append(q, report) \in Seq(Reports) BY <1>3, <2>3
    <3> QED BY <1>3, <3>1, <3>2
  <2>5. PlayTypes' BY <1>2, <1>3, <1>5, <1>8, <2>4 DEF PlayTypes
  <2>6. ASSUME s \in DOMAIN objects PROVE Chain(s)'
    <3>1. Chain(s) BY <2>6 DEF PlayInv, Session
    <3>2. /\ \A i \in DOMAIN q : q[i] \in ClientMoves(IF i = 1 THEN objects[s] ELSE q[i - 1])
          /\ Stands(scene[s][s], IF q = <<>> THEN objects[s] ELSE q[Len(q)])
      BY <2>1, <3>1 DEF Chain, D
    <3>3. report \in ClientMoves(IF q = <<>> THEN objects[s] ELSE q[Len(q)])
      BY <2>3, <3>2, SameMoves
    <3> DEFINE r == Append(q, report)
    <3> HIDE DEF q
    <3>4. /\ r \in Seq(Reports) /\ Len(r) = Len(q) + 1 /\ Len(q) \in Nat
          /\ DOMAIN r = 1 .. Len(q) + 1 /\ DOMAIN q = 1 .. Len(q)
          /\ \A i \in 1 .. Len(q) : r[i] = q[i]
          /\ r[Len(q) + 1] = report /\ r # <<>> /\ (q = <<>> <=> Len(q) = 0)
      BY <1>3, <2>3, EmptySeq DEF q
    <3> HIDE DEF r
    <3>5. ASSUME NEW i \in DOMAIN r
          PROVE  r[i] \in ClientMoves(IF i = 1 THEN objects[s] ELSE r[i - 1])
      <4>1. CASE i \in DOMAIN q
        <5>1. i # 1 => r[i - 1] = q[i - 1] BY <3>4, <4>1
        <5> QED BY <3>2, <3>4, <4>1, <5>1
      <4>2. CASE i = Len(q) + 1
        <5>1. i # 1 => r[i - 1] = q[Len(q)] BY <3>4, <4>2
        <5>2. i = 1 <=> q = <<>> BY <3>4, <4>2
        <5> QED BY <3>3, <3>4, <4>2, <5>1, <5>2
      <4> QED BY <3>4, <4>1, <4>2
    <3>6. s \in DOMAIN view => Stands(view[s], r[Len(r)])
      BY <1>6, <2>3, <3>4
    <3>7. toServer'[s] = r BY <2>4 DEF r, q
    <3> QED BY <1>2, <1>5, <3>4, <3>5, <3>6, <3>7 DEF Chain
  <2>7. toServer'[s] # <<>>
    <3>1. q \in Seq(Reports) BY <1>3
    <3> HIDE DEF q
    <3>2. Append(q, report) # <<>> BY <2>3, <3>1
    <3> QED BY <2>4, <3>2
  <2> QED BY <2>4, <2>5, <2>6, <2>7
<1>11. ASSUME ~end.dirty
       PROVE  PlayTypes' /\ (s \in DOMAIN objects => Chain(s)') /\ toServer' = toServer
  <2>1. toServer' = toServer BY <1>1, <1>11 DEF SyncToServer
  <2>2. PlayTypes' BY <1>2, <1>3, <1>5, <1>8, <2>1 DEF PlayTypes
  <2>3. s \in D => Stands(scene[s][s], f.actors[s])
    BY <1>4, <1>11 DEF Acts
  <2>4. ASSUME s \in DOMAIN objects PROVE Chain(s)'
    <3>1. Chain(s) BY <2>4 DEF PlayInv, Session
    <3> QED BY <1>2, <1>5, <1>6, <2>1, <2>3, <3>1 DEF Chain, Stands, D
  <2> QED BY <2>1, <2>2, <2>4
<1>12. PlayTypes' /\ (s \in DOMAIN objects => Chain(s)') BY <1>10, <1>11
<1>13. ASSUME NEW x \in Watched \ {s} PROVE Session(x)'
  <2>1. toServer'[x] = toServer[x] BY <1>10, <1>11
  <2> QED BY <1>2, <1>5, <2>1, SessionUnchanged DEF PlayInv
<1>14. Opening(s)'
  <2>1. status[s] # "new" /\ \A i \in DOMAIN toClient[s] : toClient[s][i].type # "S_MyPlayer"
    BY <1>9 DEF PlayInv, Session, Opening, D
  <2> QED BY <1>2, <2>1 DEF Opening
<1>15. ASSUME s \in DOMAIN objects PROVE Queue(s)' /\ Copies(s)'
  <2>1. Queue(s) /\ Copies(s) BY <1>15 DEF PlayInv, Session
  <2>2. Queue(s)' BY <1>2, <2>1 DEF Queue
  <2>3. ASSUME NEW o \in DOMAIN view, Caught(s, o)
        PROVE  /\ o \in DOMAIN objects
               /\ view[o].hp <= objects[o].hp
               /\ o # s => view[o].pos = objects[o].pos /\ view[o].attack = objects[o].attack
               /\ o = s /\ toServer'[s] = <<>> =>
                    view[o].attack = objects[o].attack /\ view[o].defence = objects[o].defence
    <3>1. o \in D /\ view[o] = f.actors[o] /\ f.actors[o].hp \in Int /\ scene[s][o].hp \in Int
      BY <1>6, <1>7 DEF Shown, Infos
    <3>2. /\ o \in DOMAIN objects
          /\ scene[s][o].hp <= objects[o].hp
          /\ o # s => scene[s][o].pos = objects[o].pos /\ scene[s][o].attack = objects[o].attack
          /\ o = s /\ toServer[s] = <<>> =>
               scene[s][o].attack = objects[o].attack /\ scene[s][o].defence = objects[o].defence
      BY <2>1, <2>3, <3>1 DEF Copies, D
    <3>3. objects[o].hp \in Int BY <1>3, <3>2 DEF PlayTypes, TypeOK
    <3>4. f.actors[o].hp <= scene[s][o].hp BY <1>4, <3>1 DEF Acts, Aged
    <3>5. o # s => f.actors[o].pos = scene[s][o].pos /\ f.actors[o].attack = scene[s][o].attack
      BY <1>4, <3>1 DEF Aged
    <3>6. ASSUME o = s, toServer'[s] = <<>>
          PROVE  /\ toServer[s] = <<>>
                 /\ f.actors[o].attack = scene[s][o].attack
                 /\ f.actors[o].defence = scene[s][o].defence
      BY <1>4, <1>10, <1>11, <3>1, <3>6 DEF Acts
    <3> QED BY <3>1, <3>2, <3>3, <3>4, <3>5, <3>6
  <2>4. Copies(s)' BY <1>2, <1>5, <2>3 DEF Copies, Caught
  <2> QED BY <2>2, <2>4
<1>16. Session(s)' BY <1>2, <1>12, <1>14, <1>15 DEF Session
<1> QED BY <1>12, <1>13, <1>16 DEF PlayInv

(* What a packet does to a view.                                           *)
LEMMA PacketKinds ==
  ASSUME NEW pkt \in Packets
  PROVE  \/ /\ pkt.type = "S_MyPlayer" /\ pkt.id \in Sessions /\ pkt.info = NewPlayer
         \/ /\ pkt.type = "S_AddObject" /\ pkt.infos \in Views
         \/ /\ pkt.type = "S_RemoveObject" /\ pkt.id \in Ids
         \/ /\ pkt.type = "S_Move" /\ pkt.id \in Ids /\ pkt.info \in Infos
            /\ Shown(pkt.id, pkt.info)
BY DEF Packets

(* The client shows what a packet tells of an object, and leaves the rest; *)
(* of its own player it takes over all but where that stands.              *)
LEMMA ReceivedShows ==
  ASSUME NEW s \in Sessions, NEW v \in Views, NEW pkt \in Packets,
         pkt.type = "S_MyPlayer" => pkt.id = s
  PROVE  LET w == Received(v, s, pkt)
         IN  /\ w \in Views
             /\ \A o \in DOMAIN w : ~Concerns(s, pkt, o) => o \in DOMAIN v /\ w[o] = v[o]
             /\ \A o \in DOMAIN w : Concerns(s, pkt, o) =>
                  /\ pkt.type \in {"S_MyPlayer", "S_AddObject", "S_Move"}
                  /\ pkt.type = "S_AddObject" => w[o] = pkt.infos[o]
                  /\ pkt.type \in {"S_MyPlayer", "S_Move"} /\ o # s => w[o] = pkt.info
                  /\ pkt.type \in {"S_MyPlayer", "S_Move"} /\ o = s =>
                       /\ w[o].hp = pkt.info.hp /\ w[o].attack = pkt.info.attack
                       /\ w[o].defence = pkt.info.defence
             /\ pkt.type # "S_MyPlayer" /\ s \in DOMAIN w =>
                  s \in DOMAIN v /\ Stands(v[s], w[s])
             /\ pkt.type = "S_MyPlayer" => w[s] = NewPlayer
<1> DEFINE w == Received(v, s, pkt)
<1>1. s \in Ids BY DEF Ids
<1>2. /\ v \in [DOMAIN v -> Infos] /\ DOMAIN v \subseteq Ids
      /\ \A o \in DOMAIN v : Shown(o, v[o]) /\ v[o] \in Infos
  BY ViewFacts DEF Shown
<1>3. CASE pkt.type = "S_MyPlayer"
  <2>1. pkt.id = s /\ pkt.info = NewPlayer BY <1>3, PacketKinds
  <2>2. w = With(v, s, NewPlayer) BY <1>3, <2>1 DEF Received
  <2>3. Shown(s, NewPlayer) BY NewObjects, NewPlayerIsArmed, GameRoomAssumption DEF Shown, NewPlayer
  <2>4. w \in Views BY <1>1, <2>2, <2>3, ViewWith
  <2>5. w[s] = NewPlayer /\ \A o \in DOMAIN w \ {s} : o \in DOMAIN v /\ w[o] = v[o]
    BY <2>2 DEF With
  <2> HIDE DEF w
  <2>6. \A o : Concerns(s, pkt, o) <=> o = s BY <1>3, <2>1 DEF Concerns, About
  <2> QED BY <1>3, <2>1, <2>4, <2>5, <2>6 DEF w
<1>4. CASE pkt.type = "S_AddObject"
  <2>1. pkt.infos \in Views BY <1>4, PacketKinds
  <2>2. w = [o \in DOMAIN v \cup (DOMAIN pkt.infos \ {s}) |->
               IF o \in DOMAIN pkt.infos \ {s} THEN pkt.infos[o] ELSE v[o]]
    BY <1>4 DEF Received, Handle_S_AddObject
  <2>3. /\ DOMAIN pkt.infos \subseteq Ids
        /\ \A o \in DOMAIN pkt.infos : pkt.infos[o] \in Infos /\ Shown(o, pkt.infos[o])
    BY <2>1, ViewFacts DEF Shown
  <2>4. w \in Views
    <3>1. DOMAIN v \cup (DOMAIN pkt.infos \ {s}) \in SUBSET Ids BY <1>2, <2>3
    <3>2. w \in [DOMAIN v \cup (DOMAIN pkt.infos \ {s}) -> Infos] BY <1>2, <2>2, <2>3
    <3>3. \A o \in DOMAIN v \cup (DOMAIN pkt.infos \ {s}) : Shown(o, w[o])
      BY <1>2, <2>2, <2>3
    <3> HIDE DEF w
    <3> QED BY <3>1, <3>2, <3>3, IsView
  <2>5. \A o : Concerns(s, pkt, o) <=> o # s /\ o \in DOMAIN pkt.infos
    BY <1>4 DEF Concerns, About
  <2>6. \A o \in DOMAIN w : /\ o # s /\ o \in DOMAIN pkt.infos => w[o] = pkt.infos[o]
                            /\ ~(o # s /\ o \in DOMAIN pkt.infos) => o \in DOMAIN v /\ w[o] = v[o]
    BY <2>2
  <2> HIDE DEF w
  <2> QED BY <1>4, <2>4, <2>5, <2>6 DEF w, Stands
<1>5. CASE pkt.type = "S_RemoveObject"
  <2>1. w = Without(v, pkt.id) BY <1>5 DEF Received
  <2>2. w \in Views BY <2>1, ViewWithout
  <2>3. \A o \in DOMAIN w : o # pkt.id /\ o \in DOMAIN v /\ w[o] = v[o] BY <2>1 DEF Without
  <2>4. \A o : Concerns(s, pkt, o) <=> o # s /\ o = pkt.id BY <1>5 DEF Concerns, About
  <2> HIDE DEF w
  <2> QED BY <1>5, <2>2, <2>3, <2>4 DEF w, Stands
<1>6. CASE pkt.type = "S_Move"
  <2>1. pkt.id \in Ids /\ pkt.info \in Infos /\ Shown(pkt.id, pkt.info) BY <1>6, PacketKinds
  <2>2. w = Handle_S_Move(v, s, pkt.id, pkt.info) BY <1>6 DEF Received
  <2>3. \A o : Concerns(s, pkt, o) <=> o = pkt.id BY <1>6 DEF Concerns, About
  <2>4. CASE pkt.id \notin DOMAIN v
    <3>1. w = v BY <2>2, <2>4 DEF Handle_S_Move
    <3> HIDE DEF w
    <3> QED BY <1>6, <2>3, <2>4, <3>1 DEF w, Stands
  <2>5. CASE pkt.id \in DOMAIN v /\ pkt.id # s
    <3>1. w = With(v, pkt.id, pkt.info) BY <2>2, <2>5 DEF Handle_S_Move
    <3>2. w \in Views BY <2>1, <3>1, ViewWith
    <3>3. /\ \A o \in DOMAIN w : o \in DOMAIN v /\ (o # pkt.id => w[o] = v[o])
          /\ w[pkt.id] = pkt.info
      BY <2>5, <3>1 DEF With
    <3> HIDE DEF w
    <3> QED BY <1>6, <2>3, <2>5, <3>2, <3>3 DEF w, Stands
  <2>6. CASE s \in DOMAIN v /\ pkt.id = s
    <3> DEFINE info == [v[s] EXCEPT !.hp = pkt.info.hp, !.attack = pkt.info.attack,
                                    !.defence = pkt.info.defence]
    <3>1. w = With(v, s, info) BY <2>2, <2>6 DEF Handle_S_Move
    <3>2. /\ info \in Infos /\ Stands(v[s], info)
          /\ info.hp = pkt.info.hp /\ info.attack = pkt.info.attack
          /\ info.defence = pkt.info.defence
      BY <1>2, <2>1, <2>6 DEF Infos, Stands
    <3> HIDE DEF info
    <3>3. Shown(s, info) BY <2>1, <2>6, <3>2 DEF Shown, Armed
    <3>4. w \in Views BY <1>1, <3>1, <3>3, ViewWith
    <3>5. w[s] = info /\ \A o \in DOMAIN w : o \in DOMAIN v /\ (o # s => w[o] = v[o])
      BY <2>6, <3>1 DEF With
    <3> HIDE DEF w
    <3> QED BY <1>6, <2>3, <2>6, <3>2, <3>4, <3>5 DEF w
  <2> QED BY <2>4, <2>5, <2>6
<1> QED BY <1>3, <1>4, <1>5, <1>6, PacketKinds

(* A client that has handled a packet shows it, unless another follows.    *)
LEMMA ClientReceivesKeeps ==
  ASSUME PlayInv, TypeOK', NEW s \in Watched, ClientReceives(s)
  PROVE  PlayInv'
<1> DEFINE q == toClient[s]
           r == Tail(q)
           pkt == Head(q)
           w == Received(scene[s], s, pkt)
<1>1. /\ q # <<>> /\ objects' = objects /\ status' = status /\ toServer' = toServer
      /\ scene' = [scene EXCEPT ![s] = w] /\ toClient' = [toClient EXCEPT ![s] = r]
  BY DEF ClientReceives, room, vars
<1>2. /\ PlayTypes /\ scene \in [Watched -> Views] /\ scene[s] \in Views /\ q \in Seq(Packets)
      /\ toClient \in [Watched -> Seq(Packets)] /\ s \in Sessions
  BY ClientPlayAssumption DEF PlayInv, PlayTypes
<1>3. /\ r \in Seq(Packets) /\ pkt = q[1] /\ 1 \in DOMAIN q
      /\ \A i \in DOMAIN r : i \in Nat \ {0} /\ i + 1 \in DOMAIN q /\ r[i] = q[i + 1]
      /\ \A i \in DOMAIN q : i = 1 \/ i - 1 \in DOMAIN r
  BY <1>1, <1>2, TailParts
<1>4. pkt \in Packets /\ \A i \in DOMAIN q : i \in Nat
  BY <1>2, <1>3
<1>5. /\ pkt.type = "S_MyPlayer" => /\ pkt.id = s /\ toServer[s] = <<>> /\ DOMAIN scene[s] = {}
                                    /\ s \in DOMAIN objects => Stands(NewPlayer, objects[s])
      /\ \A i \in DOMAIN q : q[i].type = "S_MyPlayer" => i = 1
      /\ status[s] # "new"
  BY <1>1, <1>3 DEF PlayInv, Session, Opening
<1> HIDE DEF q, r, pkt
<1>6. /\ w \in Views
      /\ \A o \in DOMAIN w : ~Concerns(s, pkt, o) => o \in DOMAIN scene[s] /\ w[o] = scene[s][o]
      /\ \A o \in DOMAIN w : Concerns(s, pkt, o) =>
           /\ pkt.type \in {"S_MyPlayer", "S_AddObject", "S_Move"}
           /\ pkt.type = "S_AddObject" => w[o] = pkt.infos[o]
           /\ pkt.type \in {"S_MyPlayer", "S_Move"} /\ o # s => w[o] = pkt.info
           /\ pkt.type \in {"S_MyPlayer", "S_Move"} /\ o = s =>
                /\ w[o].hp = pkt.info.hp /\ w[o].attack = pkt.info.attack
                /\ w[o].defence = pkt.info.defence
      /\ pkt.type # "S_MyPlayer" /\ s \in DOMAIN w =>
           s \in DOMAIN scene[s] /\ Stands(scene[s][s], w[s])
      /\ pkt.type = "S_MyPlayer" => w[s] = NewPlayer
  BY <1>2, <1>4, <1>5, ReceivedShows
<1> HIDE DEF w
<1>7. scene'[s] = w /\ toClient'[s] = r BY <1>1, <1>2
<1>8. PlayTypes' BY <1>1, <1>2, <1>3, <1>6 DEF PlayTypes
<1>9. ASSUME NEW x \in Watched \ {s} PROVE Session(x)'
  <2>1. scene'[x] = scene[x] /\ toClient'[x] = toClient[x] BY <1>1, <1>2
  <2> QED BY <1>1, <2>1, SessionUnchanged DEF PlayInv
<1>10. Opening(s)'
  <2>1. ASSUME NEW i \in DOMAIN r PROVE r[i].type # "S_MyPlayer"
    BY <1>3, <1>5, <2>1
  <2> QED BY <1>1, <1>5, <1>7, <2>1 DEF Opening
<1>11. ASSUME s \in DOMAIN objects PROVE Chain(s)' /\ Queue(s)' /\ Copies(s)'
  <2>1. Chain(s) /\ Queue(s) /\ Copies(s) BY <1>11 DEF PlayInv, Session
  <2>2. s \in DOMAIN w => Stands(w[s], IF toServer[s] = <<>> THEN objects[s]
                                       ELSE toServer[s][Len(toServer[s])])
    BY <1>5, <1>6, <1>11, <2>1 DEF Chain, Stands
  <2>3. Chain(s)' BY <1>1, <1>7, <2>1, <2>2 DEF Chain
  <2>4. ASSUME NEW o \in Ids, NEW i \in DOMAIN r, Concerns(s, r[i], o)
        PROVE  Tells(objects, r[i], o) \/ \E j \in DOMAIN r : j > i /\ Concerns(s, r[j], o)
    <3>1. i \in Nat \ {0} /\ i + 1 \in DOMAIN q /\ r[i] = q[i + 1] BY <1>3
    <3>2. \/ Tells(objects, q[i + 1], o)
          \/ \E j \in DOMAIN q : j > i + 1 /\ Concerns(s, q[j], o)
      BY <2>1, <2>4, <3>1 DEF Queue, q
    <3>3. ASSUME NEW j \in DOMAIN q, j > i + 1, Concerns(s, q[j], o)
          PROVE  \E k \in DOMAIN r : k > i /\ Concerns(s, r[k], o)
      <4>1. j \in Nat /\ j # 1 BY <1>4, <3>1, <3>3
      <4>2. j - 1 \in DOMAIN r /\ (j - 1) + 1 = j /\ j - 1 > i BY <1>3, <3>1, <3>3, <4>1
      <4>3. r[j - 1] = q[(j - 1) + 1] BY <1>3, <4>2
      <4> QED BY <3>3, <4>2, <4>3
    <3> QED BY <3>1, <3>2, <3>3
  <2>5. Queue(s)' BY <1>1, <1>7, <2>4 DEF Queue
  <2>6. ASSUME NEW o \in DOMAIN w, \A i \in DOMAIN r : ~Concerns(s, r[i], o)
        PROVE  /\ o \in DOMAIN objects
               /\ w[o].hp <= objects[o].hp
               /\ o # s => w[o].pos = objects[o].pos /\ w[o].attack = objects[o].attack
               /\ o = s /\ toServer[s] = <<>> =>
                    w[o].attack = objects[o].attack /\ w[o].defence = objects[o].defence
    <3>1. o \in Ids BY <1>6, ViewFacts
    <3>2. \A j \in DOMAIN q : j > 1 => ~Concerns(s, q[j], o)
      <4> SUFFICES ASSUME NEW j \in DOMAIN q, j > 1 PROVE ~Concerns(s, q[j], o)
        OBVIOUS
      <4>1. j \in Nat BY <1>4
      <4>2. j - 1 \in DOMAIN r /\ (j - 1) + 1 = j BY <1>3, <4>1
      <4>3. r[j - 1] = q[(j - 1) + 1] BY <1>3, <4>2
      <4> QED BY <2>6, <4>2, <4>3
    <3>3. CASE Concerns(s, pkt, o)
      <4>1. Tells(objects, pkt, o)
        BY <1>3, <2>1, <3>1, <3>2, <3>3 DEF Queue, q
      <4>2. pkt.type \in {"S_MyPlayer", "S_AddObject", "S_Move"} BY <1>6, <3>3
      <4>3. o \in DOMAIN objects /\ objects[o].hp \in Int
        BY <1>2, <4>1, <4>2 DEF Tells, PlayTypes, TypeOK
      <4>4. CASE pkt.type = "S_AddObject"
        BY <1>6, <3>3, <4>1, <4>3, <4>4 DEF Tells, Same
      <4>5. CASE pkt.type \in {"S_MyPlayer", "S_Move"}
        BY <1>6, <3>3, <4>1, <4>3, <4>5 DEF Tells, Same
      <4> QED BY <4>2, <4>4, <4>5
    <3>4. CASE ~Concerns(s, pkt, o)
      <4>1. o \in DOMAIN scene[s] /\ w[o] = scene[s][o] BY <1>6, <3>4
      <4>2. Caught(s, o)
        <5> SUFFICES ASSUME NEW i \in DOMAIN q PROVE ~Concerns(s, q[i], o)
          BY DEF Caught, q
        <5>1. i \in 1 .. Len(q) BY <1>2
        <5>2. Len(q) \in Nat BY <1>2
        <5>3. i = 1 \/ i > 1 BY <5>1, <5>2
        <5> QED BY <1>3, <3>2, <3>4, <5>3
      <4> QED BY <2>1, <4>1, <4>2 DEF Copies
    <3> QED BY <3>3, <3>4
  <2>7. Copies(s)' BY <1>1, <1>7, <2>6 DEF Copies, Caught
  <2> QED BY <2>3, <2>5, <2>7
<1>12. Session(s)' BY <1>1, <1>10, <1>11 DEF Session
<1> QED BY <1>8, <1>9, <1>12 DEF PlayInv

(* The inductive invariant holds in every state of the clients and the     *)
(* room.                                                                   *)
LEMMA PlayInvariant == PlaySpec => []PlayInv
<1>1. PlayInit => PlayInv
  <2> SUFFICES ASSUME PlayInit PROVE PlayInv
    OBVIOUS
  <2>1. Init BY DEF PlayInit
  <2>2. TypeOK BY <2>1, InitTyped
  <2>3. Nothing \in Views /\ DOMAIN Nothing = {}
    <3>1. Nothing \in [{} -> Infos] BY DEF Nothing
    <3> QED BY <3>1, IsView
  <2>4. objects \in Views
    <3>1. Shown(TheMonster, NewMonster)
      BY NewObjects, GameRoomAssumption DEF Shown, NewMonster
    <3>2. objects = With(Nothing, TheMonster, NewMonster) BY <2>1 DEF Init
    <3> QED BY <2>3, <3>1, <3>2, ViewWith DEF Ids
  <2>5. PlayTypes BY <2>2, <2>3, <2>4 DEF PlayInit, PlayTypes
  <2>6. ASSUME NEW s \in Watched PROVE Session(s)
    <3>1. /\ status[s] = "new" /\ toServer[s] = <<>> /\ toClient[s] = <<>> /\ scene[s] = Nothing
      BY <2>1, ClientPlayAssumption DEF PlayInit, Init
    <3>2. s \notin DOMAIN objects
      BY <2>1, ClientPlayAssumption, GameRoomAssumption DEF Init, With, Nothing
    <3>3. Opening(s) BY <2>3, <3>1, <3>2 DEF Opening
    <3> QED BY <3>2, <3>3 DEF Session
  <2> QED BY <2>5, <2>6 DEF PlayInv
<1>2. PlayInv /\ [PlayNext]_playVars => PlayInv'
  <2> SUFFICES ASSUME PlayInv, [PlayNext]_playVars PROVE PlayInv'
    OBVIOUS
  <2>1. TypeOK'
    <3>1. TypeOK BY DEF PlayInv, PlayTypes
    <3> QED BY <3>1, ClientsStepRoom, TypeStep
  <2>2. ASSUME NEW s \in Sessions, Enters(s) PROVE PlayInv' BY <2>1, <2>2, EntersKeeps
  <2>3. ASSUME NEW s \in Sessions, Leaves(s) PROVE PlayInv' BY <2>1, <2>3, LeavesKeeps
  <2>4. ASSUME NEW s \in Watched, ServerReceives(s) PROVE PlayInv'
    BY <2>1, <2>4, ServerReceivesKeeps
  <2>5. ASSUME NEW s \in Watched, ServerIgnores(s) PROVE PlayInv'
    BY <2>1, <2>5, ServerIgnoresKeeps
  <2>6. ASSUME NEW s \in Watched, Frame(s) PROVE PlayInv' BY <2>1, <2>6, FrameKeeps
  <2>7. ASSUME NEW s \in Watched, ClientReceives(s) PROVE PlayInv'
    BY <2>1, <2>7, ClientReceivesKeeps
  <2>8. ASSUME NEW s \in Sessions \ Watched, OthersReport(s) PROVE PlayInv'
    BY <2>1, <2>8, OthersReportKeeps
  <2>9. CASE RoomUpdates BY <2>1, <2>9, RoomUpdatesKeeps
  <2>10. CASE UNCHANGED playVars
    <3>1. UNCHANGED <<status, objects, toServer, toClient, scene>> BY <2>10 DEF playVars, vars
    <3>2. PlayTypes' BY <2>1, <3>1 DEF PlayInv, PlayTypes
    <3>3. \A s \in Watched : Session(s)' BY <3>1, SessionUnchanged DEF PlayInv
    <3> QED BY <3>2, <3>3 DEF PlayInv
  <2> QED BY <2>2, <2>3, <2>4, <2>5, <2>6, <2>7, <2>8, <2>9, <2>10 DEF PlayNext
<1> QED BY <1>1, <1>2, PTL DEF PlaySpec

-----------------------------------------------------------------------------
(* The theorems                                                            *)

(* Packets and scenes have their types, and nothing that is dead is shown. *)
THEOREM ScenesTypeCorrect == PlaySpec => []PlayTypeOK
<1>1. PlayInv => PlayTypeOK
  <2> SUFFICES ASSUME PlayInv PROVE PlayTypeOK
    OBVIOUS
  <2>1. PlayTypes BY DEF PlayInv
  <2>2. ASSUME NEW s \in Watched
        PROVE  /\ \A i \in DOMAIN toServer[s] : toServer[s][i] \in Reports
               /\ \A i \in DOMAIN toClient[s] :
                    toClient[s][i].type \in
                      {"S_MyPlayer", "S_AddObject", "S_RemoveObject", "S_Move"}
               /\ DOMAIN scene[s] \subseteq Ids
               /\ \A o \in DOMAIN scene[s] : scene[s][o] \in Infos /\ scene[s][o].hp > 0
    <3>1. /\ toServer[s] \in Seq(Reports) /\ toClient[s] \in Seq(Packets) /\ scene[s] \in Views
      BY <2>1 DEF PlayTypes
    <3>2. \A i \in DOMAIN toServer[s] : toServer[s][i] \in Reports BY <3>1
    <3>3. ASSUME NEW i \in DOMAIN toClient[s]
          PROVE  toClient[s][i].type \in {"S_MyPlayer", "S_AddObject", "S_RemoveObject", "S_Move"}
      <4>1. toClient[s][i] \in Packets BY <3>1
      <4> QED BY <4>1, PacketKinds
    <3>4. DOMAIN scene[s] \subseteq Ids /\ \A o \in DOMAIN scene[s] : Shown(o, scene[s][o])
      BY <3>1, ViewFacts
    <3> QED BY <3>2, <3>3, <3>4 DEF Shown
  <2> QED BY <2>1, <2>2 DEF PlayTypes, PlayTypeOK
<1> QED BY <1>1, PlayInvariant, PTL

(* The clients drive the room only as GameRoom lets them (MyPlayer::Tick,  *)
(* SyncToServer, Handle_C_Move): each report is a step from the one before.*)
THEOREM ClientsRefineRoom == PlaySpec => RoomSpec
<1>1. PlayInit => Init BY DEF PlayInit
<1>2. PlayInv /\ [PlayNext]_playVars => [Next]_vars BY ClientsStepRoom
<1> QED BY <1>1, <1>2, PlayInvariant, PTL DEF PlaySpec, RoomSpec, Spec

(* So the room of real clients is replicated and hurts nobody but by blows.*)
THEOREM ClientsRoomIsReplicated == PlaySpec => []Replicated /\ EveryWoundIsABlow
BY ClientsRefineRoom, RoomIsReplicated, WoundsNeedBlows DEF RoomSpec

(* The own player is what the room has once its reports and the answers    *)
(* about it are handled (SyncToServer, Handle_S_Move of the own player).   *)
THEOREM OwnPlayersInStep == PlaySpec => []OwnPlayerInStep
<1>1. PlayInv => OwnPlayerInStep
  <2> SUFFICES ASSUME PlayInv, NEW s \in Watched, s \in DOMAIN objects \cap DOMAIN scene[s],
                      toServer[s] = <<>>, NothingPending(s, s)
               PROVE  InStep(s)
    BY DEF OwnPlayerInStep
  <2>1. Chain(s) /\ Copies(s) /\ PlayTypes BY DEF PlayInv, Session
  <2>2. Stands(scene[s][s], objects[s]) BY <2>1 DEF Chain
  <2>3. ASSUME NEW i \in DOMAIN toClient[s] PROVE ~Concerns(s, toClient[s][i], s)
    <3>1. ~About(toClient[s][i], s) BY DEF NothingPending
    <3> QED BY <3>1 DEF Concerns, About
  <2>4. /\ scene[s][s].hp <= objects[s].hp /\ scene[s][s].attack = objects[s].attack
        /\ scene[s][s].defence = objects[s].defence
    BY <2>1, <2>3 DEF Copies, Caught
  <2> QED BY <2>2, <2>4 DEF InStep, Report, Stands
<1> QED BY <1>1, PlayInvariant, PTL

(* What a client shows of another creature is what the room has, but for   *)
(* hp lost in its own scene only, once the packets about it are handled.   *)
THEOREM CopiesAreTrue == PlaySpec => []CopiesAgree
<1>1. PlayInv => CopiesAgree
  <2> SUFFICES ASSUME PlayInv, NEW s \in Watched \cap Players(objects),
                      NEW o \in DOMAIN scene[s] \ {s}, NothingPending(s, o)
               PROVE  /\ o \in DOMAIN objects
                      /\ scene[s][o].pos = objects[o].pos
                      /\ scene[s][o].attack = objects[o].attack
                      /\ scene[s][o].hp <= objects[o].hp
    BY DEF CopiesAgree
  <2>1. Copies(s) BY DEF PlayInv, Session, Players
  <2>2. Caught(s, o) BY DEF NothingPending, Caught, Concerns
  <2> QED BY <2>1, <2>2 DEF Copies
<1> QED BY <1>1, PlayInvariant, PTL
=============================================================================
