------------------------ MODULE SessionLifeFreedProofs ------------------------
(***************************************************************************)
(* Proof that, with errors that HandleError only logs, a session is freed  *)
(* under a method of its own in one way only: by RegisterSend, when it     *)
(* drops the reference of a refused send.                                  *)
(*                                                                         *)
(* SessionLifeProofs reads the stack as a set.  Here its order matters: the*)
(* calls made on behalf of a refused send lie above its SendRefused, until *)
(* which the send event holds the session.                                 *)
(***************************************************************************)
EXTENDS SessionLifeProofs

-----------------------------------------------------------------------------
(* What holds a session while a method of it waits                         *)

(* The call c, over the calls of W, in the handler of r: if it is a method *)
(* its session is the handler's, or a refused send has still to be undone. *)
Covered(c, W, r) ==
  c.call \in Methods =>
    r = c.s \/ c.call = "SendRefused" \/ Call("SendRefused", c.s) \in W

(* Each call of the sequence, over those that lie below.                   *)
Guarded(t, r) ==
  \A j \in DOMAIN t : Covered(t[j], {t[k] : k \in {k \in DOMAIN t : k > j}}, r)

(* The next call may also be the Send of a broadcast to a player, who holds*)
(* his session; or the last step of a refused send, which nothing holds.   *)
Met(c, W, r, P) ==
  \/ Covered(c, W, r)
  \/ c.call = "SendReleases"
  \/ c.call \in {"Send", "RegisterSend"} /\ c.s \in P

(* A refused send that is not undone holds its session by the send event.  *)
RefusedOwns == \A s \in Sessions : Waits("SendRefused", s) => "send" \in owner[s]

FreedInv ==
  /\ RefusedOwns
  /\ todo # <<>> => /\ Guarded(Tail(todo), running)
                    /\ Met(Head(todo), Later, running, players)

-----------------------------------------------------------------------------
(* Sequences                                                               *)

(* What lies under the first call of a guarded sequence is guarded, and    *)
(* covers it.                                                              *)
LEMMA GuardedTail ==
  ASSUME NEW S, NEW t \in Seq(S), t # <<>>, NEW r, Guarded(t, r)
  PROVE  Guarded(Tail(t), r) /\ Covered(Head(t), SetOf(Tail(t)), r)
<1> DEFINE u == Tail(t)
<1>1. /\ DOMAIN t = 1 .. Len(t) /\ DOMAIN u = 1 .. Len(u) /\ Len(t) \in Nat
      /\ Len(u) = Len(t) - 1 /\ Len(t) > 0
  OBVIOUS
<1>2. \A i \in DOMAIN u : u[i] = t[i + 1] /\ i + 1 \in DOMAIN t
  BY <1>1
<1>3. Head(t) = t[1] /\ 1 \in DOMAIN t
  BY <1>1
<1> HIDE DEF u
<1>4. ASSUME NEW j \in DOMAIN t
      PROVE  \A x \in {t[k] : k \in {k \in DOMAIN t : k > j}} :
               \E k \in DOMAIN u : k + 1 > j /\ x = u[k]
  <2> SUFFICES ASSUME NEW k \in DOMAIN t, k > j
               PROVE  \E l \in DOMAIN u : l + 1 > j /\ t[k] = u[l]
    OBVIOUS
  <2>1. k - 1 \in DOMAIN u /\ (k - 1) + 1 = k
    BY <1>1
  <2>2. t[k] = u[k - 1]
    BY <1>2, <2>1
  <2> QED
    BY <2>1, <2>2
<1>5. ASSUME NEW j \in DOMAIN u
      PROVE  Covered(u[j], {u[k] : k \in {k \in DOMAIN u : k > j}}, r)
  <2> DEFINE W == {t[k] : k \in {k \in DOMAIN t : k > j + 1}}
             V == {u[k] : k \in {k \in DOMAIN u : k > j}}
  <2>1. Covered(t[j + 1], W, r)
    BY <1>2 DEF Guarded
  <2>2. W \subseteq V
    <3>1. \A x \in W : \E k \in DOMAIN u : k + 1 > j + 1 /\ x = u[k]
      BY <1>2, <1>4
    <3>2. \A k \in DOMAIN u : k + 1 > j + 1 => k > j
      BY <1>1
    <3> QED
      BY <3>1, <3>2
  <2> HIDE DEF W, V
  <2>3. Covered(u[j], V, r)
    BY <1>2, <2>1, <2>2 DEF Covered
  <2> QED
    BY <2>3 DEF V
<1>6. Covered(t[1], SetOf(u), r)
  <2> DEFINE W == {t[k] : k \in {k \in DOMAIN t : k > 1}}
  <2>1. Covered(t[1], W, r)
    BY <1>3 DEF Guarded
  <2>2. W \subseteq SetOf(u)
    BY <1>3, <1>4 DEF SetOf
  <2> HIDE DEF W
  <2> QED
    BY <2>1, <2>2 DEF Covered
<1>7. Guarded(u, r)
  BY <1>5 DEF Guarded
<1> QED
  BY <1>3, <1>6, <1>7 DEF u

(* Calls that are covered by a guarded sequence may be put on it.          *)
LEMMA GuardedConcat ==
  ASSUME NEW S, NEW t \in Seq(S), NEW u \in Seq(S), NEW r, Guarded(u, r),
         \A c \in SetOf(t) : Covered(c, SetOf(u), r)
  PROVE  Guarded(t \o u, r)
<1> DEFINE w == t \o u
<1>1. w \in Seq(S) /\ Len(w) = Len(t) + Len(u)
  OBVIOUS
<1>2. \A i \in 1 .. Len(w) : w[i] = IF i <= Len(t) THEN t[i] ELSE u[i - Len(t)]
  OBVIOUS
<1>3. DOMAIN t = 1 .. Len(t) /\ DOMAIN u = 1 .. Len(u) /\ DOMAIN w = 1 .. Len(w)
  BY <1>1
<1>4. Len(t) \in Nat /\ Len(u) \in Nat OBVIOUS
<1> HIDE DEF w
<1>5. ASSUME NEW k \in DOMAIN u
      PROVE  k + Len(t) \in DOMAIN w /\ w[k + Len(t)] = u[k] /\ k + Len(t) > Len(t)
  BY <1>1, <1>2, <1>3, <1>4
<1>6. ASSUME NEW j \in DOMAIN w
      PROVE  Covered(w[j], {w[k] : k \in {k \in DOMAIN w : k > j}}, r)
  <2> DEFINE V == {w[k] : k \in {k \in DOMAIN w : k > j}}
  <2> SUFFICES Covered(w[j], V, r)
    OBVIOUS
  <2>1. CASE j <= Len(t)
    <3>1. j \in DOMAIN t /\ w[j] = t[j]
      BY <1>1, <1>2, <1>3, <1>4, <2>1
    <3>2. Covered(w[j], SetOf(u), r)
      BY <3>1 DEF SetOf
    <3>3. ASSUME NEW k \in DOMAIN u PROVE u[k] \in V
      <4>1. k + Len(t) \in DOMAIN w /\ w[k + Len(t)] = u[k] /\ k + Len(t) > j
        BY <1>3, <1>4, <1>5, <2>1
      <4> QED BY <4>1
    <3>4. SetOf(u) \subseteq V
      BY <3>3 DEF SetOf
    <3> HIDE DEF V
    <3> QED BY <3>2, <3>4 DEF Covered
  <2>2. CASE ~(j <= Len(t))
    <3> DEFINE i == j - Len(t)
               W == {u[k] : k \in {k \in DOMAIN u : k > i}}
    <3>1. i \in DOMAIN u /\ w[j] = u[i]
      BY <1>1, <1>2, <1>3, <1>4, <2>2
    <3>2. Covered(w[j], W, r)
      BY <3>1 DEF Guarded
    <3>3. ASSUME NEW k \in DOMAIN u, k > i PROVE u[k] \in V
      <4>1. k + Len(t) \in DOMAIN w /\ w[k + Len(t)] = u[k] /\ k + Len(t) > j
        BY <1>3, <1>4, <1>5, <3>3
      <4> QED BY <4>1
    <3>4. W \subseteq V
      BY <3>3
    <3> HIDE DEF V, W
    <3> QED BY <3>2, <3>4 DEF Covered
  <2> QED BY <2>1, <2>2
<1>7. Guarded(w, r)
  BY <1>6 DEF Guarded
<1> QED BY <1>7 DEF w

(* No calls need no guard.                                                 *)
LEMMA GuardedEmpty == ASSUME NEW r PROVE Guarded(<<>>, r)
  BY DEF Guarded

(* Every call of a guarded sequence is covered by its calls.               *)
LEMMA GuardedCovers ==
  ASSUME NEW t, NEW r, Guarded(t, r)
  PROVE  \A c \in SetOf(t) : Covered(c, SetOf(t), r)
<1> SUFFICES ASSUME NEW j \in DOMAIN t PROVE Covered(t[j], SetOf(t), r)
  BY DEF SetOf
<1> DEFINE W == {t[k] : k \in {k \in DOMAIN t : k > j}}
<1>1. Covered(t[j], W, r) BY DEF Guarded
<1>2. W \subseteq SetOf(t) BY DEF SetOf
<1> HIDE DEF W
<1> QED BY <1>1, <1>2 DEF Covered

-----------------------------------------------------------------------------
(* The stack before and after a step                                       *)

(* A call is replaced by the calls it makes: those after the first must be *)
(* covered, the first met, and refused sends keep their owner.             *)
LEMMA ThenFreed ==
  ASSUME IInv, FreedInv, todo # <<>>, NEW new \in Seq(CallType), Then(new),
         new # <<>> => /\ \A c \in SetOf(Tail(new)) : Covered(c, Later, running)
                       /\ Met(Head(new), SetOf(Tail(new)) \cup Later, running, players'),
         \A s \in Sessions :
           Call("SendRefused", s) \in SetOf(new) \cup Later => "send" \in owner'[s]
  PROVE  FreedInv'
<1>1. todo \in Seq(CallType) /\ Tail(todo) \in Seq(CallType) /\ SetOf(Tail(todo)) = Later
  BY StackType, Shape DEF IInv, Later
<1>2. todo' = new \o Tail(todo) /\ Guarded(Tail(todo), running)
  BY DEF Then, FreedInv
<1>3. RefusedOwns'
  <2>1. Pending' = SetOf(new) \cup Later
    BY Making DEF IInv, StackInv
  <2> QED BY <2>1 DEF RefusedOwns, Waits
<1>4. ASSUME todo' # <<>>
      PROVE  Guarded(Tail(todo'), running') /\ Met(Head(todo'), Later', running', players')
  <2>1. running' = running
    BY <1>4 DEF Then
  <2>2. CASE new = <<>>
    <3> DEFINE u == Tail(todo)
    <3>1. u \in Seq(CallType) /\ Guarded(u, running)
      BY <1>1, <1>2
    <3>2. todo' = u
      BY <1>1, <1>2, <2>2
    <3> HIDE DEF u
    <3>3. Guarded(Tail(u), running) /\ Covered(Head(u), SetOf(Tail(u)), running)
      BY <1>4, <3>1, <3>2, GuardedTail
    <3>4. Later' = SetOf(Tail(u))
      BY <1>4, <3>2 DEF Later
    <3> QED BY <2>1, <3>2, <3>3, <3>4 DEF Met
  <2>3. CASE new # <<>>
    <3>1. Head(todo') = Head(new) /\ Tail(todo') = Tail(new) \o Tail(todo)
      BY <1>1, <1>2, <2>3
    <3>2. Tail(new) \in Seq(CallType)
      BY <2>3
    <3>3. Guarded(Tail(new) \o Tail(todo), running)
      BY <1>1, <1>2, <2>3, <3>2, GuardedConcat
    <3>4. Later' = SetOf(Tail(new)) \cup Later
      BY <2>3, Making DEF IInv, StackInv
    <3> QED BY <2>1, <2>3, <3>1, <3>3, <3>4
  <2> QED BY <2>2, <2>3
<1> QED BY <1>3, <1>4 DEF FreedInv

(* A handler begins with methods of the session it holds only.             *)
LEMMA BeginFreed ==
  ASSUME IInv, Resting, NEW h, NEW new \in Seq(CallType), Begin(h, new),
         \A c \in SetOf(new) : c.call # "SendRefused" /\ (c.call \in Methods => h = c.s)
  PROVE  FreedInv'
<1>1. todo' = new /\ Pending' = SetOf(new)
  BY DEF Begin, Pending
<1>2. RefusedOwns'
  BY <1>1, CallFacts DEF RefusedOwns, Waits
<1>3. ASSUME new # <<>>
      PROVE  Guarded(Tail(new), h) /\ Met(Head(new), Later', h, players')
  <2>1. SetOf(new) = {Head(new)} \cup SetOf(Tail(new))
    BY <1>3, Shape
  <2>2. \A c \in SetOf(new) : \A W : Covered(c, W, h)
    BY DEF Covered
  <2> DEFINE u == Tail(new)
  <2>3. \A c \in SetOf(u) : \A W : Covered(c, W, h)
    BY <2>1, <2>2
  <2> HIDE DEF u
  <2>4. Guarded(u, h)
    BY <2>3 DEF Guarded, SetOf
  <2> QED BY <2>1, <2>2, <2>4 DEF u, Met
<1>4. new # <<>> => running' = h
  BY <1>1 DEF Begin
<1> QED BY <1>1, <1>2, <1>3, <1>4 DEF FreedInv

(* The stack, the handler and the players stay, and so do the owners of    *)
(* refused sends.                                                          *)
LEMMA StayFreed ==
  ASSUME FreedInv, UNCHANGED <<todo, running, players>>,
         \A s \in Sessions : Waits("SendRefused", s) => "send" \in owner'[s]
  PROVE  FreedInv'
<1>1. Pending' = Pending /\ Later' = Later /\ \A s : Waits("SendRefused", s)' <=> Waits("SendRefused", s)
  BY DEF Pending, Later, Waits
<1> QED BY <1>1 DEF FreedInv, RefusedOwns

(* A call that returns.                                                    *)
LEMMA ReturnFreed ==
  ASSUME IInv, FreedInv, todo # <<>>, Then(<<>>),
         \A s \in Sessions : Call("SendRefused", s) \in Later => "send" \in owner'[s]
  PROVE  FreedInv'
<1> DEFINE new == <<>>
<1>1. new \in Seq(CallType) /\ SetOf(new) = {} /\ new = <<>> /\ Then(new)
  BY NoCalls
<1> HIDE DEF new
<1> QED BY <1>1, ThenFreed

(* A call that makes one.                                                  *)
LEMMA OneFreed ==
  ASSUME IInv, FreedInv, todo # <<>>, NEW c \in CallType, Then(<<c>>),
         Met(c, Later, running, players'),
         \A s \in Sessions :
           Call("SendRefused", s) \in {c} \cup Later => "send" \in owner'[s]
  PROVE  FreedInv'
<1> DEFINE new == <<c>>
<1>1. /\ new \in Seq(CallType) /\ Then(new) /\ Head(new) = c
      /\ SetOf(new) = {c} /\ SetOf(Tail(new)) = {}
  BY OneCall
<1> HIDE DEF new
<1>2. {} \cup Later = Later OBVIOUS
<1> QED BY <1>1, <1>2, ThenFreed

(* A call that makes two.                                                  *)
LEMMA TwoFreed ==
  ASSUME IInv, FreedInv, todo # <<>>, NEW c \in CallType, NEW d \in CallType, Then(<<c, d>>),
         Met(c, {d} \cup Later, running, players'), Covered(d, Later, running),
         \A s \in Sessions :
           Call("SendRefused", s) \in {c, d} \cup Later => "send" \in owner'[s]
  PROVE  FreedInv'
<1> DEFINE new == <<c, d>>
<1>1. /\ new \in Seq(CallType) /\ Then(new) /\ Head(new) = c
      /\ SetOf(new) = {c, d} /\ SetOf(Tail(new)) = {d}
  BY TwoCalls
<1> HIDE DEF new
<1> QED BY <1>1, ThenFreed

(* A call that makes three.                                                *)
LEMMA ThreeFreed ==
  ASSUME IInv, FreedInv, todo # <<>>,
         NEW c \in CallType, NEW d \in CallType, NEW e \in CallType, Then(<<c, d, e>>),
         Met(c, {d, e} \cup Later, running, players'),
         Covered(d, Later, running), Covered(e, Later, running),
         \A s \in Sessions :
           Call("SendRefused", s) \in {c, d, e} \cup Later => "send" \in owner'[s]
  PROVE  FreedInv'
<1> DEFINE new == <<c, d, e>>
<1>1. /\ new \in Seq(CallType) /\ Then(new) /\ Head(new) = c
      /\ SetOf(new) = {c, d, e} /\ SetOf(Tail(new)) = {d, e}
  BY ThreeCalls
<1> HIDE DEF new
<1> QED BY <1>1, ThenFreed

(* What is later is left, so that its refused sends have their owners; and *)
(* the next call is met.                                                   *)
LEMMA NowFreed ==
  ASSUME IInv, FreedInv, NEW name, NEW s, Calls(name, s)
  PROVE  /\ todo # <<>> /\ Runs(name, s)
         /\ \A x \in Sessions : Call("SendRefused", x) \in Later => "send" \in owner[x]
         /\ name \notin {"Send", "RegisterSend", "SendRefused", "SendReleases"} /\ name \in Methods =>
              running = s \/ Call("SendRefused", s) \in Later
         /\ name \in {"Send", "RegisterSend"} =>
              running = s \/ Call("SendRefused", s) \in Later \/ s \in players
         /\ name \in {"RegisterRecv", "RecvRefused", "EnterRoom", "AddObject",
                      "ProcessConnect", "OnConnected"} => running = s
<1>1. todo # <<>> /\ Runs(name, s)
  BY NextCall DEF Calls, IInv
<1>2. \A x \in Sessions : Call("SendRefused", x) \in Later => "send" \in owner[x]
  BY <1>1 DEF FreedInv, RefusedOwns, Waits, Runs
<1>3. Met(Head(todo), Later, running, players) /\ Head(todo).call = name /\ Head(todo).s = s
  BY <1>1 DEF FreedInv, Runs
<1>4. name \in {"RegisterRecv", "RecvRefused", "EnterRoom", "AddObject",
                "ProcessConnect", "OnConnected"} => running = s
  BY <1>1 DEF IInv, HeldCalls, Runs
<1> QED BY <1>1, <1>2, <1>3, <1>4 DEF Met, Covered, Methods

-----------------------------------------------------------------------------
(* The actions                                                             *)

(* The calls that return at once and drop no send event.                   *)
LEMMA ReturnsFreed ==
  ASSUME IInv, FreedInv, NEW s \in Sessions \cup Slots,
         \/ s \in Slots /\ RegisterAccept(s)
         \/ s \in Sessions /\ \/ ReleaseSession(s) \/ RegisterDisconnect(s)
                              \/ SendReleases(s) \/ RecvRefused(s)
  PROVE  FreedInv'
<1>1. PICK name : Calls(name, s) /\ Then(<<>>)
  BY DEF RegisterAccept, ReleaseSession, RegisterDisconnect, SendReleases, RecvRefused, Return
<1>2. \A x \in Sessions : "send" \in owner[x] => "send" \in owner'[x]
  BY DEF RegisterAccept, ReleaseSession, RegisterDisconnect, SendReleases, RecvRefused, io,
         IInv, Types, Fields
<1> QED BY <1>1, <1>2, NowFreed, ReturnFreed

(* A connection enters the game: it is the session of the handler.         *)
LEMMA EnteringFreed ==
  ASSUME IInv, FreedInv, NEW s \in Sessions,
         ProcessConnect(s) \/ OnConnected(s) \/ EnterRoom(s)
  PROVE  FreedInv'
<1>1. owner' = owner
  BY DEF ProcessConnect, OnConnected, EnterRoom, io
<1>2. \A n \in {"OnConnected", "RegisterRecv", "Send", "EnterRoom", "AddObject"} :
        Call(n, s) \in CallType /\ Call(n, s).call = n /\ Call(n, s).s = s
  BY CallFacts DEF CallNames
<1>3. running = s =>
        \A n \in {"OnConnected", "RegisterRecv", "Send", "EnterRoom", "AddObject"} : \A W, P :
          Covered(Call(n, s), W, running) /\ Met(Call(n, s), W, running, P)
  BY <1>2 DEF Covered, Met
<1>4. CASE ProcessConnect(s)
  <2> DEFINE c == Call("OnConnected", s)
             d == Call("RegisterRecv", s)
  <2>1. Calls("ProcessConnect", s) /\ Then(<<c, d>>)
    BY <1>4 DEF ProcessConnect
  <2>2. running = s
    BY <2>1, NowFreed
  <2>3. /\ c \in CallType /\ d \in CallType /\ Covered(d, Later, running)
        /\ Met(c, {d} \cup Later, running, players')
        /\ c.call # "SendRefused" /\ d.call # "SendRefused"
    BY <1>2, <1>3, <2>2
  <2> HIDE DEF c, d
  <2>4. \A x \in Sessions : Call("SendRefused", x) \in {c, d} \cup Later => "send" \in owner'[x]
    BY <1>1, <2>1, <2>3, NowFreed, CallFacts
  <2> QED BY <2>1, <2>3, <2>4, NowFreed, TwoFreed
<1>5. CASE OnConnected(s)
  <2> DEFINE c == Call("Send", s)
             d == Call("EnterRoom", s)
  <2>1. Calls("OnConnected", s) /\ Then(<<c, d>>)
    BY <1>5 DEF OnConnected
  <2>2. running = s
    BY <2>1, NowFreed
  <2>3. /\ c \in CallType /\ d \in CallType /\ Covered(d, Later, running)
        /\ Met(c, {d} \cup Later, running, players')
        /\ c.call # "SendRefused" /\ d.call # "SendRefused"
    BY <1>2, <1>3, <2>2
  <2> HIDE DEF c, d
  <2>4. \A x \in Sessions : Call("SendRefused", x) \in {c, d} \cup Later => "send" \in owner'[x]
    BY <1>1, <2>1, <2>3, NowFreed, CallFacts
  <2> QED BY <2>1, <2>3, <2>4, NowFreed, TwoFreed
<1>6. CASE EnterRoom(s)
  <2> DEFINE c == Call("Send", s)
             e == Call("AddObject", s)
  <2>1. Calls("EnterRoom", s) /\ Then(<<c, c, e>>)
    BY <1>6 DEF EnterRoom
  <2>2. running = s
    BY <2>1, NowFreed
  <2>3. /\ c \in CallType /\ e \in CallType
        /\ Covered(c, Later, running) /\ Covered(e, Later, running)
        /\ Met(c, {c, e} \cup Later, running, players')
        /\ c.call # "SendRefused" /\ e.call # "SendRefused"
    BY <1>2, <1>3, <2>2
  <2> HIDE DEF c, e
  <2>4. \A x \in Sessions :
          Call("SendRefused", x) \in {c, c, e} \cup Later => "send" \in owner'[x]
    BY <1>1, <2>1, <2>3, NowFreed, CallFacts
  <2> QED BY <2>1, <2>3, <2>4, NowFreed, ThreeFreed
<1> QED BY <1>4, <1>5, <1>6

(* A change of the room is broadcast, or there is nothing to tell.         *)
LEMMA RoomFreed ==
  ASSUME IInv, FreedInv, NEW s \in Sessions,
         AddObject(s) \/ RemoveObject(s) \/ OnDisconnected(s) \/ Handle_C_Move(s)
  PROVE  FreedInv'
<1> DEFINE c == Broadcast
<1>1. PICK name : Calls(name, s) /\ (Then(<<c>>) \/ Then(<<>>))
  BY DEF AddObject, RemoveObject, OnDisconnected, Handle_C_Move, Removes
<1>2. owner' = owner
  BY DEF AddObject, RemoveObject, OnDisconnected, Handle_C_Move, io
<1>3. c \in CallType /\ c.call = "Broadcast"
  BY BroadcastIsCall, CallFacts DEF Broadcast
<1> HIDE DEF c
<1>4. Met(c, Later, running, players')
  BY <1>3 DEF Met, Covered, Methods
<1>5. \A x \in Sessions : Call("SendRefused", x) \in {c} \cup Later => "send" \in owner'[x]
  BY <1>1, <1>2, <1>3, NowFreed, CallFacts
<1> QED BY <1>1, <1>4, <1>3, <1>5, NowFreed, OneFreed, ReturnFreed

(* The loop sends to a player, or ends.                                    *)
LEMMA LoopFreed ==
  ASSUME IInv, FreedInv,
         BroadcastBegins \/ \E s \in Sessions : BroadcastGoesOn(s)
  PROVE  FreedInv'
<1>1. PICK name, s : Calls(name, s) /\ \E left \in SUBSET players : Advance(left)
  <2>1. CASE BroadcastBegins
    <3>1. Calls("Broadcast", None) /\ Advance(players)
      BY <2>1 DEF BroadcastBegins
    <3> QED BY <3>1
  <2>2. ASSUME NEW s \in Sessions, BroadcastGoesOn(s)
        PROVE  \E n, x : Calls(n, x) /\ \E left \in SUBSET players : Advance(left)
    <3> DEFINE left == Head(todo).left \cap players
    <3>1. Calls("Loop", s) /\ Advance(left) /\ left \in SUBSET players
      BY <2>2 DEF BroadcastGoesOn
    <3> HIDE DEF left
    <3> QED BY <3>1
  <2> QED BY <2>1, <2>2
<1> PICK left \in SUBSET players : Advance(left)
  BY <1>1
<1>2. owner' = owner /\ players' = players
  BY DEF BroadcastBegins, BroadcastGoesOn, io, lists
<1>3. CASE Then(<<>>)
  BY <1>1, <1>2, <1>3, NowFreed, ReturnFreed
<1>4. ASSUME NEW p \in left, Then(<<Call("Send", p), Loop(p, left \ {p})>>) PROVE FreedInv'
  <2> DEFINE c == Call("Send", p)
             d == Loop(p, left \ {p})
  <2>1. c \in CallType /\ d \in CallType /\ p \in players /\ Then(<<c, d>>)
    BY <1>4, CallFacts DEF IInv, Types, Fields, Loop, CallType, CallNames
  <2>2. c.call = "Send" /\ c.s = p /\ d.call = "Loop"
    BY CallFacts DEF Loop
  <2> HIDE DEF c, d
  <2>3. Met(c, {d} \cup Later, running, players') /\ Covered(d, Later, running)
    BY <1>2, <2>1, <2>2 DEF Met, Covered, Methods
  <2>4. \A x \in Sessions : Call("SendRefused", x) \in {c, d} \cup Later => "send" \in owner'[x]
    BY <1>1, <1>2, <2>2, NowFreed, CallFacts
  <2> QED BY <1>1, <2>1, <2>3, <2>4, NowFreed, TwoFreed
<1> QED BY <1>3, <1>4 DEF Advance, Return

(* Send calls RegisterSend for the session it was called for.              *)
LEMMA SendFreed ==
  ASSUME IInv, FreedInv, NEW s \in Sessions, Send(s)
  PROVE  FreedInv'
<1> DEFINE c == Call("RegisterSend", s)
<1>1. Calls("Send", s) /\ owner' = owner /\ players' = players /\ (Then(<<>>) \/ Then(<<c>>))
  BY DEF Send, io, lists
<1>2. c \in CallType /\ c.call = "RegisterSend" /\ c.s = s
  BY CallFacts DEF CallNames
<1> HIDE DEF c
<1>3. running = s \/ Call("SendRefused", s) \in Later \/ s \in players
  BY <1>1, NowFreed
<1>4. Met(c, Later, running, players')
  BY <1>1, <1>2, <1>3 DEF Met, Covered
<1>5. \A x \in Sessions : Call("SendRefused", x) \in {c} \cup Later => "send" \in owner'[x]
  BY <1>1, <1>2, NowFreed, CallFacts
<1> QED BY <1>1, <1>2, <1>4, <1>5, NowFreed, OneFreed, ReturnFreed

(* RegisterSend takes the reference before the kernel may refuse: whatever *)
(* Disconnect then calls, the undoing of the send lies beneath.            *)
LEMMA RegisterSendFreed ==
  ASSUME IInv, FreedInv, NEW s \in Sessions, RegisterSend(s)
  PROVE  FreedInv'
<1> DEFINE c == Call("Disconnect", s)
           d == Call("SendRefused", s)
<1>1. /\ Calls("RegisterSend", s) /\ players' = players
      /\ \A x \in Sessions : "send" \in owner[x] => "send" \in owner'[x]
      /\ \/ Then(<<>>)
         \/ "send" \in owner'[s] /\ (Then(<<c, d>>) \/ Then(<<d>>))
  BY DEF RegisterSend, Posts, Refuses, Return, io, lists, IInv, Types, Fields
<1>2. /\ c \in CallType /\ c.call = "Disconnect" /\ c.s = s
      /\ d \in CallType /\ d.call = "SendRefused" /\ d.s = s
      /\ \A x : Call("SendRefused", x) # c /\ (Call("SendRefused", x) = d => x = s)
  BY CallFacts DEF CallNames
<1>3. d = Call("SendRefused", s) OBVIOUS
<1> HIDE DEF c, d
<1>4. CASE Then(<<>>)
  BY <1>1, <1>4, NowFreed, ReturnFreed
<1>5. CASE "send" \in owner'[s] /\ (Then(<<c, d>>) \/ Then(<<d>>))
  <2>1. /\ Met(c, {d} \cup Later, running, players')
        /\ Met(d, Later, running, players') /\ Covered(d, Later, running)
    BY <1>2, <1>3 DEF Met, Covered
  <2>2. \A x \in Sessions :
          Call("SendRefused", x) \in {c, d} \cup Later => "send" \in owner'[x]
    BY <1>1, <1>2, <1>5, NowFreed
  <2>3. \A x \in Sessions :
          Call("SendRefused", x) \in {d} \cup Later => "send" \in owner'[x]
    BY <2>2
  <2> QED BY <1>1, <1>2, <1>5, <2>1, <2>2, <2>3, NowFreed, OneFreed, TwoFreed
<1> QED BY <1>1, <1>4, <1>5

(* The refused send is undone: no other of the session is left to undo.    *)
LEMMA SendRefusedFreed ==
  ASSUME IInv, FreedInv, NEW s \in Sessions, SendRefused(s)
  PROVE  FreedInv'
<1> DEFINE c == Call("SendReleases", s)
<1>1. /\ Calls("SendRefused", s) /\ Then(<<c>>)
      /\ \A x \in Sessions : x # s => owner'[x] = owner[x]
  BY DEF SendRefused, IInv, Types, Fields
<1>2. c \in CallType /\ c.call = "SendReleases"
  BY CallFacts DEF CallNames
<1> HIDE DEF c
<1>3. Met(c, Later, running, players')
  BY <1>2 DEF Met
<1>4. Call("SendRefused", s) \notin Later
  <2>1. Runs("SendRefused", s)
    BY <1>1, NowFreed
  <2>2. Clash(Call("SendRefused", s), Call("SendRefused", s))
    BY CallFacts DEF Clash, Group
  <2> QED BY <2>1, <2>2 DEF Runs
<1>5. \A x \in Sessions : Call("SendRefused", x) \in {c} \cup Later => "send" \in owner'[x]
  BY <1>1, <1>2, <1>4, NowFreed, CallFacts
<1> QED BY <1>1, <1>2, <1>3, <1>5, NowFreed, OneFreed

(* Only the handler of a session posts its receive.                        *)
LEMMA RegisterRecvFreed ==
  ASSUME IInv, FreedInv, NEW s \in Sessions, RegisterRecv(s)
  PROVE  FreedInv'
<1> DEFINE c == Call("Disconnect", s)
           d == Call("RecvRefused", s)
<1>1. /\ Calls("RegisterRecv", s)
      /\ \A x \in Sessions : "send" \in owner[x] => "send" \in owner'[x]
      /\ Then(<<>>) \/ Then(<<c, d>>) \/ Then(<<d>>)
  BY DEF RegisterRecv, Posts, Refuses, Return, io, IInv, Types, Fields
<1>2. /\ c \in CallType /\ c.call = "Disconnect" /\ c.s = s
      /\ d \in CallType /\ d.call = "RecvRefused" /\ d.s = s
      /\ \A x : Call("SendRefused", x) # c /\ Call("SendRefused", x) # d
  BY CallFacts DEF CallNames
<1> HIDE DEF c, d
<1>3. running = s
  BY <1>1, NowFreed
<1>4. \A W, P : /\ Met(c, W, running, P) /\ Met(d, W, running, P)
                /\ Covered(d, W, running)
  BY <1>2, <1>3 DEF Met, Covered
<1>5. \A x \in Sessions : Call("SendRefused", x) \in {c, d} \cup Later => "send" \in owner'[x]
  BY <1>1, <1>2, NowFreed
<1>6. CASE Then(<<>>)
  BY <1>1, <1>5, <1>6, NowFreed, ReturnFreed
<1>7. CASE Then(<<c, d>>)
  BY <1>1, <1>2, <1>4, <1>5, <1>7, NowFreed, TwoFreed
<1>8. CASE Then(<<d>>)
  <2>1. \A x \in Sessions : Call("SendRefused", x) \in {d} \cup Later => "send" \in owner'[x]
    BY <1>5
  <2> QED BY <1>1, <1>2, <1>4, <1>8, <2>1, NowFreed, OneFreed
<1> QED BY <1>1, <1>6, <1>7, <1>8

(* What Disconnect calls is covered by what covers the call of Disconnect. *)
LEMMA DisconnectFreed ==
  ASSUME IInv, FreedInv, NEW s \in Sessions, Disconnect(s)
  PROVE  FreedInv'
<1> DEFINE c == Call("OnDisconnected", s)
           d == Call("ReleaseSession", s)
           e == Call("RegisterDisconnect", s)
<1>1. Calls("Disconnect", s) /\ owner' = owner /\ (Then(<<>>) \/ Then(<<c, d, e>>))
  BY DEF Disconnect, io
<1>2. /\ c \in CallType /\ d \in CallType /\ e \in CallType
      /\ c.s = s /\ d.s = s /\ e.s = s
      /\ \A x : Call("SendRefused", x) \notin {c, d, e}
  BY CallFacts DEF CallNames
<1> HIDE DEF c, d, e
<1>3. running = s \/ Call("SendRefused", s) \in Later
  BY <1>1, NowFreed DEF Methods
<1>4. /\ Met(c, {d, e} \cup Later, running, players')
      /\ Covered(d, Later, running) /\ Covered(e, Later, running)
  BY <1>2, <1>3 DEF Met, Covered
<1>5. \A x \in Sessions :
        Call("SendRefused", x) \in {c, d, e} \cup Later => "send" \in owner'[x]
  BY <1>1, <1>2, NowFreed
<1>6. CASE Then(<<>>)
  BY <1>1, <1>5, <1>6, NowFreed, ReturnFreed
<1>7. CASE Then(<<c, d, e>>)
  BY <1>1, <1>2, <1>4, <1>5, <1>7, NowFreed, ThreeFreed
<1> QED BY <1>1, <1>6, <1>7

(* The handlers, and what happens between them: no refused send is left to *)
(* undo, and a handler begins with methods of the session it holds.        *)
LEMMA HandlersFreed ==
  ASSUME IInv, FreedInv,
         \/ \E a \in Slots : ProcessAccept(a)
         \/ \E s \in Sessions : ProcessSend(s) \/ RecvPackets(s) \/ RecvZero(s)
         \/ Update
  PROVE  FreedInv'
<1>1. \A n \in CallNames, x \in Sessions \cup Slots \cup {None} :
        Call(n, x) \in CallType /\ Call(n, x).call = n /\ Call(n, x).s = x
  BY CallFacts
<1>2. ASSUME NEW a \in Slots, ProcessAccept(a) PROVE FreedInv'
  <2> DEFINE s == accepting[a]
             c == Call("ProcessConnect", s)
             d == Call("RegisterAccept", a)
  <2>1. Resting /\ (Begin(s, <<c, d>>) \/ Begin(s, <<d>>))
    BY <1>2 DEF ProcessAccept
  <2>2. /\ c \in CallType /\ c.call = "ProcessConnect" /\ c.s = s
        /\ d \in CallType /\ d.call = "RegisterAccept"
    BY <1>1 DEF CallNames, IInv, Types, Fields
  <2> HIDE DEF c, d, s
  <2>3. \A x \in {c, d} : x.call # "SendRefused" /\ (x.call \in Methods => s = x.s)
    BY <2>2 DEF Methods
  <2>4. CASE Begin(s, <<c, d>>)
    <3> DEFINE new == <<c, d>>
    <3>1. new \in Seq(CallType) /\ SetOf(new) = {c, d} /\ Begin(s, new)
      BY <2>2, <2>4, TwoCalls
    <3> HIDE DEF new
    <3> QED BY <2>1, <2>3, <3>1, BeginFreed
  <2>5. CASE Begin(s, <<d>>)
    <3> DEFINE new == <<d>>
    <3>1. new \in Seq(CallType) /\ SetOf(new) = {d} /\ Begin(s, new)
      BY <2>2, <2>5, OneCall
    <3> HIDE DEF new
    <3> QED BY <2>1, <2>3, <3>1, BeginFreed
  <2> QED BY <2>1, <2>4, <2>5
<1>3. ASSUME NEW s \in Sessions, ProcessSend(s) \/ RecvZero(s) PROVE FreedInv'
  <2>1. Resting /\ \/ Begin(s, <<>>)
                   \/ \E n \in {"Disconnect", "RegisterSend"} : Begin(s, <<Call(n, s)>>)
    BY <1>3 DEF ProcessSend, RecvZero
  <2>2. CASE Begin(s, <<>>)
    <3> DEFINE new == <<>>
    <3>1. new \in Seq(CallType) /\ SetOf(new) = {} /\ Begin(s, new)
      BY <2>2, NoCalls
    <3> HIDE DEF new
    <3> QED BY <2>1, <3>1, BeginFreed
  <2>3. ASSUME NEW n \in {"Disconnect", "RegisterSend"}, Begin(s, <<Call(n, s)>>)
        PROVE  FreedInv'
    <3> DEFINE c == Call(n, s)
               new == <<c>>
    <3>1. c \in CallType /\ c.call = n /\ c.s = s
      BY <1>1 DEF CallNames
    <3>2. new \in Seq(CallType) /\ SetOf(new) = {c} /\ Begin(s, new)
      <4> HIDE DEF c
      <4> QED BY <2>3, <3>1, OneCall DEF c
    <3> HIDE DEF new, c
    <3> QED BY <2>1, <3>1, <3>2, BeginFreed
  <2> QED BY <2>1, <2>2, <2>3
<1>4. ASSUME NEW s \in Sessions, RecvPackets(s) PROVE FreedInv'
  <2>1. PICK n \in 0 .. MaxPackets :
          Begin(s, [i \in 1 .. n |-> Call("Handle_C_Move", s)] \o <<Call("RegisterRecv", s)>>)
    BY <1>4 DEF RecvPackets
  <2> DEFINE new == [i \in 1 .. n |-> Call("Handle_C_Move", s)] \o <<Call("RegisterRecv", s)>>
  <2>2. /\ new \in Seq(CallType) /\ Begin(s, new) /\ Resting
        /\ SetOf(new) \subseteq {Call("Handle_C_Move", s), Call("RegisterRecv", s)}
    BY <1>4, <2>1, MovesThenReceive DEF RecvPackets
  <2> HIDE DEF new
  <2>3. \A c \in SetOf(new) : c.call # "SendRefused" /\ (c.call \in Methods => s = c.s)
    BY <1>1, <2>2 DEF CallNames
  <2> QED BY <2>2, <2>3, BeginFreed
<1>5. ASSUME Update PROVE FreedInv'
  <2> DEFINE c == Broadcast
  <2>1. c \in CallType /\ c.call = "Broadcast"
    BY BroadcastIsCall, CallFacts DEF Broadcast
  <2>2. Resting /\ \/ Begin(None, <<c>>)
                   \/ \E p \in players : Begin(None, <<Call("RemoveObject", p), c>>)
    BY <1>5 DEF Update
  <2> HIDE DEF c
  <2>3. CASE Begin(None, <<c>>)
    <3> DEFINE new == <<c>>
    <3>1. new \in Seq(CallType) /\ SetOf(new) = {c} /\ Begin(None, new)
      BY <2>1, <2>3, OneCall
    <3> HIDE DEF new
    <3> QED BY <2>1, <2>2, <3>1, BeginFreed DEF Methods
  <2>4. ASSUME NEW p \in players, Begin(None, <<Call("RemoveObject", p), c>>)
        PROVE  FreedInv'
    <3> DEFINE d == Call("RemoveObject", p)
               new == <<d, c>>
    <3>1. d \in CallType /\ d.call = "RemoveObject"
      BY <1>1 DEF CallNames, IInv, Types, Fields
    <3>2. new \in Seq(CallType) /\ SetOf(new) = {d, c} /\ Begin(None, new)
      <4> HIDE DEF d
      <4> QED BY <2>1, <2>4, <3>1, TwoCalls DEF d
    <3> HIDE DEF new, d
    <3> QED BY <2>1, <2>2, <3>1, <3>2, BeginFreed DEF Methods
  <2> QED BY <2>2, <2>3, <2>4
<1> QED BY <1>2, <1>3, <1>4, <1>5

(* What leaves the stack as it is.                                         *)
LEMMA OthersFreed ==
  ASSUME IInv, FreedInv,
         \/ \E s \in Sessions : BroadcastIsLost(s) \/ LineBreaks(s) \/ ProcessDisconnect(s)
         \/ UNCHANGED vars
  PROVE  FreedInv'
<1>1. UNCHANGED <<todo, running, players>>
  BY DEF BroadcastIsLost, LineBreaks, ProcessDisconnect, vars, lists
<1>2. \A x \in Sessions : "send" \in owner[x] => "send" \in owner'[x]
  BY DEF BroadcastIsLost, LineBreaks, ProcessDisconnect, vars, io, IInv, Types, Fields
<1>3. \A x \in Sessions : Waits("SendRefused", x) => "send" \in owner'[x]
  BY <1>2 DEF FreedInv, RefusedOwns
<1> QED BY <1>1, <1>3, StayFreed

-----------------------------------------------------------------------------
(* The invariant and the theorem                                           *)

(* Nothing is left to call at first.                                       *)
LEMMA InitFreed == Init => FreedInv
<1> SUFFICES ASSUME Init PROVE FreedInv
  OBVIOUS
<1>1. todo = <<>> /\ Pending = {}
  BY EmptySet DEF Init, Pending
<1> QED BY <1>1 DEF FreedInv, RefusedOwns, Waits

(* Every step keeps the order of the stack.                                *)
LEMMA StepFreed == IInv /\ FreedInv /\ [Next]_vars => FreedInv'
<1> SUFFICES ASSUME IInv, FreedInv, [Next]_vars PROVE FreedInv'
  OBVIOUS
<1>1. CASE GoOn
  <2>1. ASSUME NEW a \in Slots, RegisterAccept(a) PROVE FreedInv'
    BY <2>1, ReturnsFreed
  <2>2. CASE BroadcastBegins
    BY <2>2, LoopFreed
  <2>3. ASSUME NEW s \in Sessions,
               ReleaseSession(s) \/ RegisterDisconnect(s) \/ SendReleases(s) \/ RecvRefused(s)
        PROVE  FreedInv'
    BY <2>3, ReturnsFreed
  <2>4. ASSUME NEW s \in Sessions, ProcessConnect(s) \/ OnConnected(s) \/ EnterRoom(s)
        PROVE  FreedInv'
    BY <2>4, EnteringFreed
  <2>5. ASSUME NEW s \in Sessions,
               AddObject(s) \/ RemoveObject(s) \/ OnDisconnected(s) \/ Handle_C_Move(s)
        PROVE  FreedInv'
    BY <2>5, RoomFreed
  <2>6. ASSUME NEW s \in Sessions, BroadcastGoesOn(s) PROVE FreedInv'
    BY <2>6, LoopFreed
  <2>7. ASSUME NEW s \in Sessions, BroadcastIsLost(s) PROVE FreedInv'
    BY <2>7, OthersFreed
  <2> QED
    BY <1>1, <2>1, <2>2, <2>3, <2>4, <2>5, <2>6, <2>7, SendFreed, RegisterSendFreed,
       SendRefusedFreed, RegisterRecvFreed, DisconnectFreed DEF GoOn
<1>2. CASE \E a \in Slots : ProcessAccept(a)
  BY <1>2, HandlersFreed
<1>3. CASE \E s \in Sessions : Dispatch(s)
  BY <1>3, HandlersFreed, OthersFreed DEF Dispatch
<1>4. CASE \E s \in Sessions : LineBreaks(s)
  BY <1>4, OthersFreed
<1>5. CASE Update
  BY <1>5, HandlersFreed
<1>6. CASE UNCHANGED vars
  BY <1>6, OthersFreed
<1> QED BY <1>1, <1>2, <1>3, <1>4, <1>5, <1>6 DEF Next

(* A session that nothing references is in no handler, event or room: then *)
(* the only method of it that can be left to call is the next one, the     *)
(* last step of its refused send.                                          *)
LEMMA FreedByRefusal ==
  ASSUME IInv, FreedInv, NEW s \in Sessions, ~Referenced(s)
  PROVE  /\ kernel[s] = {}
         /\ \A i \in DOMAIN todo :
              todo[i].s = s /\ todo[i].call \in Methods => i = 1 /\ todo[i].call = "SendReleases"
<1>1. owner[s] = {} /\ s \notin players /\ running # s
  BY DEF Referenced
<1>2. kernel[s] = {}
  BY <1>1 DEF IInv, Types, Fields
<1>3. Call("SendRefused", s) \notin Pending
  BY <1>1 DEF FreedInv, RefusedOwns, Waits
<1>4. ASSUME NEW c \in Pending, NEW W \in SUBSET Pending, Covered(c, W, running),
             c.s = s, c.call \in Methods
      PROVE  FALSE
  <2>1. c.call = "SendRefused"
    BY <1>1, <1>3, <1>4 DEF Covered
  <2>2. c \in CallType /\ c.left = {}
    BY <2>1, StackType DEF IInv, StackInv
  <2>3. c = Call("SendRefused", s)
    BY <1>4, <2>1, <2>2 DEF CallType, Call
  <2> QED BY <1>3, <2>3
<1>5. ASSUME NEW i \in DOMAIN todo, todo[i].s = s, todo[i].call \in Methods
      PROVE  i = 1 /\ todo[i].call = "SendReleases"
  <2>1. /\ todo \in Seq(CallType) /\ todo # <<>> /\ DOMAIN todo = 1 .. Len(todo)
        /\ Head(todo) = todo[1] /\ Len(todo) \in Nat
        /\ Head(todo) \in Pending /\ Later \in SUBSET Pending /\ Later = SetOf(Tail(todo))
    BY StackType DEF IInv, Later
  <2>2. CASE i = 1
    <3>1. Met(Head(todo), Later, running, players) /\ ~Covered(Head(todo), Later, running)
      BY <1>4, <1>5, <2>1, <2>2 DEF FreedInv
    <3> QED BY <1>1, <1>5, <2>1, <2>2, <3>1 DEF Met
  <2>3. CASE i # 1
    <3> DEFINE u == Tail(todo)
    <3>1. i - 1 \in DOMAIN u /\ u[i - 1] = todo[i]
      BY <2>1, <2>3
    <3>2. Guarded(u, running) /\ SetOf(u) = Later
      BY <2>1 DEF FreedInv
    <3> HIDE DEF u
    <3>3. todo[i] \in SetOf(u)
      BY <3>1 DEF SetOf
    <3>4. Covered(todo[i], Later, running) /\ todo[i] \in Pending
      BY <2>1, <3>2, <3>3, GuardedCovers
    <3> QED BY <1>4, <1>5, <2>1, <3>4
  <2> QED BY <2>2, <2>3
<1> QED BY <1>2, <1>5

(* Whatever calls fail and however, a session is destroyed under a method  *)
(* of its own only by the SendRefused of its own send, right beneath which *)
(* the flag is cleared (Session.cpp, the end of RegisterSend).             *)
THEOREM FreedOnlyByRefusedSends == Spec => []FreedByRefusedSendOnly
<1>1. IInv /\ FreedInv => FreedByRefusedSendOnly
  BY FreedByRefusal DEF FreedByRefusedSendOnly
<1>2. Spec => []FreedInv
  BY InitFreed, StepFreed, Invariant, PTL DEF Spec
<1> QED BY <1>1, <1>2, Invariant, PTL
=============================================================================
