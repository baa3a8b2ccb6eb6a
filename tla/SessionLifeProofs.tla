--------------------------- MODULE SessionLifeProofs ---------------------------
(***************************************************************************)
(* Proofs about SessionLife: the lists, the slots and the references to    *)
(* sessions are right however the calls of a handler nest, for every number*)
(* of sessions, slots and packets.                                         *)
(*                                                                         *)
(* The state includes the stack of calls left to make.  The proof speaks of*)
(* it as a set (Pending; Later without the next call), and needs that some *)
(* calls are never twice in it (Unique): every step then is a few facts on *)
(* which calls come and go (Turns), and the invariants follow from these.  *)
(***************************************************************************)
EXTENDS SessionLife, FiniteSetTheorems, TLAPS

-----------------------------------------------------------------------------
(* Stacks                                                                  *)

(* What a sequence is made of.                                             *)
SetOf(t) == {t[i] : i \in DOMAIN t}

(* The calls left to make, and those of them that are not next.            *)
Pending == SetOf(todo)
Later == IF todo = <<>> THEN {} ELSE SetOf(Tail(todo))

(* The call is left to make.                                               *)
Waits(name, s) == Call(name, s) \in Pending

(* The session has been connected once: it is not one that CreateSession   *)
(* has just made.                                                          *)
Used(s) == link[s] # "none"

(* The calls there are.                                                    *)
CallType == [call : CallNames, s : Sessions \cup Slots \cup {None}, left : SUBSET Sessions]

(* Calls made as soon as they are put on the stack: they never wait under  *)
(* another call.                                                           *)
HeadOnly == {"ProcessConnect", "OnConnected", "OnDisconnected", "Disconnect",
             "RegisterSend", "SendReleases"}

(* Calls of which at most one may be left to make for a session or a slot: *)
(* what is left of a WSASend or of a WSARecv, the release of the session,  *)
(* the new AcceptEx.                                                       *)
Group(c) ==
  CASE c.call \in {"RegisterSend", "SendRefused", "SendReleases"} -> "send"
    [] c.call \in {"RegisterRecv", "RecvRefused"} -> "recv"
    [] c.call = "ReleaseSession" -> "release"
    [] c.call = "RegisterAccept" -> "accept"
    [] OTHER -> "none"

(* Two calls of one group, for one session.                                *)
Clash(c, d) == Group(c) # "none" /\ Group(c) = Group(d) /\ c.s = d.s

(* No two calls of the stack are of one group and for one session.         *)
Unique(t) == \A i, j \in DOMAIN t : Clash(t[i], t[j]) => i = j

(* Some call of the group is left to make for the session.                 *)
Has(g, s) == \E c \in Pending : Group(c) = g /\ c.s = s

(* The calls the invariant follows by name.                                *)
Kept == {"ReleaseSession", "RegisterRecv", "RegisterAccept"}
SendGroup == {"RegisterSend", "SendRefused", "SendReleases"}
RecvGroup == {"RegisterRecv", "RecvRefused"}
Tracked == HeadOnly \cup Kept \cup SendGroup \cup RecvGroup

-----------------------------------------------------------------------------
(* Sequences as sets                                                       *)

(* Nothing is made of nothing.                                             *)
LEMMA EmptySet == SetOf(<<>>) = {}
  BY DEF SetOf

(* One call makes one.                                                     *)
LEMMA SetOfOne == ASSUME NEW c PROVE SetOf(<<c>>) = {c}
<1>1. DOMAIN <<c>> = {1} OBVIOUS
<1> QED BY <1>1 DEF SetOf

(* Two calls.                                                              *)
LEMMA SetOfTwo == ASSUME NEW c, NEW d PROVE SetOf(<<c, d>>) = {c, d}
<1>1. DOMAIN <<c, d>> = {1, 2} OBVIOUS
<1> QED BY <1>1 DEF SetOf

(* Three calls.                                                            *)
LEMMA SetOfThree == ASSUME NEW c, NEW d, NEW e PROVE SetOf(<<c, d, e>>) = {c, d, e}
<1>1. DOMAIN <<c, d, e>> = {1, 2, 3} OBVIOUS
<1> QED BY <1>1 DEF SetOf

(* A concatenation is made of its parts.                                   *)
LEMMA SetOfConcat ==
  ASSUME NEW S, NEW t \in Seq(S), NEW u \in Seq(S)
  PROVE  SetOf(t \o u) = SetOf(t) \cup SetOf(u)
<1> DEFINE w == t \o u
<1>1. w \in Seq(S) /\ Len(w) = Len(t) + Len(u)
  OBVIOUS
<1>2. \A i \in 1 .. Len(w) : w[i] = IF i <= Len(t) THEN t[i] ELSE u[i - Len(t)]
  OBVIOUS
<1>3. DOMAIN t = 1 .. Len(t) /\ DOMAIN u = 1 .. Len(u) /\ DOMAIN w = 1 .. Len(w)
  BY <1>1
<1>4. Len(t) \in Nat /\ Len(u) \in Nat OBVIOUS
<1> HIDE DEF w
<1>5. ASSUME NEW i \in DOMAIN t PROVE t[i] \in SetOf(w)
  <2>1. i \in DOMAIN w /\ w[i] = t[i] BY <1>1, <1>2, <1>3, <1>4
  <2> QED BY <2>1 DEF SetOf
<1>6. ASSUME NEW i \in DOMAIN u PROVE u[i] \in SetOf(w)
  <2>1. i + Len(t) \in DOMAIN w /\ w[i + Len(t)] = u[i] BY <1>1, <1>2, <1>3, <1>4
  <2> QED BY <2>1 DEF SetOf
<1>7. ASSUME NEW i \in DOMAIN w PROVE w[i] \in SetOf(t) \cup SetOf(u)
  <2>1. CASE i <= Len(t)
    <3>1. i \in DOMAIN t /\ w[i] = t[i] BY <1>1, <1>2, <1>3, <1>4, <2>1
    <3> QED BY <3>1 DEF SetOf
  <2>2. CASE ~(i <= Len(t))
    <3>1. i - Len(t) \in DOMAIN u /\ w[i] = u[i - Len(t)] BY <1>1, <1>2, <1>3, <1>4, <2>2
    <3> QED BY <3>1 DEF SetOf
  <2> QED BY <2>1, <2>2
<1>8. SetOf(w) = SetOf(t) \cup SetOf(u)
  BY <1>5, <1>6, <1>7 DEF SetOf
<1> QED BY <1>8 DEF w

(* A sequence is its head and what its tail is made of.                    *)
LEMMA Shape ==
  ASSUME NEW S, NEW t \in Seq(S)
  PROVE  /\ t = <<>> <=> SetOf(t) = {}
         /\ SetOf(t) \subseteq S
         /\ t # <<>> => /\ SetOf(t) = {Head(t)} \cup SetOf(Tail(t))
                        /\ Tail(t) \in Seq(S) /\ Head(t) \in S
<1>1. DOMAIN t = 1 .. Len(t) OBVIOUS
<1>2. t = <<>> => SetOf(t) = {} BY EmptySet
<1>3. SetOf(t) \subseteq S BY <1>1 DEF SetOf
<1>4. ASSUME t # <<>> PROVE /\ SetOf(t) = {Head(t)} \cup SetOf(Tail(t))
                            /\ Tail(t) \in Seq(S) /\ Head(t) \in S
  <2>1. Tail(t) \in Seq(S) /\ Head(t) \in S /\ <<Head(t)>> \in Seq(S) BY <1>4
  <2>2. t = <<Head(t)>> \o Tail(t) BY <1>4
  <2>3. SetOf(<<Head(t)>> \o Tail(t)) = SetOf(<<Head(t)>>) \cup SetOf(Tail(t))
    BY <2>1, SetOfConcat, ZenonT(40)
  <2>4. SetOf(<<Head(t)>>) = {Head(t)} BY SetOfOne
  <2> DEFINE A == SetOf(t)
             B == SetOf(<<Head(t)>> \o Tail(t))
  <2>5. A = B BY <2>2
  <2> QED BY <2>1, <2>3, <2>4, <2>5
<1> QED BY <1>2, <1>3, <1>4

(* What is left when the head returns is unique, and clashes with nothing  *)
(* the head was.                                                           *)
LEMMA UniqueTail ==
  ASSUME NEW S, NEW t \in Seq(S), t # <<>>, Unique(t)
  PROVE  /\ Unique(Tail(t))
         /\ \A d \in SetOf(Tail(t)) : ~Clash(Head(t), d)
<1> DEFINE u == Tail(t)
<1>1. /\ DOMAIN t = 1 .. Len(t) /\ DOMAIN u = 1 .. Len(u) /\ Len(t) \in Nat
      /\ Len(u) = Len(t) - 1 /\ Len(t) > 0
  OBVIOUS
<1>2. \A i \in DOMAIN u : u[i] = t[i + 1] /\ i + 1 \in DOMAIN t
  BY <1>1
<1>3. Head(t) = t[1] /\ 1 \in DOMAIN t
  BY <1>1
<1> HIDE DEF u
<1>4. ASSUME NEW i \in DOMAIN u, NEW j \in DOMAIN u, Clash(u[i], u[j]) PROVE i = j
  <2>1. i + 1 = j + 1 BY <1>2, <1>4 DEF Unique
  <2> QED BY <2>1, <1>1
<1>5. ASSUME NEW i \in DOMAIN u PROVE ~Clash(t[1], u[i])
  <2>1. ~Clash(t[1], t[i + 1]) \/ 1 = i + 1 BY <1>2, <1>3 DEF Unique
  <2> QED BY <1>1, <1>2, <2>1
<1>6. Unique(u) BY <1>4 DEF Unique
<1>7. \A d \in SetOf(u) : ~Clash(Head(t), d) BY <1>3, <1>5 DEF SetOf
<1> QED BY <1>6, <1>7 DEF u

(* Unique sequences that do not clash make a unique one.                   *)
LEMMA UniqueConcat ==
  ASSUME NEW S, NEW t \in Seq(S), NEW u \in Seq(S), Unique(t), Unique(u),
         \A c \in SetOf(t), d \in SetOf(u) : ~Clash(c, d)
  PROVE  Unique(t \o u)
<1> DEFINE w == t \o u
<1>1. w \in Seq(S) /\ Len(w) = Len(t) + Len(u)
  OBVIOUS
<1>2. \A i \in 1 .. Len(w) : w[i] = IF i <= Len(t) THEN t[i] ELSE u[i - Len(t)]
  OBVIOUS
<1>3. DOMAIN t = 1 .. Len(t) /\ DOMAIN u = 1 .. Len(u) /\ DOMAIN w = 1 .. Len(w)
  BY <1>1
<1>4. Len(t) \in Nat /\ Len(u) \in Nat OBVIOUS
<1> HIDE DEF w
<1>5. ASSUME NEW i \in DOMAIN w, NEW j \in DOMAIN w, Clash(w[i], w[j]) PROVE i = j
  <2>1. CASE i <= Len(t) /\ j <= Len(t)
    <3>1. i \in DOMAIN t /\ j \in DOMAIN t /\ w[i] = t[i] /\ w[j] = t[j]
      BY <1>1, <1>2, <1>3, <1>4, <2>1
    <3> QED BY <3>1, <1>5 DEF Unique
  <2>2. CASE i > Len(t) /\ j > Len(t)
    <3>1. /\ i - Len(t) \in DOMAIN u /\ j - Len(t) \in DOMAIN u
          /\ w[i] = u[i - Len(t)] /\ w[j] = u[j - Len(t)]
      BY <1>1, <1>2, <1>3, <1>4, <2>2
    <3>2. i - Len(t) = j - Len(t) BY <3>1, <1>5 DEF Unique
    <3> QED BY <3>2, <1>1, <1>3, <1>4
  <2>3. CASE i <= Len(t) /\ j > Len(t)
    <3>1. i \in DOMAIN t /\ w[i] = t[i] /\ j - Len(t) \in DOMAIN u /\ w[j] = u[j - Len(t)]
      BY <1>1, <1>2, <1>3, <1>4, <2>3
    <3>2. w[i] \in SetOf(t) /\ w[j] \in SetOf(u) BY <3>1 DEF SetOf
    <3> QED BY <3>2, <1>5
  <2>4. CASE i > Len(t) /\ j <= Len(t)
    <3>1. j \in DOMAIN t /\ w[j] = t[j] /\ i - Len(t) \in DOMAIN u /\ w[i] = u[i - Len(t)]
      BY <1>1, <1>2, <1>3, <1>4, <2>4
    <3>2. w[j] \in SetOf(t) /\ w[i] \in SetOf(u) BY <3>1 DEF SetOf
    <3> QED BY <3>2, <1>5 DEF Clash
  <2> QED BY <2>1, <2>2, <2>3, <2>4, <1>1, <1>3, <1>4
<1> QED BY <1>5 DEF w, Unique

-----------------------------------------------------------------------------
(* The invariant                                                           *)

(* The stack: no group twice, the calls that never wait do not, only a     *)
(* loop has objects left, and no handler runs when it is empty.            *)
StackInv ==
  /\ Unique(todo)
  /\ \A c \in Later : c.call \notin HeadOnly
  /\ \A c \in Pending : c.call # "Loop" => c.left = {}
  /\ todo = <<>> => running = None

(* A session nobody has connected to is known to no list, has no event and *)
(* no call.                                                                *)
UsedInv ==
  \A s \in Sessions : ~Used(s) =>
    /\ ~connected[s] /\ owner[s] = {} /\ s \notin sessions \cup managed \cup players
    /\ \A c \in Pending : c.s # s

(* The lists hold the connected sessions, and those whose Disconnect has   *)
(* still to take them out; a session that is being connected holds no      *)
(* event, and under it lies at most the new AcceptEx.                      *)
ListInv ==
  \A s \in Sessions :
    /\ s \in sessions <=> connected[s] \/ Waits("ReleaseSession", s)
    /\ s \in managed <=> \/ connected[s] /\ ~Waits("OnConnected", s)
                         \/ Waits("OnDisconnected", s)
    /\ Waits("OnConnected", s) => connected[s]
    /\ Waits("ReleaseSession", s) \/ Waits("OnDisconnected", s) => ~connected[s]
    /\ Waits("ProcessConnect", s) =>
         /\ ~connected[s] /\ owner[s] = {}
         /\ \A c \in Later : c.call = "RegisterAccept"

(* The flag _sendRegistered is set while a send is posted, or about to be; *)
(* and no event is posted twice: what is left of a WSASend or of a WSARecv *)
(* is not in the kernel too.                                               *)
EventInv ==
  \A s \in Sessions :
    /\ "send" \in kernel[s] \/ Has("send", s) => sendRegistered[s]
    /\ ~("send" \in kernel[s] /\ Has("send", s))
    /\ ~("recv" \in kernel[s] /\ Has("recv", s))

(* Each slot has a session of its own, an AcceptEx posted or a call that   *)
(* will post it, and the session of a posted one has not been connected.   *)
SlotInv ==
  /\ \A a, b \in Slots : accepting[a] = accepting[b] => a = b
  /\ \A a \in Slots : a \in posted <=> ~Waits("RegisterAccept", a)
  /\ \A a \in posted : ~Used(accepting[a])

(* The session is held by the handler that runs, or by its receive event.  *)
Held(s) == running = s \/ (s \in Sessions /\ "recv" \in owner[s])

(* What only the handler of a session calls, it calls for the session it   *)
(* holds.                                                                  *)
HeldCalls ==
  \A c \in Pending :
    c.call \in {"RegisterRecv", "RecvRefused", "EnterRoom", "AddObject",
                "ProcessConnect", "OnConnected"} => running = c.s

(* A connected session is held by the handler that runs, or its receive is *)
(* posted.                                                                 *)
HeldLines ==
  \A s \in Sessions : connected[s] => running = s \/ "recv" \in kernel[s]

(* A connected session has a receive posted, is about to post one, or is   *)
(* about to be disconnected.                                               *)
HeldListens ==
  \A s \in Sessions : connected[s] =>
    "recv" \in kernel[s] \/ Waits("RegisterRecv", s) \/ Waits("Disconnect", s)

(* A method that is left to be called finds its session: the handler holds *)
(* it, or its receive event.                                               *)
HeldLater == \A c \in Later : c.call \in Methods => Held(c.s)

(* So does the next one; or it is the Send of a broadcast, to a session    *)
(* whose player is in the room.                                            *)
HeldHead ==
  todo # <<>> /\ Head(todo).call \in Methods =>
    \/ Held(Head(todo).s)
    \/ Head(todo).call \in {"Send", "RegisterSend"} /\ Head(todo).s \in players

(* Without transient errors: who holds what is used.                       *)
HeldInv == HeldLines /\ HeldListens /\ HeldLater /\ HeldHead

(* The types of the variables but todo; what the kernel has, the session's *)
(* events reference.                                                       *)
Fields ==
  /\ link \in [Sessions -> {"none", "up", "down"}]
  /\ connected \in [Sessions -> BOOLEAN]
  /\ sendRegistered \in [Sessions -> BOOLEAN]
  /\ queued \in [Sessions -> BOOLEAN]
  /\ owner \in [Sessions -> SUBSET Operations]
  /\ kernel \in [Sessions -> SUBSET Operations]
  /\ \A s \in Sessions : kernel[s] \subseteq owner[s]
  /\ accepting \in [Slots -> Sessions] /\ posted \subseteq Slots
  /\ sessions \subseteq Sessions /\ managed \subseteq Sessions /\ players \subseteq Sessions
  /\ running \in Sessions \cup {None}
  /\ undefined \in BOOLEAN

(* All types.                                                              *)
Types == Fields /\ todo \in Seq(CallType)

(* The inductive invariant. That connected sessions are held is claimed    *)
(* only where no call fails with an error HandleError merely logs: with    *)
(* such errors it is false.                                                *)
IInv ==
  /\ Types /\ StackInv /\ UsedInv /\ ListInv /\ EventInv /\ SlotInv /\ HeldCalls
  /\ TransientErrors = FALSE => HeldInv

-----------------------------------------------------------------------------
(* The stack before and after a step                                       *)

(* The fields of a call.                                                   *)
LEMMA CallFacts ==
  ASSUME NEW name, NEW s
  PROVE  /\ Call(name, s).call = name /\ Call(name, s).s = s /\ Call(name, s).left = {}
         /\ name \in CallNames /\ s \in Sessions \cup Slots \cup {None} =>
              Call(name, s) \in CallType
  BY DEF Call, CallType

(* The stack is the next call and the later ones.                          *)
LEMMA StackType ==
  ASSUME Types
  PROVE  /\ todo \in Seq(CallType)
         /\ Pending \subseteq CallType /\ Later \subseteq Pending
         /\ todo = <<>> <=> Pending = {}
         /\ todo # <<>> => Pending = {Head(todo)} \cup Later /\ Head(todo) \in CallType
<1>1. todo \in Seq(CallType) BY DEF Types
<1> QED BY <1>1, Shape DEF Pending, Later

(* The call of that name is next; nothing later clashes with it.           *)
Runs(name, s) ==
  /\ todo # <<>> /\ Head(todo) \in CallType
  /\ Head(todo).call = name /\ Head(todo).s = s
  /\ name # "Loop" => Head(todo) = Call(name, s)
  /\ Pending = {Head(todo)} \cup Later
  /\ \A d \in Later : ~Clash(Head(todo), d)

(* A call that is made is next.                                            *)
LEMMA NextCall ==
  ASSUME Types, StackInv, NEW name, NEW s, Calls(name, s)
  PROVE  Runs(name, s)
<1>1. todo # <<>> /\ Head(todo).call = name /\ Head(todo).s = s /\ ~undefined BY DEF Calls
<1>2. Pending = {Head(todo)} \cup Later /\ Head(todo) \in CallType BY <1>1, StackType
<1>3. name # "Loop" => Head(todo).left = {} BY <1>1, <1>2 DEF StackInv
<1>4. name # "Loop" => Head(todo) = Call(name, s) BY <1>1, <1>2, <1>3 DEF CallType, Call
<1>5. \A d \in Later : ~Clash(Head(todo), d)
  BY <1>1, StackType, UniqueTail DEF StackInv, Later
<1> QED BY <1>1, <1>2, <1>4, <1>5 DEF Runs

(* A call replaces itself by the calls it makes: what is left after it.    *)
LEMMA Making ==
  ASSUME Types, Unique(todo), todo # <<>>, NEW calls \in Seq(CallType), Then(calls)
  PROVE  /\ todo' \in Seq(CallType)
         /\ Pending' = SetOf(calls) \cup Later
         /\ IF calls = <<>> THEN Later' \subseteq Later
                            ELSE Later' = SetOf(Tail(calls)) \cup Later
         /\ todo' # <<>> => Pending' = {Head(todo')} \cup Later'
         /\ calls # <<>> => Head(todo') = Head(calls)
         /\ running' = IF Pending' = {} THEN None ELSE running
         /\ todo' = <<>> <=> Pending' = {}
         /\ Unique(calls) /\ (\A c \in SetOf(calls), d \in Later : ~Clash(c, d)) => Unique(todo')
<1>1. todo \in Seq(CallType) /\ Tail(todo) \in Seq(CallType) /\ SetOf(Tail(todo)) = Later
  BY StackType, Shape DEF Later
<1>2. todo' = calls \o Tail(todo) BY DEF Then
<1>3. todo' \in Seq(CallType) BY <1>1, <1>2
<1>4. SetOf(todo') = SetOf(calls) \cup Later BY <1>1, <1>2, SetOfConcat
<1>5. Pending' = SetOf(calls) \cup Later BY <1>4 DEF Pending
<1>6. (todo' = <<>> <=> Pending' = {}) /\ (todo' # <<>> => Pending' = {Head(todo')} \cup Later')
  BY <1>3, Shape DEF Pending, Later
<1>7. CASE calls = <<>>
  <2>1. todo' = Tail(todo) BY <1>1, <1>2, <1>7
  <2>2. Later' \subseteq Later
    <3> DEFINE t == Tail(todo)
    <3>1. t # <<>> => SetOf(Tail(t)) \subseteq SetOf(t)
      <4>1. t \in Seq(CallType) BY <1>1
      <4> HIDE DEF t
      <4> QED BY <4>1, Shape
    <3>2. Later' = IF t = <<>> THEN {} ELSE SetOf(Tail(t)) BY <2>1 DEF Later
    <3>3. SetOf(t) = Later BY <1>1
    <3> HIDE DEF t
    <3> QED BY <3>1, <3>2, <3>3
  <2>3. Unique(todo') BY <2>1, <1>1, UniqueTail
  <2> QED BY <2>2, <2>3, <1>3, <1>5, <1>6, <1>7 DEF Then
<1>8. CASE calls # <<>>
  <2>1. todo' # <<>> /\ Head(todo') = Head(calls) /\ Tail(todo') = Tail(calls) \o Tail(todo)
    BY <1>1, <1>2, <1>8
  <2>2. Tail(calls) \in Seq(CallType) BY <1>8
  <2>3. SetOf(Tail(todo')) = SetOf(Tail(calls)) \cup Later
    <3>1. SetOf(Tail(calls) \o Tail(todo)) = SetOf(Tail(calls)) \cup SetOf(Tail(todo))
      BY <2>2, <1>1, SetOfConcat, ZenonT(40)
    <3> QED BY <2>1, <3>1, <1>1
  <2>4. Later' = SetOf(Tail(calls)) \cup Later BY <2>1, <2>3 DEF Later
  <2>5. Unique(Tail(todo)) BY <1>1, UniqueTail
  <2>6. Unique(calls) /\ (\A c \in SetOf(calls), d \in Later : ~Clash(c, d)) => Unique(todo')
    BY <2>5, <1>1, <1>2, UniqueConcat
  <2> QED BY <2>1, <2>4, <2>6, <1>3, <1>5, <1>6, <1>8 DEF Then
<1> QED BY <1>7, <1>8

(* A handler begins: what is left is what it calls.                        *)
LEMMA Beginning ==
  ASSUME Types, Resting, NEW h, NEW calls \in Seq(CallType), Begin(h, calls)
  PROVE  /\ todo' \in Seq(CallType)
         /\ Pending = {} /\ Later = {}
         /\ Pending' = SetOf(calls)
         /\ IF calls = <<>> THEN Later' = {} ELSE Later' = SetOf(Tail(calls))
         /\ todo' # <<>> => Pending' = {Head(todo')} \cup Later'
         /\ calls # <<>> => Head(todo') = Head(calls)
         /\ running' = IF Pending' = {} THEN None ELSE h
         /\ todo' = <<>> <=> Pending' = {}
         /\ Unique(calls) => Unique(todo')
<1>1. todo' = calls /\ todo' \in Seq(CallType) /\ todo = <<>> BY DEF Begin, Resting
<1>2. Pending = {} /\ Later = {} BY <1>1, StackType DEF Later
<1>3. Pending' = SetOf(calls) BY <1>1 DEF Pending
<1>4. (todo' = <<>> <=> Pending' = {}) /\ (todo' # <<>> => Pending' = {Head(todo')} \cup Later')
  BY <1>1, Shape DEF Pending, Later
<1> QED BY <1>1, <1>2, <1>3, <1>4 DEF Begin, Later

(* A handler that calls nothing.                                           *)
LEMMA NoCalls == <<>> \in Seq(CallType) /\ SetOf(<<>>) = {} /\ Unique(<<>>)
  BY EmptySet DEF Unique

(* A call that makes one call.                                             *)
LEMMA OneCall ==
  ASSUME NEW c \in CallType
  PROVE  /\ <<c>> \in Seq(CallType) /\ <<c>> # <<>> /\ Head(<<c>>) = c
         /\ SetOf(<<c>>) = {c} /\ SetOf(Tail(<<c>>)) = {} /\ Unique(<<c>>)
<1>1. Tail(<<c>>) = <<>> OBVIOUS
<1>2. DOMAIN <<c>> = {1} OBVIOUS
<1> QED BY <1>1, <1>2, EmptySet, SetOfOne DEF Unique

(* A call that makes two.                                                  *)
LEMMA TwoCalls ==
  ASSUME NEW c \in CallType, NEW d \in CallType
  PROVE  /\ <<c, d>> \in Seq(CallType) /\ <<c, d>> # <<>> /\ Head(<<c, d>>) = c
         /\ SetOf(<<c, d>>) = {c, d} /\ SetOf(Tail(<<c, d>>)) = {d}
         /\ ~Clash(c, d) => Unique(<<c, d>>)
<1>1. Tail(<<c, d>>) = <<d>> OBVIOUS
<1>2. DOMAIN <<c, d>> = {1, 2} /\ <<c, d>>[1] = c /\ <<c, d>>[2] = d OBVIOUS
<1>3. Clash(d, c) => Clash(c, d) BY DEF Clash
<1>4. ~Clash(c, d) => Unique(<<c, d>>) BY <1>2, <1>3 DEF Unique
<1> QED BY <1>1, <1>4, SetOfOne, SetOfTwo

(* A call that makes three.                                                *)
LEMMA ThreeCalls ==
  ASSUME NEW c \in CallType, NEW d \in CallType, NEW e \in CallType
  PROVE  /\ <<c, d, e>> \in Seq(CallType) /\ <<c, d, e>> # <<>> /\ Head(<<c, d, e>>) = c
         /\ SetOf(<<c, d, e>>) = {c, d, e} /\ SetOf(Tail(<<c, d, e>>)) = {d, e}
         /\ ~Clash(c, d) /\ ~Clash(c, e) /\ ~Clash(d, e) => Unique(<<c, d, e>>)
<1>1. Tail(<<c, d, e>>) = <<d, e>> OBVIOUS
<1>2. /\ DOMAIN <<c, d, e>> = {1, 2, 3}
      /\ <<c, d, e>>[1] = c /\ <<c, d, e>>[2] = d /\ <<c, d, e>>[3] = e
  OBVIOUS
<1>3. \A x, y \in {c, d, e} : Clash(x, y) => Clash(y, x) BY DEF Clash
<1>4. ~Clash(c, d) /\ ~Clash(c, e) /\ ~Clash(d, e) => Unique(<<c, d, e>>)
  BY <1>2, <1>3 DEF Unique
<1> QED BY <1>1, <1>4, SetOfTwo, SetOfThree

(* What a receive of any number of packets leaves to do is a sequence of   *)
(* calls, unique since only its last one is in a group.                    *)
LEMMA MovesThenReceive ==
  ASSUME NEW s \in Sessions, NEW n \in 0 .. MaxPackets
  PROVE  LET moves == [i \in 1 .. n |-> Call("Handle_C_Move", s)]
             calls == moves \o <<Call("RegisterRecv", s)>>
         IN  /\ calls \in Seq(CallType) /\ calls # <<>> /\ Unique(calls)
             /\ SetOf(calls) \subseteq {Call("Handle_C_Move", s), Call("RegisterRecv", s)}
             /\ Call("RegisterRecv", s) \in SetOf(calls)
             /\ SetOf(Tail(calls)) \subseteq {Call("Handle_C_Move", s), Call("RegisterRecv", s)}
<1> DEFINE M == Call("Handle_C_Move", s)
           R == Call("RegisterRecv", s)
           moves == [i \in 1 .. n |-> M]
           calls == moves \o <<R>>
<1>1. n \in Nat BY SessionLifeAssumption
<1>2. M \in CallType /\ R \in CallType BY CallFacts DEF CallNames
<1>3. moves \in Seq(CallType) /\ <<R>> \in Seq(CallType)
  <2> HIDE DEF M, R
  <2> QED BY <1>1, <1>2
<1>4. SetOf(moves) \subseteq {M} BY DEF SetOf
<1>5. Group(M) = "none" BY DEF Group, Call
<1>6. \A c \in {M} : \A d : ~Clash(c, d) BY <1>5 DEF Clash
<1>7. Unique(moves) BY <1>6 DEF Unique
<1> HIDE DEF moves, M, R
<1>8. SetOf(calls) = SetOf(moves) \cup {R}
  <2>1. SetOf(moves \o <<R>>) = SetOf(moves) \cup SetOf(<<R>>)
    BY <1>3, SetOfConcat, ZenonT(40)
  <2>2. SetOf(<<R>>) = {R} BY SetOfOne
  <2> QED BY <2>1, <2>2
<1>9. Unique(calls)
  <2>1. \A c \in SetOf(moves), d \in SetOf(<<R>>) : ~Clash(c, d) BY <1>4, <1>6
  <2>2. Unique(<<R>>) BY <1>2, OneCall
  <2> QED BY <2>1, <2>2, <1>3, <1>7, UniqueConcat
<1>10. calls \in Seq(CallType) BY <1>3
<1> HIDE DEF calls
<1>11. calls # <<>> BY <1>8, EmptySet
<1>12. SetOf(Tail(calls)) \subseteq SetOf(calls) BY <1>10, <1>11, Shape
<1> QED BY <1>4, <1>8, <1>9, <1>10, <1>11, <1>12 DEF calls, moves, M, R

-----------------------------------------------------------------------------
(* The call returns: the later ones remain.                                *)
Leaves ==
  /\ todo' \in Seq(CallType) /\ Unique(todo')
  /\ Pending' = Later /\ Later' \subseteq Later
  /\ todo' # <<>> => Head(todo') \in Later
  /\ todo' = <<>> <=> Later = {}
  /\ running' = IF todo' = <<>> THEN None ELSE running

(* The call makes c, and rest after it; who runs.                          *)
Puts(c, rest, who) ==
  /\ todo' \in Seq(CallType) /\ Unique(todo')
  /\ Pending' = {c} \cup rest \cup Later /\ Later' = rest \cup Later
  /\ todo' # <<>> /\ Head(todo') = c
  /\ running' = who

(* Return leaves the stack to the later calls.                             *)
LEMMA Returning ==
  ASSUME IInv, NEW name, NEW s, Calls(name, s), Return
  PROVE  Leaves
<1>1. todo # <<>> BY DEF Calls
<1> QED BY <1>1, Making, NoCalls DEF Return, IInv, StackInv, Leaves

(* A call that makes calls puts them in front of the later ones.           *)
LEMMA MakingSome ==
  ASSUME IInv, NEW name, NEW s, Calls(name, s),
         NEW calls \in Seq(CallType), calls # <<>>, Then(calls), Unique(calls),
         \A c \in SetOf(calls), d \in Later : ~Clash(c, d)
  PROVE  Puts(Head(calls), SetOf(Tail(calls)), running)
<1>1. todo # <<>> BY DEF Calls
<1>2. SetOf(calls) # {} /\ SetOf(calls) = {Head(calls)} \cup SetOf(Tail(calls)) BY Shape
<1>3. Types /\ Unique(todo) BY DEF IInv, StackInv
<1> QED BY <1>1, <1>2, <1>3, Making DEF Puts

(* It makes one call.                                                      *)
LEMMA MakingOne ==
  ASSUME IInv, NEW name, NEW s, Calls(name, s),
         NEW c \in CallType, Then(<<c>>), \A e \in Later : ~Clash(c, e)
  PROVE  Puts(c, {}, running)
<1> DEFINE calls == <<c>>
<1>1. /\ calls \in Seq(CallType) /\ calls # <<>> /\ Head(calls) = c /\ Then(calls)
      /\ SetOf(calls) = {c} /\ SetOf(Tail(calls)) = {} /\ Unique(calls)
  BY OneCall
<1> HIDE DEF calls
<1>2. Puts(Head(calls), SetOf(Tail(calls)), running) BY <1>1, MakingSome
<1> QED BY <1>1, <1>2

(* It makes two.                                                           *)
LEMMA MakingTwo ==
  ASSUME IInv, NEW name, NEW s, Calls(name, s),
         NEW c \in CallType, NEW d \in CallType, Then(<<c, d>>),
         ~Clash(c, d), \A e \in Later : ~Clash(c, e) /\ ~Clash(d, e)
  PROVE  Puts(c, {d}, running)
<1> DEFINE calls == <<c, d>>
<1>1. /\ calls \in Seq(CallType) /\ calls # <<>> /\ Head(calls) = c /\ Then(calls)
      /\ SetOf(calls) = {c, d} /\ SetOf(Tail(calls)) = {d} /\ Unique(calls)
  BY TwoCalls
<1> HIDE DEF calls
<1>2. Puts(Head(calls), SetOf(Tail(calls)), running) BY <1>1, MakingSome
<1> QED BY <1>1, <1>2

(* It makes three.                                                         *)
LEMMA MakingThree ==
  ASSUME IInv, NEW name, NEW s, Calls(name, s),
         NEW c \in CallType, NEW d \in CallType, NEW e \in CallType, Then(<<c, d, e>>),
         ~Clash(c, d) /\ ~Clash(c, e) /\ ~Clash(d, e),
         \A x \in {c, d, e}, y \in Later : ~Clash(x, y)
  PROVE  Puts(c, {d, e}, running)
<1> DEFINE calls == <<c, d, e>>
<1>1. /\ calls \in Seq(CallType) /\ calls # <<>> /\ Head(calls) = c /\ Then(calls)
      /\ SetOf(calls) = {c, d, e} /\ SetOf(Tail(calls)) = {d, e} /\ Unique(calls)
  BY ThreeCalls
<1> HIDE DEF calls
<1>2. Puts(Head(calls), SetOf(Tail(calls)), running) BY <1>1, MakingSome
<1> QED BY <1>1, <1>2

(* A handler that has nothing to do.                                       *)
LEMMA StartingNone ==
  ASSUME IInv, Resting, NEW h, Begin(h, <<>>)
  PROVE  /\ Pending = {} /\ Later = {}
         /\ todo' \in Seq(CallType) /\ Unique(todo') /\ todo' = <<>>
         /\ Pending' = {} /\ Later' = {} /\ running' = None
  BY Beginning, NoCalls DEF IInv

(* A handler that begins puts its calls on an empty stack.                 *)
LEMMA StartingSome ==
  ASSUME IInv, Resting, NEW h, NEW calls \in Seq(CallType), calls # <<>>, Begin(h, calls),
         Unique(calls)
  PROVE  Pending = {} /\ Later = {} /\ Puts(Head(calls), SetOf(Tail(calls)), h)
<1>1. SetOf(calls) # {} /\ SetOf(calls) = {Head(calls)} \cup SetOf(Tail(calls)) BY Shape
<1> QED BY <1>1, Beginning DEF IInv, Puts

(* It makes one call.                                                      *)
LEMMA StartingOne ==
  ASSUME IInv, Resting, NEW h, NEW c \in CallType, Begin(h, <<c>>)
  PROVE  Pending = {} /\ Later = {} /\ Puts(c, {}, h)
<1> DEFINE calls == <<c>>
<1>1. /\ calls \in Seq(CallType) /\ calls # <<>> /\ Head(calls) = c /\ Begin(h, calls)
      /\ SetOf(Tail(calls)) = {} /\ Unique(calls)
  BY OneCall
<1> HIDE DEF calls
<1>2. Pending = {} /\ Later = {} /\ Puts(Head(calls), SetOf(Tail(calls)), h) BY <1>1,
StartingSome
<1> QED BY <1>1, <1>2

(* It makes two.                                                           *)
LEMMA StartingTwo ==
  ASSUME IInv, Resting, NEW h, NEW c \in CallType, NEW d \in CallType, Begin(h, <<c, d>>),
         ~Clash(c, d)
  PROVE  Pending = {} /\ Later = {} /\ Puts(c, {d}, h)
<1> DEFINE calls == <<c, d>>
<1>1. /\ calls \in Seq(CallType) /\ calls # <<>> /\ Head(calls) = c /\ Begin(h, calls)
      /\ SetOf(Tail(calls)) = {d} /\ Unique(calls)
  BY TwoCalls
<1> HIDE DEF calls
<1>2. Pending = {} /\ Later = {} /\ Puts(Head(calls), SetOf(Tail(calls)), h) BY <1>1,
StartingSome
<1> QED BY <1>1, <1>2

-----------------------------------------------------------------------------
(* Which calls come and go                                                 *)

(* What the step of a call named name, for s, does to the calls the        *)
(* invariant speaks of: the call itself goes, and for s those of news      *)
(* come.                                                                   *)
Turns(name, s, news) ==
  /\ \A n \in HeadOnly : \A x : Waits(n, x) <=> x = s /\ n = name
  /\ \A n \in HeadOnly : \A x : Waits(n, x)' <=> x = s /\ n \in news
  /\ \A n \in Kept : \A x :
       Waits(n, x)' <=> (x = s /\ n \in news) \/ (Waits(n, x) /\ ~(x = s /\ n = name))
  /\ \A x : Has("send", x)' <=> \/ x = s /\ news \cap SendGroup # {}
                                \/ Has("send", x) /\ ~(x = s /\ name \in SendGroup)
  /\ \A x : Has("recv", x)' <=> \/ x = s /\ news \cap RecvGroup # {}
                                \/ Has("recv", x) /\ ~(x = s /\ name \in RecvGroup)
  /\ name # "Loop" => Waits(name, s)
  /\ name \in SendGroup => Has("send", s)
  /\ name \in RecvGroup => Has("recv", s)

(* The groups by name.                                                     *)
LEMMA Names ==
  ASSUME NEW c
  PROVE  /\ Group(c) = "send" <=> c.call \in SendGroup
         /\ Group(c) = "recv" <=> c.call \in RecvGroup
         /\ c.call \in Kept => Group(c) # "none"
  BY DEF Group, SendGroup, RecvGroup, Kept

(* Before the step: no call that never waits is left but the one that      *)
(* runs, and none of its own group.                                        *)
LEMMA Now ==
  ASSUME IInv, NEW name, NEW s, Runs(name, s)
  PROVE  /\ \A n \in HeadOnly : \A x : Waits(n, x) <=> x = s /\ n = name
         /\ name # "Loop" => Waits(name, s)
         /\ \A n \in Kept : \A x : Call(n, x) \in Later <=> Waits(n, x) /\ ~(x = s /\ n = name)
         /\ \A x : Has("send", x) <=> \/ x = s /\ name \in SendGroup
                                      \/ \E c \in Later : Group(c) = "send" /\ c.s = x
         /\ \A x : Has("recv", x) <=> \/ x = s /\ name \in RecvGroup
                                      \/ \E c \in Later : Group(c) = "recv" /\ c.s = x
         /\ name \in SendGroup => \A c \in Later : ~(Group(c) = "send" /\ c.s = s)
         /\ name \in RecvGroup => \A c \in Later : ~(Group(c) = "recv" /\ c.s = s)
<1>1. /\ Pending = {Head(todo)} \cup Later /\ Head(todo).call = name /\ Head(todo).s = s
      /\ name # "Loop" => Head(todo) = Call(name, s)
      /\ \A d \in Later : ~Clash(Head(todo), d)
  BY DEF Runs
<1>2. \A c \in Later : c.call \notin HeadOnly BY DEF IInv, StackInv
<1>3. \A n, x : Call(n, x).call = n /\ Call(n, x).s = x BY CallFacts
<1>4. /\ Group(Head(todo)) = "send" <=> name \in SendGroup
      /\ Group(Head(todo)) = "recv" <=> name \in RecvGroup
      /\ name \in Kept => Group(Head(todo)) # "none"
  BY <1>1, Names
<1>5. \A n \in HeadOnly : \A x : Waits(n, x) <=> x = s /\ n = name
  BY <1>1, <1>2, <1>3 DEF Waits, HeadOnly
<1>6. name # "Loop" => Waits(name, s) BY <1>1 DEF Waits
<1>7. ASSUME NEW n \in Kept, NEW x
      PROVE  Call(n, x) \in Later <=> Waits(n, x) /\ ~(x = s /\ n = name)
  <2>1. CASE x = s /\ n = name
    <3>1. Call(n, x) = Head(todo) BY <1>1, <2>1 DEF Kept
    <3>2. Call(n, x) \notin Later BY <1>1, <1>4, <2>1, <3>1 DEF Clash
    <3> QED BY <2>1, <3>2
  <2>2. CASE ~(x = s /\ n = name)
    <3>1. Call(n, x) # Head(todo) BY <1>1, <1>3, <2>2
    <3> QED BY <1>1, <2>2, <3>1 DEF Waits
  <2> QED BY <2>1, <2>2
<1>8. \A x : Has("send", x) <=> \/ x = s /\ name \in SendGroup
                                \/ \E c \in Later : Group(c) = "send" /\ c.s = x
  BY <1>1, <1>4 DEF Has
<1>9. \A x : Has("recv", x) <=> \/ x = s /\ name \in RecvGroup
                                \/ \E c \in Later : Group(c) = "recv" /\ c.s = x
  BY <1>1, <1>4 DEF Has
<1>10. /\ name \in SendGroup => \A c \in Later : ~(Group(c) = "send" /\ c.s = s)
       /\ name \in RecvGroup => \A c \in Later : ~(Group(c) = "recv" /\ c.s = s)
  BY <1>1, <1>4 DEF Clash
<1> QED BY <1>5, <1>6, <1>7, <1>8, <1>9, <1>10

(* A step that puts new calls turns as told, if of the calls the invariant *)
(* follows it makes those of news, for s.                                  *)
LEMMA TurnsTo ==
  ASSUME IInv, NEW name, NEW s, Runs(name, s),
         NEW new, Pending' = new \cup Later,
         NEW news, \A n \in Tracked : n \in news <=> Call(n, s) \in new,
         \A d \in new : d.call \in Tracked => d = Call(d.call, s)
  PROVE  Turns(name, s, news)
<1>1. \A n, x : Call(n, x).call = n /\ Call(n, x).s = x BY CallFacts
<1>2. \A c \in Later : c.call \notin HeadOnly BY DEF IInv, StackInv
<1>3. \A n \in HeadOnly \cup Kept : \A x : Call(n, x) \in new <=> x = s /\ n \in news
  BY <1>1 DEF Tracked
<1>4. \A n \in HeadOnly : \A x : Waits(n, x)' <=> x = s /\ n \in news
  BY <1>1, <1>2, <1>3 DEF Waits
<1>5. \A n \in Kept : \A x :
        Waits(n, x)' <=> (x = s /\ n \in news) \/ (Waits(n, x) /\ ~(x = s /\ n = name))
  <2>1. \A n \in Kept : \A x : Waits(n, x)' <=> Call(n, x) \in new \/ Call(n, x) \in Later
    BY DEF Waits
  <2> QED BY <1>3, <2>1, Now
<1>6. ASSUME NEW x
      PROVE  /\ (\E c \in new : c.call \in SendGroup /\ c.s = x) <=>
                  x = s /\ news \cap SendGroup # {}
             /\ (\E c \in new : c.call \in RecvGroup /\ c.s = x) <=>
                  x = s /\ news \cap RecvGroup # {}
  BY <1>1 DEF Tracked
<1>7. \A x : Has("send", x)' <=> \/ x = s /\ news \cap SendGroup # {}
                                 \/ Has("send", x) /\ ~(x = s /\ name \in SendGroup)
  <2>1. \A x : Has("send", x)' <=> \/ \E c \in new : c.call \in SendGroup /\ c.s = x
                                   \/ \E c \in Later : Group(c) = "send" /\ c.s = x
    BY Names DEF Has
  <2> QED BY <1>6, <2>1, Now
<1>8. \A x : Has("recv", x)' <=> \/ x = s /\ news \cap RecvGroup # {}
                                 \/ Has("recv", x) /\ ~(x = s /\ name \in RecvGroup)
  <2>1. \A x : Has("recv", x)' <=> \/ \E c \in new : c.call \in RecvGroup /\ c.s = x
                                   \/ \E c \in Later : Group(c) = "recv" /\ c.s = x
    BY Names DEF Has
  <2> QED BY <1>6, <2>1, Now
<1> QED BY <1>4, <1>5, <1>7, <1>8, Now DEF Turns

(* A step that makes no call the invariant follows.                        *)
LEMMA TurnsAway ==
  ASSUME IInv, NEW name, NEW s, Runs(name, s),
         NEW new, Pending' = new \cup Later, \A d \in new : d.call \notin Tracked
  PROVE  Turns(name, s, {})
<1>1. \A n \in Tracked : Call(n, s) \notin new BY CallFacts
<1> QED BY <1>1, TurnsTo

(* A call that returns.                                                    *)
LEMMA LeavesTurns ==
  ASSUME IInv, NEW name, NEW s, Runs(name, s), Leaves
  PROVE  Turns(name, s, {})
<1> DEFINE new == {}
<1>1. Pending' = new \cup Later BY DEF Leaves
<1>2. \A d \in new : d.call \notin Tracked OBVIOUS
<1> HIDE DEF new
<1> QED BY <1>1, <1>2, TurnsAway

(* A call that broadcasts.                                                 *)
LEMMA BroadcastTurns ==
  ASSUME IInv, NEW name, NEW s, Runs(name, s), Puts(Broadcast, {}, running)
  PROVE  Turns(name, s, {})
<1> DEFINE new == {Broadcast}
<1>1. Pending' = new \cup Later BY DEF Puts
<1>2. \A d \in new : d.call \notin Tracked
  BY CallFacts DEF Broadcast, Tracked, HeadOnly, Kept, SendGroup, RecvGroup
<1> HIDE DEF new
<1> QED BY <1>1, <1>2, TurnsAway

(* A call that makes one for the same session.                             *)
LEMMA OneTurns ==
  ASSUME IInv, NEW name, NEW s, Runs(name, s), NEW n, Puts(Call(n, s), {}, running)
  PROVE  Turns(name, s, {n})
<1> DEFINE new == {Call(n, s)}
<1>1. Pending' = new \cup Later BY DEF Puts
<1>2. /\ \A k \in Tracked : k \in {n} <=> Call(k, s) \in new
      /\ \A d \in new : d.call \in Tracked => d = Call(d.call, s)
  BY CallFacts
<1> HIDE DEF new
<1> QED BY <1>1, <1>2, TurnsTo

(* A call that makes two for the same session.                             *)
LEMMA TwoTurn ==
  ASSUME IInv, NEW name, NEW s, Runs(name, s), NEW n, NEW m,
         Puts(Call(n, s), {Call(m, s)}, running)
  PROVE  Turns(name, s, {n, m})
<1> DEFINE new == {Call(n, s), Call(m, s)}
<1>1. Pending' = new \cup Later BY DEF Puts
<1>2. /\ \A k \in Tracked : k \in {n, m} <=> Call(k, s) \in new
      /\ \A d \in new : d.call \in Tracked => d = Call(d.call, s)
  BY CallFacts
<1> HIDE DEF new
<1> QED BY <1>1, <1>2, TurnsTo

(* A call that makes three for the same session.                           *)
LEMMA ThreeTurn ==
  ASSUME IInv, NEW name, NEW s, Runs(name, s), NEW n, NEW m, NEW k,
         Puts(Call(n, s), {Call(m, s), Call(k, s)}, running)
  PROVE  Turns(name, s, {n, m, k})
<1> DEFINE new == {Call(n, s), Call(m, s), Call(k, s)}
<1>1. Pending' = new \cup Later BY DEF Puts
<1>2. /\ \A i \in Tracked : i \in {n, m, k} <=> Call(i, s) \in new
      /\ \A d \in new : d.call \in Tracked => d = Call(d.call, s)
  BY CallFacts
<1> HIDE DEF new
<1> QED BY <1>1, <1>2, TurnsTo

(* A connected session stays held while the handler that holds it goes on; *)
(* when it ends, the session listens.                                      *)
LEMMA StillRunning ==
  ASSUME HeldLines, HeldListens', Leaves \/ running' = running,
         \A s \in Sessions : connected'[s] =>
           connected[s] /\ ("recv" \in kernel[s] => "recv" \in kernel'[s])
  PROVE  HeldLines'
<1>1. running' = running \/ Pending' = {} BY DEF Leaves
<1>2. Pending' = {} => \A n, s : ~Waits(n, s)' BY DEF Waits
<1> QED BY <1>1, <1>2 DEF HeldLines, HeldListens

(* A handler that begins takes over the reference of the event it          *)
(* completes.                                                              *)
LEMMA NowRunning ==
  ASSUME HeldListens, Pending = {},
         \A s \in Sessions : connected'[s] =>
           connected[s] /\ ("recv" \in kernel[s] => "recv" \in kernel'[s] \/ running' = s)
  PROVE  HeldLines'
<1>1. \A n, s : ~Waits(n, s) BY DEF Waits
<1> QED BY <1>1 DEF HeldLines, HeldListens

(* As Turns, for a handler that begins on an empty stack.                  *)
Starts(s, news) ==
  /\ \A n \in HeadOnly \cup Kept : \A x : ~Waits(n, x) /\ (Waits(n, x)' <=> x = s /\ n \in news)
  /\ \A g, x : ~Has(g, x)
  /\ \A x : Has("send", x)' <=> x = s /\ news \cap SendGroup # {}
  /\ \A x : Has("recv", x)' <=> x = s /\ news \cap RecvGroup # {}

(* A handler that begins makes the calls of news, for s.                   *)
LEMMA StartsTo ==
  ASSUME Pending = {}, NEW s, NEW news,
         \A n \in Tracked : n \in news <=> Call(n, s) \in Pending',
         \A d \in Pending' : d.call \in Tracked => d = Call(d.call, s)
  PROVE  Starts(s, news)
<1>1. \A n, x : Call(n, x).call = n /\ Call(n, x).s = x BY CallFacts
<1>2. \A n \in HeadOnly \cup Kept : \A x : Waits(n, x)' <=> x = s /\ n \in news
  BY <1>1 DEF Waits, Tracked
<1>3. ASSUME NEW x
      PROVE  /\ (\E c \in Pending' : c.call \in SendGroup /\ c.s = x) <=>
                  x = s /\ news \cap SendGroup # {}
             /\ (\E c \in Pending' : c.call \in RecvGroup /\ c.s = x) <=>
                  x = s /\ news \cap RecvGroup # {}
  BY <1>1 DEF Tracked
<1>4. \A x : /\ Has("send", x)' <=> x = s /\ news \cap SendGroup # {}
             /\ Has("recv", x)' <=> x = s /\ news \cap RecvGroup # {}
  BY <1>3, Names DEF Has
<1> QED BY <1>2, <1>4 DEF Starts, Has, Waits

(* Slots and None are no sessions.                                         *)
LEMMA NotSessions ==
  None \notin Sessions /\ Slots \cap Sessions = {} /\ None \notin Slots
  BY SessionLifeAssumption DEF Sessions

(* A broadcast is in no group.                                             *)
LEMMA BroadcastIsCall ==
  Broadcast \in CallType /\ \A e : ~Clash(Broadcast, e)
<1>1. Broadcast \in CallType BY CallFacts DEF Broadcast, CallNames
<1> QED BY <1>1 DEF Broadcast, Clash, Group, Call

(* A step of the loop of Broadcast returns, or sends to a player and goes  *)
(* on with fewer.                                                          *)
LEMMA Advancing ==
  ASSUME IInv, NEW name, NEW s, Calls(name, s),
         NEW left \in SUBSET players, left \subseteq Sessions, Advance(left)
  PROVE  Leaves \/ \E p \in players, l \in SUBSET players :
                      Puts(Call("Send", p), {Loop(p, l)}, running)
<1>1. CASE left = {} /\ Return BY <1>1, Returning
<1>2. CASE \E p \in left : Then(<<Call("Send", p), Loop(p, left \ {p})>>)
  <2>1. PICK p \in left : Then(<<Call("Send", p), Loop(p, left \ {p})>>) BY <1>2
  <2> DEFINE l == left \ {p}
             c == Call("Send", p)
             d == Loop(p, l)
  <2>2. c \in CallType /\ d \in CallType
    BY CallFacts DEF CallNames, CallType, Loop
  <2>3. \A e : ~Clash(c, e) /\ ~Clash(d, e) BY DEF Clash, Group, Call, Loop
  <2>4. Puts(c, {d}, running)
    <3>1. Then(<<c, d>>) BY <2>1
    <3> HIDE DEF c, d
    <3> QED BY <2>2, <2>3, <3>1, MakingTwo
  <2> QED BY <2>4
<1> QED BY <1>1, <1>2 DEF Advance

-----------------------------------------------------------------------------
(* Every step keeps the invariant                                          *)

(* RegisterAccept: a session nobody has used takes the slot.               *)
LEMMA RegisterAcceptStep ==
  ASSUME IInv, NEW a \in Slots, RegisterAccept(a)
  PROVE  IInv'
<1>1. Calls("RegisterAccept", a) /\ Return BY DEF RegisterAccept
<1>2. Runs("RegisterAccept", a) BY <1>1, NextCall DEF IInv
<1>3. Leaves BY <1>1, Returning
<1>4. Turns("RegisterAccept", a, {})
  BY <1>2, <1>3, LeavesTurns
<1>5. Types'
  BY <1>2, <1>3, <1>4 DEF IInv, Leaves, Runs, Turns, Types, Fields, EventInv, flow, io, lists,
                          RegisterAccept, Fresh, Sessions
<1>6. StackInv'
  BY <1>2, <1>3 DEF IInv, Leaves, Runs, StackInv
<1>7. UsedInv'
  BY <1>2, <1>3, NotSessions
     DEF IInv, Leaves, Runs, UsedInv, Used, flow, io, lists, RegisterAccept
<1>8. ListInv'
  BY <1>4 DEF IInv, Turns, HeadOnly, Kept, ListInv, lists, RegisterAccept
<1>9. EventInv'
  BY <1>4 DEF IInv, Turns, EventInv, flow, io, RegisterAccept
<1>10. SlotInv'
  BY <1>4, NotSessions DEF IInv, Turns, Kept, Types, Fields, SlotInv, Used, flow,
                           RegisterAccept, Fresh, Sessions, Referenced
<1>11. HeldCalls'
  BY <1>2, <1>3 DEF IInv, Leaves, Runs, HeldInv, HeldCalls
<1>12. TransientErrors = FALSE => HeldListens'
  BY <1>4 DEF IInv, Turns, HeadOnly, Kept, HeldInv, HeldListens, EventInv, io, RegisterAccept
<1>13. TransientErrors = FALSE => HeldLines'
  BY <1>2, <1>3, <1>4, StillRunning, <1>12 DEF IInv, HeldInv, io, RegisterAccept
<1>14. TransientErrors = FALSE => HeldLater'
  BY <1>2, <1>3 DEF IInv, Leaves, Runs, HeldInv, HeldLater, Held, Methods, io, RegisterAccept
<1>15. TransientErrors = FALSE => HeldHead'
  BY <1>2, <1>3
     DEF IInv, Leaves, Runs, HeldInv, HeldLater, HeldHead, Held, Methods, io, RegisterAccept
<1> QED BY <1>5, <1>6, <1>7, <1>8, <1>9, <1>10, <1>11, <1>12, <1>13, <1>14, <1>15
           DEF IInv, HeldInv

(* ReleaseSession: only Disconnect waits for it, and it is the last to     *)
(* release.                                                                *)
LEMMA ReleaseSessionStep ==
  ASSUME IInv, NEW s \in Sessions, ReleaseSession(s)
  PROVE  IInv'
<1>1. Calls("ReleaseSession", s) /\ Return BY DEF ReleaseSession
<1>2. Runs("ReleaseSession", s) BY <1>1, NextCall DEF IInv
<1>3. Leaves BY <1>1, Returning
<1>4. Turns("ReleaseSession", s, {})
  BY <1>2, <1>3, LeavesTurns
<1>5. Types'
  BY <1>2, <1>3, <1>4
     DEF IInv, Leaves, Runs, Turns, Types, Fields, EventInv, flow, io, slots, ReleaseSession
<1>6. StackInv'
  BY <1>2, <1>3 DEF IInv, Leaves, Runs, StackInv
<1>7. UsedInv'
  BY <1>2, <1>3, NotSessions DEF IInv, Leaves, Runs, UsedInv, Used, flow, io, ReleaseSession
<1>8. ListInv'
  BY <1>4 DEF IInv, Turns, HeadOnly, Kept, ListInv, ReleaseSession
<1>9. EventInv'
  BY <1>4 DEF IInv, Turns, EventInv, flow, io, ReleaseSession
<1>10. SlotInv'
  BY <1>4, NotSessions DEF IInv, Turns, Kept, SlotInv, Used, flow, slots, ReleaseSession
<1>11. HeldCalls'
  BY <1>2, <1>3 DEF IInv, Leaves, Runs, HeldInv, HeldCalls
<1>12. TransientErrors = FALSE => HeldListens'
  BY <1>4 DEF IInv, Turns, HeadOnly, Kept, HeldInv, HeldListens, EventInv, io, ReleaseSession
<1>13. TransientErrors = FALSE => HeldLines'
  BY <1>2, <1>3, <1>4, StillRunning, <1>12 DEF IInv, HeldInv, io, ReleaseSession
<1>14. TransientErrors = FALSE => HeldLater'
  BY <1>2, <1>3 DEF IInv, Leaves, Runs, HeldInv, HeldLater, Held, Methods, io, ReleaseSession
<1>15. TransientErrors = FALSE => HeldHead'
  BY <1>2, <1>3
     DEF IInv, Leaves, Runs, HeldInv, HeldLater, HeldHead, Held, Methods, io, ReleaseSession
<1> QED BY <1>5, <1>6, <1>7, <1>8, <1>9, <1>10, <1>11, <1>12, <1>13, <1>14, <1>15
           DEF IInv, HeldInv

(* The end of a WSASend that failed.                                       *)
LEMMA SendReleasesStep ==
  ASSUME IInv, NEW s \in Sessions, SendReleases(s)
  PROVE  IInv'
<1>1. Calls("SendReleases", s) /\ Return BY DEF SendReleases
<1>2. Runs("SendReleases", s) BY <1>1, NextCall DEF IInv
<1>3. Leaves BY <1>1, Returning
<1>4. Turns("SendReleases", s, {})
  BY <1>2, <1>3, LeavesTurns
<1>5. Types'
  BY <1>2, <1>3, <1>4
     DEF IInv, Leaves, Runs, Turns, Types, Fields, EventInv, io, slots, lists, SendReleases
<1>6. StackInv'
  BY <1>2, <1>3 DEF IInv, Leaves, Runs, StackInv
<1>7. UsedInv'
  BY <1>2, <1>3, NotSessions DEF IInv, Leaves, Runs, UsedInv, Used, io, lists, SendReleases
<1>8. ListInv'
  BY <1>4 DEF IInv, Turns, HeadOnly, Kept, ListInv, lists, SendReleases
<1>9. EventInv'
  BY <1>4 DEF IInv, Turns, SendGroup, EventInv, io, SendReleases
<1>10. SlotInv'
  BY <1>4, NotSessions DEF IInv, Turns, Kept, SlotInv, Used, slots, SendReleases
<1>11. HeldCalls'
  BY <1>2, <1>3 DEF IInv, Leaves, Runs, HeldInv, HeldCalls
<1>12. TransientErrors = FALSE => HeldListens'
  BY <1>4 DEF IInv, Turns, HeadOnly, Kept, HeldInv, HeldListens, EventInv, io, SendReleases
<1>13. TransientErrors = FALSE => HeldLines'
  BY <1>2, <1>3, <1>4, StillRunning, <1>12 DEF IInv, HeldInv, io, SendReleases
<1>14. TransientErrors = FALSE => HeldLater'
  BY <1>2, <1>3 DEF IInv, Leaves, Runs, HeldInv, HeldLater, Held, Methods, io, SendReleases
<1>15. TransientErrors = FALSE => HeldHead'
  BY <1>2, <1>3
     DEF IInv, Leaves, Runs, HeldInv, HeldLater, HeldHead, Held, Methods, io, SendReleases
<1> QED BY <1>5, <1>6, <1>7, <1>8, <1>9, <1>10, <1>11, <1>12, <1>13, <1>14, <1>15
           DEF IInv, HeldInv

(* RegisterRecv gives the event's reference back: the handler still holds  *)
(* the session.                                                            *)
LEMMA RecvRefusedStep ==
  ASSUME IInv, NEW s \in Sessions, RecvRefused(s)
  PROVE  IInv'
<1>1. Calls("RecvRefused", s) /\ Return BY DEF RecvRefused
<1>2. Runs("RecvRefused", s) BY <1>1, NextCall DEF IInv
<1>3. Leaves BY <1>1, Returning
<1>4. Turns("RecvRefused", s, {})
  BY <1>2, <1>3, LeavesTurns
<1>5. Types'
  BY <1>2, <1>3, <1>4 DEF IInv, Leaves, Runs, Turns, RecvGroup, Types, Fields, EventInv, flow,
                          slots, lists, RecvRefused
<1>6. StackInv'
  BY <1>2, <1>3 DEF IInv, Leaves, Runs, StackInv
<1>7. UsedInv'
  BY <1>2, <1>3, NotSessions DEF IInv, Leaves, Runs, UsedInv, Used, flow, lists, RecvRefused
<1>8. ListInv'
  BY <1>4 DEF IInv, Turns, HeadOnly, Kept, ListInv, lists, RecvRefused
<1>9. EventInv'
  BY <1>4 DEF IInv, Turns, EventInv, flow, RecvRefused
<1>10. SlotInv'
  BY <1>4, NotSessions DEF IInv, Turns, Kept, SlotInv, Used, flow, slots, RecvRefused
<1>11. HeldCalls'
  BY <1>2, <1>3 DEF IInv, Leaves, Runs, HeldInv, HeldCalls
<1>12. TransientErrors = FALSE => HeldListens'
  BY <1>4 DEF IInv, Turns, HeadOnly, Kept, HeldInv, HeldListens, EventInv, RecvRefused
<1>13. TransientErrors = FALSE => HeldLines'
  BY <1>2, <1>3, <1>4, StillRunning, <1>12 DEF IInv, HeldInv, RecvRefused
<1>14. TransientErrors = FALSE => HeldLater'
  BY <1>2, <1>3
     DEF IInv, Leaves, Runs, HeldInv, HeldCalls, HeldLater, Held, Methods, RecvRefused
<1>15. TransientErrors = FALSE => HeldHead'
  BY <1>2, <1>3
     DEF IInv, Leaves, Runs, HeldInv, HeldCalls, HeldLater, HeldHead, Held, Methods, RecvRefused
<1> QED BY <1>5, <1>6, <1>7, <1>8, <1>9, <1>10, <1>11, <1>12, <1>13, <1>14, <1>15
           DEF IInv, HeldInv

(* RegisterDisconnect posts or fails.                                      *)
LEMMA RegisterDisconnectStep ==
  ASSUME IInv, NEW s \in Sessions, RegisterDisconnect(s)
  PROVE  IInv'
<1>1. Calls("RegisterDisconnect", s) /\ Return BY DEF RegisterDisconnect
<1>2. Runs("RegisterDisconnect", s) BY <1>1, NextCall DEF IInv
<1>3. Leaves BY <1>1, Returning
<1>4. Turns("RegisterDisconnect", s, {}) BY <1>2, <1>3, LeavesTurns
<1>5. /\ owner' \in [Sessions -> SUBSET Operations] /\ kernel' \in [Sessions -> SUBSET Operations]
      /\ \A x \in Sessions : /\ kernel'[x] \subseteq owner'[x] /\ owner[x] \subseteq owner'[x]
                             /\ "send" \in kernel'[x] <=> "send" \in kernel[x]
                             /\ "recv" \in kernel'[x] <=> "recv" \in kernel[x]
                             /\ x # s => owner'[x] = owner[x]
      /\ UNCHANGED <<flow, connected, slots, lists, undefined>>
  <2>1. /\ \/ /\ owner' = [owner EXCEPT ![s] = @ \cup {"disconnect"}]
              /\ kernel' = [kernel EXCEPT ![s] = @ \cup {"disconnect"}]
           \/ UNCHANGED io
        /\ UNCHANGED <<flow, connected, slots, lists, undefined>>
    BY DEF RegisterDisconnect
  <2> QED BY <2>1 DEF IInv, Types, Fields, Operations, io
<1>6. Types'
  BY <1>2, <1>3, <1>5, <1>4, <1>5
     DEF IInv, Leaves, Runs, Turns, Types, Fields, EventInv, flow, slots, lists
<1>7. StackInv'
  BY <1>2, <1>3, <1>5 DEF IInv, Leaves, Runs, StackInv
<1>8. UsedInv'
  BY <1>2, <1>3, <1>5, NotSessions DEF IInv, Leaves, Runs, UsedInv, Used, flow, lists
<1>9. ListInv'
  BY <1>4, <1>5 DEF IInv, Turns, HeadOnly, Kept, ListInv, lists
<1>10. EventInv'
  BY <1>4, <1>5 DEF IInv, Turns, EventInv, flow
<1>11. SlotInv'
  BY <1>4, <1>5, NotSessions DEF IInv, Turns, Kept, SlotInv, Used, flow, slots
<1>12. HeldCalls'
  BY <1>2, <1>3, <1>5 DEF IInv, Leaves, Runs, HeldInv, HeldCalls
<1>13. TransientErrors = FALSE => HeldListens'
  BY <1>4, <1>5 DEF IInv, Turns, HeadOnly, Kept, HeldInv, HeldListens
<1>14. TransientErrors = FALSE => HeldLines'
  BY <1>2, <1>3, <1>5, <1>4, <1>5, StillRunning, <1>13 DEF IInv, HeldInv
<1>15. TransientErrors = FALSE => HeldLater'
  BY <1>2, <1>3, <1>5 DEF IInv, Leaves, Runs, HeldInv, HeldLater, Held, Methods
<1>16. TransientErrors = FALSE => HeldHead'
  BY <1>2, <1>3, <1>5 DEF IInv, Leaves, Runs, HeldInv, HeldLater, HeldHead, Held, Methods
<1> QED BY <1>6, <1>7, <1>8, <1>9, <1>10, <1>11, <1>12, <1>13, <1>14, <1>15, <1>16
           DEF IInv, HeldInv

(* RegisterSend gives the event's reference back.                          *)
LEMMA SendRefusedStep ==
  ASSUME IInv, NEW s \in Sessions, SendRefused(s)
  PROVE  IInv'
<1> DEFINE c == Call("SendReleases", s)
<1>1. Calls("SendRefused", s) /\ Then(<<c>>) BY DEF SendRefused
<1>2. Runs("SendRefused", s) BY <1>1, NextCall DEF IInv
<1>3. c \in CallType BY CallFacts DEF CallNames
<1>4. \A e \in Later : ~Clash(c, e)
  BY <1>2 DEF Runs, Clash, Group, Call
<1>5. Puts(c, {}, running)
  <2> HIDE DEF c
  <2> QED BY <1>1, <1>3, <1>4, MakingOne
<1>6. Turns("SendRefused", s, {"SendReleases"})
  BY <1>2, <1>5, OneTurns
<1>7. Types'
  BY <1>2, <1>5, <1>6 DEF IInv, Puts, Runs, Turns, SendGroup, Types, Fields, EventInv, flow,
                          slots, lists, SendRefused
<1>8. StackInv'
  BY <1>2, <1>5 DEF IInv, Puts, Runs, StackInv, Call
<1>9. UsedInv'
  BY <1>2, <1>5, NotSessions DEF IInv, Puts, Runs, UsedInv, Used, Call, flow, lists, SendRefused
<1>10. ListInv'
  BY <1>6 DEF IInv, Turns, HeadOnly, Kept, ListInv, lists, SendRefused
<1>11. EventInv'
  BY <1>6 DEF IInv, Turns, SendGroup, RecvGroup, EventInv, flow, SendRefused
<1>12. SlotInv'
  BY <1>6, NotSessions DEF IInv, Turns, Kept, SlotInv, Used, flow, slots, SendRefused
<1>13. HeldCalls'
  BY <1>2, <1>5 DEF IInv, Puts, Runs, HeldInv, HeldCalls, Call
<1>14. TransientErrors = FALSE => HeldListens'
  BY <1>6 DEF IInv, Turns, HeadOnly, Kept, HeldInv, HeldListens, EventInv, SendRefused
<1>15. TransientErrors = FALSE => HeldLines'
  BY <1>2, <1>5, <1>6, StillRunning, <1>14 DEF IInv, Puts, HeldInv, SendRefused
<1>16. TransientErrors = FALSE => HeldLater'
  BY <1>2, <1>5 DEF IInv, Puts, Runs, HeldInv, HeldLater, Held, Methods, SendRefused
<1>17. TransientErrors = FALSE => HeldHead'
  BY <1>2, <1>5 DEF IInv, Puts, Runs, HeldInv, HeldHead, Held, Methods, Call, SendRefused
<1> QED BY <1>7, <1>8, <1>9, <1>10, <1>11, <1>12, <1>13, <1>14, <1>15, <1>16, <1>17
           DEF IInv, HeldInv

(* ProcessConnect: the session enters the service's list, and its          *)
(* OnConnected is next.                                                    *)
LEMMA ProcessConnectStep ==
  ASSUME IInv, NEW s \in Sessions, ProcessConnect(s)
  PROVE  IInv'
<1> DEFINE c == Call("OnConnected", s)
           d == Call("RegisterRecv", s)
<1>1. Calls("ProcessConnect", s) /\ Then(<<c, d>>) BY DEF ProcessConnect
<1>2. Runs("ProcessConnect", s) BY <1>1, NextCall DEF IInv
<1>3. c \in CallType /\ d \in CallType BY CallFacts DEF CallNames
<1>4. ~Clash(c, d) /\ \A e \in Later : ~Clash(c, e) /\ ~Clash(d, e)
  BY <1>2 DEF IInv, ListInv, Waits, Runs, Clash, Group, Call
<1>5. Puts(c, {d}, running)
  <2> HIDE DEF c, d
  <2> QED BY <1>1, <1>3, <1>4, MakingTwo
<1>6. Turns("ProcessConnect", s, {"OnConnected", "RegisterRecv"})
  BY <1>2, <1>5, TwoTurn
<1>7. Types'
  BY <1>2, <1>5, <1>6
     DEF IInv, Puts, Runs, Turns, Types, Fields, EventInv, flow, io, slots, ProcessConnect
<1>8. StackInv'
  BY <1>2, <1>5 DEF IInv, Puts, Runs, StackInv, HeadOnly, Call
<1>9. UsedInv'
  BY <1>2, <1>5, NotSessions DEF IInv, Puts, Runs, UsedInv, Used, Call, flow, io, ProcessConnect
<1>10. ListInv'
  <2>1. ~Waits("ReleaseSession", s) /\ ~Waits("OnDisconnected", s)
    <3>1. Waits("ProcessConnect", s) BY <1>6 DEF Turns
    <3>2. \A e \in Later : e.call = "RegisterAccept" BY <3>1 DEF IInv, ListInv
    <3> QED BY <1>2, <3>2, CallFacts DEF Runs, Waits
  <2> QED BY <1>6, <2>1
             DEF IInv, Turns, HeadOnly, Kept, SendGroup, RecvGroup, Types, Fields, ListInv,
                        flow, io, slots, ProcessConnect
<1>11. EventInv'
  <2>1. kernel[s] = {}
    BY <1>6 DEF Turns, IInv, ListInv, Types, Fields, HeadOnly
  <2>2. ~Has("recv", s)
    BY <1>2 DEF IInv, ListInv, Runs, Waits, Has, Group
  <2> QED BY <1>6, <2>1, <2>2 DEF IInv, Turns, SendGroup, RecvGroup, Types, Fields, EventInv,
                        flow, io, slots, ProcessConnect
<1>12. SlotInv'
  BY <1>6, NotSessions DEF IInv, Turns, Kept, SlotInv, Used, flow, slots, ProcessConnect
<1>13. HeldCalls'
  BY <1>2, <1>5 DEF IInv, Puts, Runs, HeldInv, HeldCalls, Call
<1>14. TransientErrors = FALSE => HeldListens'
  BY <1>6 DEF IInv, Turns, HeadOnly, Kept, HeldInv, HeldListens, EventInv, io, ProcessConnect
<1>15. TransientErrors = FALSE => HeldLines'
  <2>1. TransientErrors = FALSE => running = s
    BY <1>2 DEF IInv, HeldInv, HeldCalls, Runs, Call
  <2> QED BY <1>5, <2>1 DEF IInv, HeldInv, HeldLines, Puts, io, ProcessConnect
<1>16. TransientErrors = FALSE => HeldLater'
  BY <1>2, <1>5
     DEF IInv, Puts, Runs, HeldInv, HeldLater, HeldHead, Held, Methods, Call, io, ProcessConnect
<1>17. TransientErrors = FALSE => HeldHead'
  BY <1>2, <1>5 DEF IInv, Puts, Runs, HeldInv, HeldCalls, HeldHead, Held, Methods, Call
<1> QED BY <1>7, <1>8, <1>9, <1>10, <1>11, <1>12, <1>13, <1>14, <1>15, <1>16, <1>17
           DEF IInv, HeldInv

(* OnConnected: the session enters the manager's list.                     *)
LEMMA OnConnectedStep ==
  ASSUME IInv, NEW s \in Sessions, OnConnected(s)
  PROVE  IInv'
<1> DEFINE c == Call("Send", s)
           d == Call("EnterRoom", s)
<1>1. Calls("OnConnected", s) /\ Then(<<c, d>>) BY DEF OnConnected
<1>2. Runs("OnConnected", s) BY <1>1, NextCall DEF IInv
<1>3. c \in CallType /\ d \in CallType BY CallFacts DEF CallNames
<1>4. ~Clash(c, d) /\ \A e \in Later : ~Clash(c, e) /\ ~Clash(d, e)
  BY DEF Clash, Group, Call
<1>5. Puts(c, {d}, running)
  <2> HIDE DEF c, d
  <2> QED BY <1>1, <1>3, <1>4, MakingTwo
<1>6. Turns("OnConnected", s, {"Send", "EnterRoom"})
  BY <1>2, <1>5, TwoTurn
<1>7. Types'
  BY <1>2, <1>5, <1>6
     DEF IInv, Puts, Runs, Turns, Types, Fields, EventInv, flow, io, slots, OnConnected
<1>8. StackInv'
  BY <1>2, <1>5 DEF IInv, Puts, Runs, StackInv, HeadOnly, Call
<1>9. UsedInv'
  BY <1>2, <1>5, NotSessions DEF IInv, Puts, Runs, UsedInv, Used, Call, flow, io, OnConnected
<1>10. ListInv'
  BY <1>6 DEF IInv, Turns, HeadOnly, Kept, ListInv, OnConnected
<1>11. EventInv'
  BY <1>6 DEF IInv, Turns, SendGroup, RecvGroup, EventInv, flow, io, OnConnected
<1>12. SlotInv'
  BY <1>6, NotSessions DEF IInv, Turns, Kept, SlotInv, Used, flow, slots, OnConnected
<1>13. HeldCalls'
  BY <1>2, <1>5 DEF IInv, Puts, Runs, HeldInv, HeldCalls, Call
<1>14. TransientErrors = FALSE => HeldListens'
  BY <1>6 DEF IInv, Turns, HeadOnly, Kept, HeldInv, HeldListens, EventInv, io, OnConnected
<1>15. TransientErrors = FALSE => HeldLines'
  BY <1>2, <1>5, <1>6, StillRunning, <1>14 DEF IInv, Puts, HeldInv, io, OnConnected
<1>16. TransientErrors = FALSE => HeldLater'
  BY <1>2, <1>5 DEF IInv, Puts, Runs, HeldInv, HeldLater, Held, Methods, Call, io, OnConnected
<1>17. TransientErrors = FALSE => HeldHead'
  BY <1>2, <1>5 DEF IInv, Puts, Runs, HeldInv, HeldCalls, HeldHead, Held, Methods, Call
<1> QED BY <1>7, <1>8, <1>9, <1>10, <1>11, <1>12, <1>13, <1>14, <1>15, <1>16, <1>17
           DEF IInv, HeldInv

(* EnterRoom sends, then adds the player.                                  *)
LEMMA EnterRoomStep ==
  ASSUME IInv, NEW s \in Sessions, EnterRoom(s)
  PROVE  IInv'
<1> DEFINE c == Call("Send", s)
           d == Call("AddObject", s)
<1>1. Calls("EnterRoom", s) /\ Then(<<c, c, d>>) BY DEF EnterRoom
<1>2. Runs("EnterRoom", s) BY <1>1, NextCall DEF IInv
<1>3. c \in CallType /\ d \in CallType BY CallFacts DEF CallNames
<1>4. \A x \in {c, d} : \A y : ~Clash(x, y) BY DEF Clash, Group, Call
<1>5. Puts(c, {c, d}, running)
  <2> HIDE DEF c, d
  <2> QED BY <1>1, <1>3, <1>4, MakingThree
<1>6. Turns("EnterRoom", s, {"Send", "Send", "AddObject"})
  BY <1>2, <1>5, ThreeTurn
<1>7. Types'
  BY <1>2, <1>5, <1>6
     DEF IInv, Puts, Runs, Turns, Types, Fields, EventInv, flow, io, slots, lists, EnterRoom
<1>8. StackInv'
  BY <1>2, <1>5 DEF IInv, Puts, Runs, StackInv, HeadOnly, Call
<1>9. UsedInv'
  BY <1>2, <1>5, NotSessions
     DEF IInv, Puts, Runs, UsedInv, Used, Call, flow, io, lists, EnterRoom
<1>10. ListInv'
  BY <1>6 DEF IInv, Turns, HeadOnly, Kept, ListInv, lists, EnterRoom
<1>11. EventInv'
  BY <1>6 DEF IInv, Turns, SendGroup, RecvGroup, EventInv, flow, io, EnterRoom
<1>12. SlotInv'
  BY <1>6, NotSessions DEF IInv, Turns, Kept, SlotInv, Used, flow, slots, EnterRoom
<1>13. HeldCalls'
  BY <1>2, <1>5 DEF IInv, Puts, Runs, HeldInv, HeldCalls, Call
<1>14. TransientErrors = FALSE => HeldListens'
  BY <1>6 DEF IInv, Turns, HeadOnly, Kept, HeldInv, HeldListens, EventInv, io, EnterRoom
<1>15. TransientErrors = FALSE => HeldLines'
  BY <1>2, <1>5, <1>6, StillRunning, <1>14 DEF IInv, Puts, HeldInv, io, EnterRoom
<1>16. TransientErrors = FALSE => HeldLater'
  BY <1>2, <1>5
     DEF IInv, Puts, Runs, HeldInv, HeldCalls, HeldLater, Held, Methods, Call, io, EnterRoom
<1>17. TransientErrors = FALSE => HeldHead'
  BY <1>2, <1>5 DEF IInv, Puts, Runs, HeldInv, HeldCalls, HeldHead, Held, Methods, Call
<1> QED BY <1>7, <1>8, <1>9, <1>10, <1>11, <1>12, <1>13, <1>14, <1>15, <1>16, <1>17
           DEF IInv, HeldInv

(* AddObject: the player's session is in the room.                         *)
LEMMA AddObjectStep ==
  ASSUME IInv, NEW s \in Sessions, AddObject(s)
  PROVE  IInv'
<1>1. Calls("AddObject", s) /\ Then(<<Broadcast>>) BY DEF AddObject
<1>2. Runs("AddObject", s) BY <1>1, NextCall DEF IInv
<1>3. Puts(Broadcast, {}, running) BY <1>1, BroadcastIsCall, MakingOne
<1>4. Turns("AddObject", s, {})
  BY <1>2, <1>3, BroadcastTurns
<1>5. Types'
  BY <1>2, <1>3, <1>4
     DEF IInv, Puts, Runs, Turns, Types, Fields, EventInv, flow, io, slots, AddObject
<1>6. StackInv'
  BY <1>2, <1>3 DEF IInv, Puts, Runs, StackInv, Call, Broadcast
<1>7. UsedInv'
  BY <1>2, <1>3, NotSessions
     DEF IInv, Puts, Runs, UsedInv, Used, Call, flow, io, AddObject, Broadcast
<1>8. ListInv'
  BY <1>4 DEF IInv, Turns, HeadOnly, Kept, ListInv, AddObject
<1>9. EventInv'
  BY <1>4 DEF IInv, Turns, EventInv, flow, io, AddObject
<1>10. SlotInv'
  BY <1>4, NotSessions DEF IInv, Turns, Kept, SlotInv, Used, flow, slots, AddObject
<1>11. HeldCalls'
  BY <1>2, <1>3 DEF IInv, Puts, Runs, HeldInv, HeldCalls, Call, AddObject, Broadcast
<1>12. TransientErrors = FALSE => HeldListens'
  BY <1>4 DEF IInv, Turns, HeadOnly, Kept, HeldInv, HeldListens, EventInv, io, AddObject
<1>13. TransientErrors = FALSE => HeldLines'
  BY <1>2, <1>3, <1>4, StillRunning, <1>12 DEF IInv, Puts, HeldInv, io, AddObject
<1>14. TransientErrors = FALSE => HeldLater'
  BY <1>2, <1>3 DEF IInv, Puts, Runs, HeldInv, HeldLater, Held, Methods, io, AddObject
<1>15. TransientErrors = FALSE => HeldHead'
  BY <1>2, <1>3
     DEF IInv, Puts, Runs, HeldInv, HeldHead, Held, Methods, Call, AddObject, Broadcast
<1> QED BY <1>5, <1>6, <1>7, <1>8, <1>9, <1>10, <1>11, <1>12, <1>13, <1>14, <1>15
           DEF IInv, HeldInv

(* RemoveObject: a player leaves; its session is not sent to again.        *)
LEMMA RemoveObjectStep ==
  ASSUME IInv, NEW s \in Sessions, RemoveObject(s)
  PROVE  IInv'
<1>1. Calls("RemoveObject", s) /\ Then(IF s \in players THEN <<Broadcast>> ELSE <<>>)
  BY DEF RemoveObject, Removes
<1>2. Runs("RemoveObject", s) BY <1>1, NextCall DEF IInv
<1>3. Puts(Broadcast, {}, running) \/ Leaves
  BY <1>1, BroadcastIsCall, MakingOne, Returning DEF Return
<1>4. Turns("RemoveObject", s, {})
  <2>1. CASE Leaves BY <1>2, <2>1, LeavesTurns
  <2>2. CASE Puts(Broadcast, {}, running)
    BY <1>2, <2>2, BroadcastTurns
  <2> QED BY <1>3, <2>1, <2>2
<1>5. Types'
  BY <1>2, <1>3, <1>4 DEF IInv, Leaves, Puts, Runs, Turns, Types, Fields, EventInv, flow, io,
                          slots, RemoveObject, Removes
<1>6. StackInv'
  BY <1>2, <1>3 DEF IInv, Leaves, Puts, Runs, StackInv, Call, Broadcast
<1>7. UsedInv'
  BY <1>2, <1>3, NotSessions DEF IInv, Leaves, Puts, Runs, UsedInv, Used, Call, flow, io,
                                 RemoveObject, Removes, Broadcast
<1>8. ListInv'
  BY <1>4 DEF IInv, Turns, HeadOnly, Kept, ListInv, RemoveObject, Removes
<1>9. EventInv'
  BY <1>4 DEF IInv, Turns, EventInv, flow, io, RemoveObject, Removes
<1>10. SlotInv'
  BY <1>4, NotSessions DEF IInv, Turns, Kept, SlotInv, Used, flow, slots, RemoveObject, Removes
<1>11. HeldCalls'
  BY <1>2, <1>3
     DEF IInv, Leaves, Puts, Runs, HeldInv, HeldCalls, Call, RemoveObject, Removes, Broadcast
<1>12. TransientErrors = FALSE => HeldListens'
  BY <1>4
     DEF IInv, Turns, HeadOnly, Kept, HeldInv, HeldListens, EventInv, io, RemoveObject, Removes
<1>13. TransientErrors = FALSE => HeldLines'
  BY <1>2, <1>3, <1>4, StillRunning, <1>12 DEF IInv, Puts, HeldInv, io, RemoveObject, Removes
<1>14. TransientErrors = FALSE => HeldLater'
  BY <1>2, <1>3
     DEF IInv, Leaves, Puts, Runs, HeldInv, HeldLater, Held, Methods, io, RemoveObject, Removes
<1>15. TransientErrors = FALSE => HeldHead'
  BY <1>2, <1>3 DEF IInv, Leaves, Puts, Runs, HeldInv, HeldLater, HeldHead, Held, Methods, Call,
                    io, RemoveObject, Removes, Broadcast
<1> QED BY <1>5, <1>6, <1>7, <1>8, <1>9, <1>10, <1>11, <1>12, <1>13, <1>14, <1>15
           DEF IInv, HeldInv

(* OnDisconnected: the session leaves the manager's list, and its player   *)
(* the room.                                                               *)
LEMMA OnDisconnectedStep ==
  ASSUME IInv, NEW s \in Sessions, OnDisconnected(s)
  PROVE  IInv'
<1>1. Calls("OnDisconnected", s) /\ Then(IF s \in players THEN <<Broadcast>> ELSE <<>>)
  BY DEF OnDisconnected, Removes
<1>2. Runs("OnDisconnected", s) BY <1>1, NextCall DEF IInv
<1>3. Puts(Broadcast, {}, running) \/ Leaves
  BY <1>1, BroadcastIsCall, MakingOne, Returning DEF Return
<1>4. Turns("OnDisconnected", s, {})
  <2>1. CASE Leaves BY <1>2, <2>1, LeavesTurns
  <2>2. CASE Puts(Broadcast, {}, running)
    BY <1>2, <2>2, BroadcastTurns
  <2> QED BY <1>3, <2>1, <2>2
<1>5. Types'
  BY <1>2, <1>3, <1>4 DEF IInv, Leaves, Puts, Runs, Turns, Types, Fields, EventInv, flow, io,
                          slots, OnDisconnected, Removes
<1>6. StackInv'
  BY <1>2, <1>3 DEF IInv, Leaves, Puts, Runs, StackInv, Call, Broadcast
<1>7. UsedInv'
  BY <1>2, <1>3, NotSessions DEF IInv, Leaves, Puts, Runs, UsedInv, Used, Call, flow, io,
                                 OnDisconnected, Removes, Broadcast
<1>8. ListInv'
  BY <1>4 DEF IInv, Turns, HeadOnly, Kept, ListInv, OnDisconnected, Removes
<1>9. EventInv'
  BY <1>4 DEF IInv, Turns, EventInv, flow, io, OnDisconnected, Removes
<1>10. SlotInv'
  BY <1>4, NotSessions
     DEF IInv, Turns, Kept, SlotInv, Used, flow, slots, OnDisconnected, Removes
<1>11. HeldCalls'
  BY <1>2, <1>3
     DEF IInv, Leaves, Puts, Runs, HeldInv, HeldCalls, Call, OnDisconnected, Removes, Broadcast
<1>12. TransientErrors = FALSE => HeldListens'
  BY <1>4 DEF IInv, Turns, HeadOnly, Kept, HeldInv, HeldListens, EventInv, io, OnDisconnected,
              Removes
<1>13. TransientErrors = FALSE => HeldLines'
  BY <1>2, <1>3, <1>4, StillRunning, <1>12 DEF IInv, Puts, HeldInv, io, OnDisconnected, Removes
<1>14. TransientErrors = FALSE => HeldLater'
  BY <1>2, <1>3 DEF IInv, Leaves, Puts, Runs, HeldInv, HeldLater, Held, Methods, io,
                    OnDisconnected, Removes
<1>15. TransientErrors = FALSE => HeldHead'
  BY <1>2, <1>3 DEF IInv, Leaves, Puts, Runs, HeldInv, HeldLater, HeldHead, Held, Methods, Call,
                    io, OnDisconnected, Removes, Broadcast
<1> QED BY <1>5, <1>6, <1>7, <1>8, <1>9, <1>10, <1>11, <1>12, <1>13, <1>14, <1>15
           DEF IInv, HeldInv

(* A C_Move is broadcast by the handler of the receive.                    *)
LEMMA Handle_C_MoveStep ==
  ASSUME IInv, NEW s \in Sessions, Handle_C_Move(s)
  PROVE  IInv'
<1>1. Calls("Handle_C_Move", s) /\ Then(IF s \in players THEN <<Broadcast>> ELSE <<>>)
  BY DEF Handle_C_Move
<1>2. Runs("Handle_C_Move", s) BY <1>1, NextCall DEF IInv
<1>3. Puts(Broadcast, {}, running) \/ Leaves
  BY <1>1, BroadcastIsCall, MakingOne, Returning DEF Return
<1>4. Turns("Handle_C_Move", s, {})
  <2>1. CASE Leaves BY <1>2, <2>1, LeavesTurns
  <2>2. CASE Puts(Broadcast, {}, running)
    BY <1>2, <2>2, BroadcastTurns
  <2> QED BY <1>3, <2>1, <2>2
<1>5. Types'
  BY <1>2, <1>3, <1>4 DEF IInv, Leaves, Puts, Runs, Turns, Types, Fields, EventInv, flow, io,
                          slots, lists, Handle_C_Move
<1>6. StackInv'
  BY <1>2, <1>3 DEF IInv, Leaves, Puts, Runs, StackInv, Call, Broadcast
<1>7. UsedInv'
  BY <1>2, <1>3, NotSessions DEF IInv, Leaves, Puts, Runs, UsedInv, Used, Call, flow, io, lists,
                                 Handle_C_Move, Broadcast
<1>8. ListInv'
  BY <1>4 DEF IInv, Turns, HeadOnly, Kept, ListInv, lists, Handle_C_Move
<1>9. EventInv'
  BY <1>4 DEF IInv, Turns, EventInv, flow, io, Handle_C_Move
<1>10. SlotInv'
  BY <1>4, NotSessions DEF IInv, Turns, Kept, SlotInv, Used, flow, slots, Handle_C_Move
<1>11. HeldCalls'
  BY <1>2, <1>3 DEF IInv, Leaves, Puts, Runs, HeldInv, HeldCalls, Call, Handle_C_Move, Broadcast
<1>12. TransientErrors = FALSE => HeldListens'
  BY <1>4 DEF IInv, Turns, HeadOnly, Kept, HeldInv, HeldListens, EventInv, io, Handle_C_Move
<1>13. TransientErrors = FALSE => HeldLines'
  BY <1>2, <1>3, <1>4, StillRunning, <1>12 DEF IInv, Puts, HeldInv, io, Handle_C_Move
<1>14. TransientErrors = FALSE => HeldLater'
  BY <1>2, <1>3
     DEF IInv, Leaves, Puts, Runs, HeldInv, HeldLater, Held, Methods, io, Handle_C_Move
<1>15. TransientErrors = FALSE => HeldHead'
  BY <1>2, <1>3 DEF IInv, Leaves, Puts, Runs, HeldInv, HeldLater, HeldHead, Held, Methods, Call,
                    io, Handle_C_Move, Broadcast
<1> QED BY <1>5, <1>6, <1>7, <1>8, <1>9, <1>10, <1>11, <1>12, <1>13, <1>14, <1>15
           DEF IInv, HeldInv

(* Broadcast begins: the players it sends to are in the room.              *)
LEMMA BroadcastBeginsStep ==
  ASSUME IInv, BroadcastBegins
  PROVE  IInv'
<1> DEFINE left == players
<1>1. Calls("Broadcast", None) /\ Advance(left) BY DEF BroadcastBegins
<1>2. Runs("Broadcast", None) BY <1>1, NextCall DEF IInv
<1>3. left \subseteq players /\ left \subseteq Sessions BY DEF IInv, Types, Fields
<1> HIDE DEF left
<1>4. Leaves \/ \E p \in players, l \in SUBSET players :
                    Puts(Call("Send", p), {Loop(p, l)}, running)
  BY <1>1, <1>3, Advancing
<1>5. Turns("Broadcast", None, {})
  <2>1. CASE Leaves BY <1>2, <2>1, LeavesTurns
  <2>2. ASSUME NEW p, NEW l, Puts(Call("Send", p), {Loop(p, l)}, running)
        PROVE  Turns("Broadcast", None, {})
    <3> DEFINE new == {Call("Send", p), Loop(p, l)}
    <3>1. Pending' = new \cup Later BY <2>2 DEF Puts
    <3>2. \A d \in new : d.call \notin Tracked
      BY DEF Call, Loop, Tracked, HeadOnly, Kept, SendGroup, RecvGroup
    <3> HIDE DEF new
    <3>3. \A n \in Tracked : Call(n, None) \notin new BY <3>2, CallFacts
    <3> QED BY <1>2, <3>1, <3>2, <3>3, TurnsTo
  <2> QED BY <1>4, <2>1, <2>2
<1>6. Types'
  BY <1>2, <1>4, <1>5 DEF IInv, Leaves, Puts, Runs, Turns, Types, Fields, EventInv, flow, io,
                          slots, lists, BroadcastBegins
<1>7. StackInv'
  BY <1>2, <1>4 DEF IInv, Leaves, Puts, Runs, StackInv, HeadOnly, Call, Broadcast, Loop
<1>8. UsedInv'
  BY <1>2, <1>4, NotSessions
     DEF IInv, Leaves, Puts, Runs, UsedInv, Used, Call, flow, io, lists, BroadcastBegins, Loop
<1>9. ListInv'
  BY <1>5 DEF IInv, Turns, HeadOnly, Kept, ListInv, lists, BroadcastBegins
<1>10. EventInv'
  BY <1>5 DEF IInv, Turns, EventInv, flow, io, BroadcastBegins
<1>11. SlotInv'
  BY <1>5, NotSessions DEF IInv, Turns, Kept, SlotInv, Used, flow, slots, BroadcastBegins
<1>12. HeldCalls'
  BY <1>2, <1>4 DEF IInv, Leaves, Puts, Runs, HeldInv, HeldCalls, Call, BroadcastBegins, Loop
<1>13. TransientErrors = FALSE => HeldListens'
  BY <1>5 DEF IInv, Turns, HeadOnly, Kept, HeldInv, HeldListens, EventInv, io, BroadcastBegins
<1>14. TransientErrors = FALSE => HeldLines'
  BY <1>2, <1>4, <1>5, StillRunning, <1>13 DEF IInv, Puts, HeldInv, io, BroadcastBegins
<1>15. TransientErrors = FALSE => HeldLater'
  BY <1>2, <1>4
     DEF IInv, Leaves, Puts, Runs, HeldInv, HeldLater, Held, Methods, io, BroadcastBegins, Loop
<1>16. TransientErrors = FALSE => HeldHead'
  BY <1>2, <1>4 DEF IInv, Leaves, Puts, Runs, HeldInv, HeldLater, HeldHead, Held, Methods, Call,
                    io, lists, BroadcastBegins
<1> QED BY <1>6, <1>7, <1>8, <1>9, <1>10, <1>11, <1>12, <1>13, <1>14, <1>15, <1>16
           DEF IInv, HeldInv

(* The loop goes on: those it has left to send to are still there.         *)
LEMMA BroadcastGoesOnStep ==
  ASSUME IInv, NEW s \in Sessions, BroadcastGoesOn(s)
  PROVE  IInv'
<1> DEFINE left == Head(todo).left \cap players
<1>1. Calls("Loop", s) /\ Advance(left) BY DEF BroadcastGoesOn
<1>2. Runs("Loop", s) BY <1>1, NextCall DEF IInv
<1>3. left \subseteq players /\ left \subseteq Sessions BY DEF IInv, Types, Fields
<1> HIDE DEF left
<1>4. Leaves \/ \E p \in players, l \in SUBSET players :
                    Puts(Call("Send", p), {Loop(p, l)}, running)
  BY <1>1, <1>3, Advancing
<1>5. Turns("Loop", s, {})
  <2>1. CASE Leaves BY <1>2, <2>1, LeavesTurns
  <2>2. ASSUME NEW p, NEW l, Puts(Call("Send", p), {Loop(p, l)}, running)
        PROVE  Turns("Loop", s, {})
    <3> DEFINE new == {Call("Send", p), Loop(p, l)}
    <3>1. Pending' = new \cup Later BY <2>2 DEF Puts
    <3>2. \A d \in new : d.call \notin Tracked
      BY DEF Call, Loop, Tracked, HeadOnly, Kept, SendGroup, RecvGroup
    <3> HIDE DEF new
    <3>3. \A n \in Tracked : Call(n, s) \notin new BY <3>2, CallFacts
    <3> QED BY <1>2, <3>1, <3>2, <3>3, TurnsTo
  <2> QED BY <1>4, <2>1, <2>2
<1>6. Types'
  BY <1>2, <1>4, <1>5 DEF IInv, Leaves, Puts, Runs, Turns, Types, Fields, EventInv, flow, io,
                          slots, lists, BroadcastGoesOn
<1>7. StackInv'
  BY <1>2, <1>4 DEF IInv, Leaves, Puts, Runs, StackInv, HeadOnly, Call, Loop
<1>8. UsedInv'
  BY <1>2, <1>4, NotSessions
     DEF IInv, Leaves, Puts, Runs, UsedInv, Used, Call, flow, io, lists, BroadcastGoesOn, Loop
<1>9. ListInv'
  BY <1>5 DEF IInv, Turns, HeadOnly, Kept, ListInv, lists, BroadcastGoesOn
<1>10. EventInv'
  BY <1>5 DEF IInv, Turns, EventInv, flow, io, BroadcastGoesOn
<1>11. SlotInv'
  BY <1>5, NotSessions DEF IInv, Turns, Kept, SlotInv, Used, flow, slots, BroadcastGoesOn
<1>12. HeldCalls'
  BY <1>2, <1>4 DEF IInv, Leaves, Puts, Runs, HeldInv, HeldCalls, Call, BroadcastGoesOn, Loop
<1>13. TransientErrors = FALSE => HeldListens'
  BY <1>5 DEF IInv, Turns, HeadOnly, Kept, HeldInv, HeldListens, EventInv, io, BroadcastGoesOn
<1>14. TransientErrors = FALSE => HeldLines'
  BY <1>2, <1>4, <1>5, StillRunning, <1>13 DEF IInv, Puts, HeldInv, io, BroadcastGoesOn
<1>15. TransientErrors = FALSE => HeldLater'
  BY <1>2, <1>4
     DEF IInv, Leaves, Puts, Runs, HeldInv, HeldLater, Held, Methods, io, BroadcastGoesOn, Loop
<1>16. TransientErrors = FALSE => HeldHead'
  BY <1>2, <1>4 DEF IInv, Leaves, Puts, Runs, HeldInv, HeldLater, HeldHead, Held, Methods, Call,
                    io, lists, BroadcastGoesOn
<1> QED BY <1>6, <1>7, <1>8, <1>9, <1>10, <1>11, <1>12, <1>13, <1>14, <1>15, <1>16
           DEF IInv, HeldInv

(* The iterator is gone: nothing more is called.                           *)
LEMMA BroadcastIsLostStep ==
  ASSUME IInv, NEW s \in Sessions, BroadcastIsLost(s)
  PROVE  IInv'
<1>1. UNCHANGED <<todo, running>> BY DEF BroadcastIsLost
<1>2. /\ Pending' = Pending /\ Later' = Later
      /\ \A n, x : (Waits(n, x)' <=> Waits(n, x)) /\ (Has(n, x)' <=> Has(n, x))
  BY <1>1 DEF Pending, Later, Waits, Has
<1>3. Types'
  BY <1>1, <1>2
     DEF IInv, Pending, Later, Types, Fields, EventInv, flow, io, slots, lists, BroadcastIsLost
<1>4. StackInv'
  BY <1>1 DEF IInv, Pending, Later, StackInv, HeadOnly, Loop
<1>5. UsedInv'
  BY <1>1, NotSessions DEF IInv, Pending, Later, UsedInv, Used, flow, io, lists, BroadcastIsLost
<1>6. ListInv'
  BY <1>2 DEF IInv, ListInv, io, lists, BroadcastIsLost
<1>7. EventInv'
  BY <1>2 DEF IInv, EventInv, flow, io, BroadcastIsLost
<1>8. SlotInv'
  BY <1>2, NotSessions DEF IInv, SlotInv, Used, flow, slots, BroadcastIsLost
<1>9. HeldCalls'
  BY <1>1 DEF IInv, Pending, HeldInv, HeldCalls, BroadcastIsLost
<1>10. TransientErrors = FALSE => HeldListens'
  BY <1>2 DEF IInv, HeldInv, HeldListens, EventInv, io, BroadcastIsLost
<1>11. TransientErrors = FALSE => HeldLines'
  BY <1>1, <1>2, <1>10 DEF IInv, Pending, Later, HeldInv, HeldLines, io, BroadcastIsLost
<1>12. TransientErrors = FALSE => HeldLater'
  BY <1>1 DEF IInv, Pending, Later, HeldInv, HeldLater, Held, Methods, io, BroadcastIsLost
<1>13. TransientErrors = FALSE => HeldHead'
  BY <1>1 DEF IInv, Pending, Later, HeldInv, HeldHead, Held, Methods, io, lists, BroadcastIsLost
<1> QED BY <1>3, <1>4, <1>5, <1>6, <1>7, <1>8, <1>9, <1>10, <1>11, <1>12, <1>13
           DEF IInv, HeldInv

(* DisconnectEx has completed.                                             *)
LEMMA ProcessDisconnectStep ==
  ASSUME IInv, NEW s \in Sessions, ProcessDisconnect(s)
  PROVE  IInv'
<1>1. UNCHANGED <<todo, running>> BY DEF ProcessDisconnect
<1>2. /\ Pending' = Pending /\ Later' = Later
      /\ \A n, x : (Waits(n, x)' <=> Waits(n, x)) /\ (Has(n, x)' <=> Has(n, x))
  BY <1>1 DEF Pending, Later, Waits, Has
<1>3. Types'
  BY <1>1, <1>2 DEF IInv, Pending, Later, Resting, Types, Fields, EventInv, flow, slots, lists,
                    ProcessDisconnect
<1>4. StackInv'
  BY <1>1 DEF IInv, Pending, Later, StackInv, HeadOnly, Loop
<1>5. UsedInv'
  BY <1>1, NotSessions DEF IInv, Pending, Later, UsedInv, Used, flow, lists, ProcessDisconnect
<1>6. ListInv'
  BY <1>2 DEF IInv, Resting, ListInv, lists, ProcessDisconnect
<1>7. EventInv'
  BY <1>2 DEF IInv, Resting, EventInv, flow, ProcessDisconnect
<1>8. SlotInv'
  BY <1>2, NotSessions DEF IInv, Resting, SlotInv, Used, flow, slots, ProcessDisconnect
<1>9. HeldCalls'
  BY <1>1 DEF IInv, Pending, HeldInv, HeldCalls, ProcessDisconnect
<1>10. TransientErrors = FALSE => HeldListens'
  BY <1>2 DEF IInv, Resting, HeldInv, HeldListens, EventInv, ProcessDisconnect
<1>11. TransientErrors = FALSE => HeldLines'
  BY <1>1, <1>2, <1>10 DEF IInv, Pending, Later, HeldInv, HeldLines, ProcessDisconnect
<1>12. TransientErrors = FALSE => HeldLater'
  BY <1>1 DEF IInv, Pending, Later, HeldInv, HeldLater, Held, Methods, ProcessDisconnect
<1>13. TransientErrors = FALSE => HeldHead'
  BY <1>1 DEF IInv, Pending, Later, HeldInv, HeldHead, Held, Methods, lists, ProcessDisconnect
<1> QED BY <1>3, <1>4, <1>5, <1>6, <1>7, <1>8, <1>9, <1>10, <1>11, <1>12, <1>13
           DEF IInv, HeldInv

(* A line breaks: nothing the server knows of changes.                     *)
LEMMA LineBreaksStep ==
  ASSUME IInv, NEW s \in Sessions, LineBreaks(s)
  PROVE  IInv'
<1>1. UNCHANGED <<todo, running>> BY DEF LineBreaks
<1>2. /\ Pending' = Pending /\ Later' = Later
      /\ \A n, x : (Waits(n, x)' <=> Waits(n, x)) /\ (Has(n, x)' <=> Has(n, x))
  BY <1>1 DEF Pending, Later, Waits, Has
<1>3. Types'
  BY <1>1, <1>2 DEF IInv, Pending, Later, Types, Fields, EventInv, io, slots, lists, LineBreaks
<1>4. StackInv'
  BY <1>1 DEF IInv, Pending, Later, StackInv, HeadOnly, Loop
<1>5. UsedInv'
  BY <1>1, NotSessions DEF IInv, Pending, Later, UsedInv, Used, io, lists, LineBreaks
<1>6. ListInv'
  BY <1>2 DEF IInv, ListInv, io, lists, LineBreaks
<1>7. EventInv'
  BY <1>2 DEF IInv, EventInv, io, LineBreaks
<1>8. SlotInv'
  BY <1>2, NotSessions DEF IInv, SlotInv, Used, slots, LineBreaks
<1>9. HeldCalls'
  BY <1>1 DEF IInv, Pending, HeldInv, HeldCalls, LineBreaks
<1>10. TransientErrors = FALSE => HeldListens'
  BY <1>2 DEF IInv, HeldInv, HeldListens, EventInv, io, LineBreaks
<1>11. TransientErrors = FALSE => HeldLines'
  BY <1>1, <1>2, <1>10 DEF IInv, Pending, Later, HeldInv, HeldLines, io, LineBreaks
<1>12. TransientErrors = FALSE => HeldLater'
  BY <1>1 DEF IInv, Pending, Later, HeldInv, HeldLater, Held, Methods, io, LineBreaks
<1>13. TransientErrors = FALSE => HeldHead'
  BY <1>1 DEF IInv, Pending, Later, HeldInv, HeldHead, Held, Methods, io, lists, LineBreaks
<1> QED BY <1>3, <1>4, <1>5, <1>6, <1>7, <1>8, <1>9, <1>10, <1>11, <1>12, <1>13
           DEF IInv, HeldInv

(* Send registers a send unless one is: the flag is what keeps it from     *)
(* posting twice.                                                          *)
LEMMA SendStep ==
  ASSUME IInv, NEW s \in Sessions, Send(s)
  PROVE  IInv'
<1> DEFINE c == Call("RegisterSend", s)
<1>1. Calls("Send", s) /\ Then(IF sendRegistered[s] THEN <<>> ELSE <<c>>) BY DEF Send
<1>2. Runs("Send", s) BY <1>1, NextCall DEF IInv
<1>3. c \in CallType BY CallFacts DEF CallNames
<1>4. ~sendRegistered[s] => \A e \in Later : ~Clash(c, e)
  BY <1>2 DEF IInv, EventInv, Has, Runs, Clash, Group, Call
<1>5. (sendRegistered[s] /\ Leaves) \/ (~sendRegistered[s] /\ Puts(c, {}, running))
  <2> HIDE DEF c
  <2> QED BY <1>1, <1>3, <1>4, MakingOne, Returning DEF Return
<1>6. \/ sendRegistered[s] /\ Turns("Send", s, {})
      \/ ~sendRegistered[s] /\ Turns("Send", s, {"RegisterSend"})
  <2>1. Leaves => Turns("Send", s, {}) BY <1>2, LeavesTurns
  <2>2. Puts(c, {}, running) => Turns("Send", s, {"RegisterSend"}) BY <1>2, OneTurns
  <2> QED BY <1>5, <2>1, <2>2
<1>7. Types'
  BY <1>2, <1>5, <1>6
     DEF IInv, Leaves, Puts, Runs, Turns, Types, Fields, EventInv, io, slots, lists, Send
<1>8. StackInv'
  BY <1>2, <1>5 DEF IInv, Leaves, Puts, Runs, StackInv, Call
<1>9. UsedInv'
  BY <1>2, <1>5, NotSessions DEF IInv, Leaves, Puts, Runs, UsedInv, Used, Call, io, lists, Send
<1>10. ListInv'
  BY <1>6 DEF IInv, Turns, HeadOnly, Kept, ListInv, lists, Send
<1>11. EventInv'
  BY <1>6 DEF IInv, Turns, RecvGroup, Types, Fields, EventInv, io, Send
<1>12. SlotInv'
  BY <1>6, NotSessions DEF IInv, Turns, Kept, SlotInv, Used, slots, Send
<1>13. HeldCalls'
  BY <1>2, <1>5 DEF IInv, Leaves, Puts, Runs, HeldInv, HeldCalls, Call
<1>14. TransientErrors = FALSE => HeldListens'
  BY <1>6 DEF IInv, Turns, HeadOnly, Kept, HeldInv, HeldListens, EventInv, io, Send
<1>15. TransientErrors = FALSE => HeldLines'
  BY <1>2, <1>5, <1>6, StillRunning, <1>14 DEF IInv, Puts, HeldInv, io, Send
<1>16. TransientErrors = FALSE => HeldLater'
  BY <1>2, <1>5 DEF IInv, Leaves, Puts, Runs, HeldInv, HeldLater, Held, Methods, io, Send
<1>17. TransientErrors = FALSE => HeldHead'
  BY <1>2, <1>5 DEF IInv, Leaves, Puts, Runs, HeldInv, HeldLater, HeldHead, Held, Methods, Call,
                    io, lists, Send
<1> QED BY <1>7, <1>8, <1>9, <1>10, <1>11, <1>12, <1>13, <1>14, <1>15, <1>16, <1>17
           DEF IInv, HeldInv

(* RegisterSend posts the send, or is refused and left to undo it, after a *)
(* Disconnect when the line is down.                                       *)
LEMMA RegisterSendStep ==
  ASSUME IInv, NEW s \in Sessions, RegisterSend(s)
  PROVE  IInv'
<1> DEFINE c == Call("Disconnect", s)
           d == Call("SendRefused", s)
           Same == UNCHANGED <<link, sendRegistered>>
                   /\ UNCHANGED <<connected, slots, lists, undefined>>
           Owned == /\ connected[s]
                    /\ owner' = [owner EXCEPT ![s] = @ \cup {"send"}]
                    /\ queued' = [queued EXCEPT ![s] = FALSE]
<1>1. Calls("RegisterSend", s) BY DEF RegisterSend
<1>2. Runs("RegisterSend", s) BY <1>1, NextCall DEF IInv
<1>3. c \in CallType /\ d \in CallType BY CallFacts DEF CallNames
<1>4. ~Clash(c, d) /\ \A e \in Later : ~Clash(c, e) /\ ~Clash(d, e)
  BY <1>2 DEF Runs, Clash, Group, Call
<1>5. /\ Return => Leaves /\ Turns("RegisterSend", s, {})
      /\ Then(<<c, d>>) =>
           Puts(c, {d}, running) /\ Turns("RegisterSend", s, {"Disconnect", "SendRefused"})
      /\ Then(<<d>>) => Puts(d, {}, running) /\ Turns("RegisterSend", s, {"SendRefused"})
  <2>1. /\ Return => Leaves
        /\ Then(<<c, d>>) => Puts(c, {d}, running)
        /\ Then(<<d>>) => Puts(d, {}, running)
    <3> HIDE DEF c, d
    <3> QED BY <1>1, <1>3, <1>4, MakingOne, MakingTwo, Returning
  <2>2. Leaves => Turns("RegisterSend", s, {}) BY <1>2, LeavesTurns
  <2>3. Puts(c, {d}, running) => Turns("RegisterSend", s, {"Disconnect", "SendRefused"})
    BY <1>2, TwoTurn
  <2>4. Puts(d, {}, running) => Turns("RegisterSend", s, {"SendRefused"})
    BY <1>2, OneTurns
  <2> QED BY <2>1, <2>2, <2>3, <2>4
<1>6. /\ Same
      /\ \/ ~connected[s] /\ UNCHANGED <<queued, io>> /\ Leaves /\ Turns("RegisterSend", s, {})
         \/ /\ Owned /\ kernel' = [kernel EXCEPT ![s] = @ \cup {"send"}]
            /\ Leaves /\ Turns("RegisterSend", s, {})
         \/ /\ Owned /\ UNCHANGED kernel
            /\ Puts(c, {d}, running) /\ Turns("RegisterSend", s, {"Disconnect", "SendRefused"})
         \/ /\ Owned /\ UNCHANGED kernel /\ TransientErrors
            /\ Puts(d, {}, running) /\ Turns("RegisterSend", s, {"SendRefused"})
  <2> HIDE DEF c, d
  <2> QED BY <1>5 DEF RegisterSend, Posts, Refuses, c, d
<1>7. Types'
  <2>1. /\ owner' \in [Sessions -> SUBSET Operations] /\ kernel' \in [Sessions -> SUBSET Operations]
        /\ \A x \in Sessions : kernel'[x] \subseteq owner'[x]
    <3>1. /\ owner \in [Sessions -> SUBSET Operations] /\ kernel \in [Sessions -> SUBSET Operations]
          /\ \A x \in Sessions : kernel[x] \subseteq owner[x]
      BY DEF IInv, Types, Fields
    <3>2. \/ UNCHANGED io
          \/ /\ owner' = [owner EXCEPT ![s] = @ \cup {"send"}]
             /\ kernel' = [kernel EXCEPT ![s] = @ \cup {"send"}] \/ UNCHANGED kernel
      BY <1>6
    <3> QED BY <3>1, <3>2 DEF Operations, io
  <2>2. todo' \in Seq(CallType) /\ running' \in {running, None} BY <1>6 DEF Leaves, Puts
  <2>3. queued' \in [Sessions -> BOOLEAN] BY <1>6 DEF IInv, Types, Fields
  <2> QED BY <1>6, <2>1, <2>2, <2>3 DEF IInv, Types, Fields, slots, lists
<1>8. StackInv'
  BY <1>2, <1>6 DEF IInv, Leaves, Puts, Runs, StackInv, HeadOnly, Call
<1>9. UsedInv'
  <2>1. UsedInv /\ Types BY DEF IInv
  <2> QED BY <2>1, <1>2, <1>6, NotSessions
          DEF Leaves, Puts, Runs, Types, Fields, UsedInv, Used, Call, io, lists
<1>10. ListInv'
  BY <1>6 DEF IInv, Turns, HeadOnly, Kept, ListInv, lists
<1>11. EventInv'
  BY <1>6 DEF IInv, Turns, SendGroup, RecvGroup, Types, Fields, EventInv, io
<1>12. SlotInv'
  BY <1>6, NotSessions DEF IInv, Turns, Kept, SlotInv, Used, slots
<1>13. HeldCalls'
  BY <1>2, <1>6 DEF IInv, Leaves, Puts, Runs, HeldInv, HeldCalls, Call
<1>14. TransientErrors = FALSE => HeldListens'
  BY <1>6 DEF IInv, Turns, HeadOnly, Kept, Types, Fields, HeldInv, HeldListens, EventInv, io
<1>15. TransientErrors = FALSE => HeldLines'
  BY <1>2, <1>6, <1>6, StillRunning, <1>14 DEF IInv, Puts, HeldInv, Types, Fields, io
<1>16. TransientErrors = FALSE => HeldLater'
  <2>1. \A x \in Sessions : owner[x] \subseteq owner'[x]
    BY <1>6 DEF IInv, Types, Fields, io
  <2>2. \A x : Held(x) => running = x \/ Held(x)' BY <1>6, <2>1 DEF Held
  <2>3. connected[s] /\ HeldLines => Held(s) BY DEF HeldLines, Held, IInv, Types, Fields
  <2>4. CASE Leaves
    BY <2>2, <2>4 DEF IInv, HeldInv, HeldLater, Held, Leaves
  <2>5. CASE Puts(c, {d}, running) /\ connected[s]
    BY <2>2, <2>3, <2>5, CallFacts DEF IInv, HeldInv, HeldLater, Held, Puts
  <2> QED BY <1>6, <2>4, <2>5
<1>17. TransientErrors = FALSE => HeldHead'
  BY <1>2, <1>6 DEF IInv, Leaves, Puts, Runs, Types, Fields, HeldInv, HeldLines, HeldLater,
                    HeldHead, Held, Methods, Call, io
<1> QED BY <1>7, <1>8, <1>9, <1>10, <1>11, <1>12, <1>13, <1>14, <1>15, <1>16, <1>17
           DEF IInv, HeldInv

(* RegisterRecv posts the receive, or is refused: then Disconnect is next, *)
(* so the session either listens or ends.                                  *)
LEMMA RegisterRecvStep ==
  ASSUME IInv, NEW s \in Sessions, RegisterRecv(s)
  PROVE  IInv'
<1> DEFINE c == Call("Disconnect", s)
           d == Call("RecvRefused", s)
           Same == UNCHANGED <<link, queued, sendRegistered>>
                   /\ UNCHANGED <<connected, slots, lists, undefined>>
           Owned == /\ connected[s]
                    /\ owner' = [owner EXCEPT ![s] = @ \cup {"recv"}]
<1>1. Calls("RegisterRecv", s) BY DEF RegisterRecv
<1>2. Runs("RegisterRecv", s) BY <1>1, NextCall DEF IInv
<1>3. c \in CallType /\ d \in CallType BY CallFacts DEF CallNames
<1>4. ~Clash(c, d) /\ \A e \in Later : ~Clash(c, e) /\ ~Clash(d, e)
  BY <1>2 DEF Runs, Clash, Group, Call
<1>5. /\ Return => Leaves /\ Turns("RegisterRecv", s, {})
      /\ Then(<<c, d>>) =>
           Puts(c, {d}, running) /\ Turns("RegisterRecv", s, {"Disconnect", "RecvRefused"})
      /\ Then(<<d>>) => Puts(d, {}, running) /\ Turns("RegisterRecv", s, {"RecvRefused"})
  <2>1. /\ Return => Leaves
        /\ Then(<<c, d>>) => Puts(c, {d}, running)
        /\ Then(<<d>>) => Puts(d, {}, running)
    <3> HIDE DEF c, d
    <3> QED BY <1>1, <1>3, <1>4, MakingOne, MakingTwo, Returning
  <2>2. Leaves => Turns("RegisterRecv", s, {}) BY <1>2, LeavesTurns
  <2>3. Puts(c, {d}, running) => Turns("RegisterRecv", s, {"Disconnect", "RecvRefused"})
    BY <1>2, TwoTurn
  <2>4. Puts(d, {}, running) => Turns("RegisterRecv", s, {"RecvRefused"})
    BY <1>2, OneTurns
  <2> QED BY <2>1, <2>2, <2>3, <2>4
<1>6. /\ Same
      /\ \/ ~connected[s] /\ UNCHANGED io /\ Leaves /\ Turns("RegisterRecv", s, {})
         \/ /\ Owned /\ kernel' = [kernel EXCEPT ![s] = @ \cup {"recv"}]
            /\ Leaves /\ Turns("RegisterRecv", s, {})
         \/ /\ Owned /\ UNCHANGED kernel
            /\ Puts(c, {d}, running) /\ Turns("RegisterRecv", s, {"Disconnect", "RecvRefused"})
         \/ /\ Owned /\ UNCHANGED kernel /\ TransientErrors
            /\ Puts(d, {}, running) /\ Turns("RegisterRecv", s, {"RecvRefused"})
  <2> HIDE DEF c, d
  <2> QED BY <1>5 DEF RegisterRecv, Posts, Refuses, flow, c, d
<1>7. Types'
  <2>1. /\ owner' \in [Sessions -> SUBSET Operations] /\ kernel' \in [Sessions -> SUBSET Operations]
        /\ \A x \in Sessions : kernel'[x] \subseteq owner'[x]
    <3>1. /\ owner \in [Sessions -> SUBSET Operations] /\ kernel \in [Sessions -> SUBSET Operations]
          /\ \A x \in Sessions : kernel[x] \subseteq owner[x]
      BY DEF IInv, Types, Fields
    <3>2. \/ UNCHANGED io
          \/ /\ owner' = [owner EXCEPT ![s] = @ \cup {"recv"}]
             /\ kernel' = [kernel EXCEPT ![s] = @ \cup {"recv"}] \/ UNCHANGED kernel
      BY <1>6
    <3> QED BY <3>1, <3>2 DEF Operations, io
  <2>2. todo' \in Seq(CallType) /\ running' \in {running, None} BY <1>6 DEF Leaves, Puts
  <2>3. queued' \in [Sessions -> BOOLEAN] BY <1>6 DEF IInv, Types, Fields
  <2> QED BY <1>6, <2>1, <2>2, <2>3 DEF IInv, Types, Fields, slots, lists
<1>8. StackInv'
  BY <1>2, <1>6 DEF IInv, Leaves, Puts, Runs, StackInv, HeadOnly, Call
<1>9. UsedInv'
  <2>1. UsedInv /\ Types BY DEF IInv
  <2> QED BY <2>1, <1>2, <1>6, NotSessions
          DEF Leaves, Puts, Runs, Types, Fields, UsedInv, Used, Call, io, lists
<1>10. ListInv'
  BY <1>6 DEF IInv, Turns, HeadOnly, Kept, ListInv, lists
<1>11. EventInv'
  BY <1>6 DEF IInv, Turns, SendGroup, RecvGroup, Types, Fields, EventInv, io
<1>12. SlotInv'
  BY <1>6, NotSessions DEF IInv, Turns, Kept, SlotInv, Used, slots
<1>13. HeldCalls'
  BY <1>2, <1>6 DEF IInv, Leaves, Puts, Runs, HeldInv, HeldCalls, Call
<1>14. TransientErrors = FALSE => HeldListens'
  <2>1. \A x \in Sessions : "recv" \in kernel[x] => "recv" \in kernel'[x]
    BY <1>6 DEF IInv, Types, Fields, io
  <2>2. \A x \in Sessions :
          x # s /\ connected[x] => \/ "recv" \in kernel[x] \/ Waits("RegisterRecv", x)'
                                 \/ TransientErrors # FALSE
    BY <1>6 DEF IInv, HeldInv, HeldListens, Turns, HeadOnly, Kept
  <2>3. connected[s] => "recv" \in kernel'[s] \/ Waits("Disconnect", s)' \/ TransientErrors # FALSE
    <3>1. connected[s] => \/ kernel' = [kernel EXCEPT ![s] = @ \cup {"recv"}]
                          \/ Turns("RegisterRecv", s, {"Disconnect", "RecvRefused"})
                          \/ TransientErrors # FALSE
      BY <1>6
    <3>2. kernel' = [kernel EXCEPT ![s] = @ \cup {"recv"}] => "recv" \in kernel'[s]
      BY DEF IInv, Types, Fields
    <3>3. Turns("RegisterRecv", s, {"Disconnect", "RecvRefused"}) => Waits("Disconnect", s)'
      BY DEF Turns, HeadOnly
    <3> QED BY <3>1, <3>2, <3>3
  <2> QED BY <1>6, <2>1, <2>2, <2>3 DEF HeldListens
<1>15. TransientErrors = FALSE => HeldLines'
  BY <1>2, <1>6, <1>6, StillRunning, <1>14 DEF IInv, Puts, HeldInv, Types, Fields, io
<1>16. TransientErrors = FALSE => HeldLater'
  BY <1>2, <1>6 DEF IInv, Leaves, Puts, Runs, Types, Fields, HeldInv, HeldCalls, HeldLater,
                    Held, Methods, Call, io
<1>17. TransientErrors = FALSE => HeldHead'
  BY <1>2, <1>6 DEF IInv, Leaves, Puts, Runs, Types, Fields, HeldInv, HeldLater, HeldHead, Held,
                    Methods, Call, io
<1> QED BY <1>7, <1>8, <1>9, <1>10, <1>11, <1>12, <1>13, <1>14, <1>15, <1>16, <1>17
           DEF IInv, HeldInv

(* Disconnect exchanges the flag: only the first call of it leaves the     *)
(* lists, so each list is left once.                                       *)
LEMMA DisconnectStep ==
  ASSUME IInv, NEW s \in Sessions, Disconnect(s)
  PROVE  IInv'
<1> DEFINE c == Call("OnDisconnected", s)
           d == Call("ReleaseSession", s)
           e == Call("RegisterDisconnect", s)
<1>1. Calls("Disconnect", s) /\ Then(IF connected[s] THEN <<c, d, e>> ELSE <<>>)
  BY DEF Disconnect
<1>2. Runs("Disconnect", s) BY <1>1, NextCall DEF IInv
<1>3. c \in CallType /\ d \in CallType /\ e \in CallType BY CallFacts DEF CallNames
<1>4. ~Clash(c, d) /\ ~Clash(c, e) /\ ~Clash(d, e) BY DEF Clash, Group, Call
<1>5. connected[s] => \A x \in {c, d, e}, y \in Later : ~Clash(x, y)
  <2>1. \A y : ~Clash(c, y) /\ ~Clash(e, y) BY DEF Clash, Group, Call
  <2>2. ASSUME connected[s], NEW y \in Later PROVE ~Clash(d, y)
    <3>1. y \in Pending /\ y \in CallType BY <1>2, StackType DEF IInv
    <3>2. y # d BY <2>2, <3>1 DEF IInv, ListInv, Waits
    <3>3. y.call # "Loop" => y.left = {} BY <3>1 DEF IInv, StackInv
    <3> QED BY <3>1, <3>2, <3>3 DEF CallType, CallNames, Clash, Group, Call
  <2> QED BY <2>1, <2>2
<1>6. (connected[s] /\ Puts(c, {d, e}, running)) \/ (~connected[s] /\ Leaves)
  <2> HIDE DEF c, d, e
  <2> QED BY <1>1, <1>3, <1>4, <1>5, MakingThree, Returning DEF Return
<1>7. \/ /\ connected[s]
         /\ Turns("Disconnect", s, {"OnDisconnected", "ReleaseSession", "RegisterDisconnect"})
      \/ ~connected[s] /\ Turns("Disconnect", s, {})
  <2>1. Leaves => Turns("Disconnect", s, {}) BY <1>2, LeavesTurns
  <2>2. Puts(c, {d, e}, running) =>
          Turns("Disconnect", s, {"OnDisconnected", "ReleaseSession", "RegisterDisconnect"})
    BY <1>2, ThreeTurn
  <2> QED BY <1>6, <2>1, <2>2
<1>8. Types'
  BY <1>2, <1>6, <1>7 DEF IInv, Leaves, Puts, Runs, Turns, Types, Fields, EventInv, flow, io,
                          slots, lists, Disconnect
<1>9. StackInv'
  BY <1>2, <1>6 DEF IInv, Leaves, Puts, Runs, StackInv, HeadOnly, Call
<1>10. UsedInv'
  BY <1>2, <1>6, NotSessions
     DEF IInv, Leaves, Puts, Runs, UsedInv, Used, Call, flow, io, lists, Disconnect
<1>11. ListInv'
  BY <1>7 DEF IInv, Turns, HeadOnly, Kept, Types, Fields, ListInv, lists, Disconnect
<1>12. EventInv'
  BY <1>7 DEF IInv, Turns, SendGroup, RecvGroup, EventInv, flow, io, Disconnect
<1>13. SlotInv'
  BY <1>7, NotSessions DEF IInv, Turns, Kept, SlotInv, Used, flow, slots, Disconnect
<1>14. HeldCalls'
  BY <1>2, <1>6 DEF IInv, Leaves, Puts, Runs, HeldInv, HeldCalls, Call
<1>15. TransientErrors = FALSE => HeldListens'
  BY <1>7 DEF IInv, Turns, HeadOnly, Kept, Types, Fields, HeldInv, HeldListens, EventInv, io,
              Disconnect
<1>16. TransientErrors = FALSE => HeldLines'
  BY <1>2, <1>6, <1>7, StillRunning, <1>15 DEF IInv, Puts, HeldInv, io, Disconnect
<1>17. TransientErrors = FALSE => HeldLater'
  BY <1>2, <1>6 DEF IInv, Leaves, Puts, Runs, HeldInv, HeldLater, HeldHead, Held, Methods, Call,
                    io, Disconnect
<1>18. TransientErrors = FALSE => HeldHead'
  BY <1>2, <1>6 DEF IInv, Leaves, Puts, Runs, HeldInv, HeldLater, HeldHead, Held, Methods, Call,
                    io, Disconnect
<1> QED BY <1>8, <1>9, <1>10, <1>11, <1>12, <1>13, <1>14, <1>15, <1>16, <1>17, <1>18
           DEF IInv, HeldInv

(* An accept completes: the slot's session is connected first and the slot *)
(* is filled again after it.                                               *)
LEMMA ProcessAcceptStep ==
  ASSUME IInv, NEW a \in Slots, ProcessAccept(a)
  PROVE  IInv'
<1> DEFINE s == accepting[a]
           c == Call("ProcessConnect", s)
           d == Call("RegisterAccept", a)
<1>1. Resting /\ s \in Sessions BY DEF ProcessAccept, IInv, Types, Fields
<1>2. c \in CallType /\ d \in CallType BY <1>1, CallFacts DEF CallNames
<1>3. ~Clash(c, d) BY DEF Clash, Group, Call
<1>4. /\ Pending = {} /\ Later = {}
      /\ Begin(s, <<c, d>>) => Puts(c, {d}, s)
      /\ Begin(s, <<d>>) => Puts(d, {}, s)
      /\ Begin(s, <<c, d>>) \/ Begin(s, <<d>>)
  <2>1. Begin(s, <<c, d>>) \/ Begin(s, <<d>>) BY DEF ProcessAccept
  <2> HIDE DEF c, d, s
  <2> QED BY <1>1, <1>2, <1>3, <2>1, StartingOne, StartingTwo
<1>5. /\ \A n, x : ~Waits(n, x) /\ ~Has(n, x)
      /\ \A x : ~Has("send", x)' /\ ~Has("recv", x)'
      /\ \A n \in HeadOnly \cup Kept : \A x :
           Waits(n, x)' <=> \/ Begin(s, <<c, d>>) /\ n = "ProcessConnect" /\ x = s
                            \/ n = "RegisterAccept" /\ x = a
  <2>1. \A n, x : ~Waits(n, x) /\ ~Has(n, x) BY <1>4 DEF Waits, Has
  <2>2. /\ Begin(s, <<c, d>>) => Pending' = {c, d}
        /\ ~Begin(s, <<c, d>>) => Pending' = {d}
    BY <1>4 DEF Puts, ProcessAccept
  <2>3. Pending' \subseteq {c, d} BY <2>2
  <2>4. \A x : ~Has("send", x)' /\ ~Has("recv", x)' BY <2>3 DEF Has, Group, Call
  <2>5. \A n \in HeadOnly \cup Kept : \A x :
          Waits(n, x)' <=> \/ Begin(s, <<c, d>>) /\ n = "ProcessConnect" /\ x = s
                           \/ n = "RegisterAccept" /\ x = a
    BY <2>2, CallFacts DEF Waits
  <2> QED BY <2>1, <2>4, <2>5
<1>6. Types'
  <2>1. todo' \in Seq(CallType) /\ running' = s BY <1>4 DEF Puts
  <2>2. link' \in [Sessions -> {"none", "up", "down"}]
    BY <1>1 DEF ProcessAccept, IInv, Types, Fields
  <2>3. posted' \subseteq Slots BY DEF ProcessAccept, IInv, Types, Fields
  <2>4. UNCHANGED <<connected, sendRegistered, queued, io, accepting, lists, undefined>>
    BY DEF ProcessAccept
  <2> QED BY <1>1, <2>1, <2>2, <2>3, <2>4 DEF IInv, Types, Fields, io, lists
<1>7. StackInv'
  BY <1>1, <1>4 DEF IInv, Puts, StackInv, HeadOnly, Call, Loop
<1>8. UsedInv'
  BY <1>1, <1>4, NotSessions
     DEF IInv, Puts, Types, Fields, UsedInv, Used, Call, io, lists, ProcessAccept
<1>9. ListInv'
  <2>1. ~connected[s] /\ owner[s] = {}
    BY <1>1 DEF ProcessAccept, IInv, SlotInv, UsedInv
  <2>2. Later' \subseteq {d} BY <1>4 DEF Puts
  <2>3. d.call = "RegisterAccept" BY CallFacts
  <2> HIDE DEF c, d, s
  <2> QED BY <1>5, <2>1, <2>2, <2>3 DEF HeadOnly, Kept, IInv, ListInv, io, lists, ProcessAccept
<1>10. EventInv'
  BY <1>5 DEF IInv, EventInv, io, ProcessAccept
<1>11. SlotInv'
  BY <1>5, NotSessions DEF IInv, HeadOnly, Kept, Types, Fields, SlotInv, Used, ProcessAccept
<1>12. HeldCalls'
  BY <1>1, <1>4 DEF IInv, Puts, HeldInv, HeldCalls, Call, ProcessAccept
<1>13. TransientErrors = FALSE => HeldListens'
  BY <1>5 DEF IInv, HeldInv, HeldListens, EventInv, io, ProcessAccept
<1>14. TransientErrors = FALSE => HeldLines'
  BY <1>1, <1>4, NowRunning DEF IInv, Puts, HeldInv, io, ProcessAccept
<1>15. TransientErrors = FALSE => HeldLater'
  BY <1>1, <1>4 DEF IInv, Puts, HeldInv, HeldLater, Held, Methods, Call
<1>16. TransientErrors = FALSE => HeldHead'
  BY <1>1, <1>4 DEF IInv, Puts, HeldInv, HeldHead, Held, Methods, Call
<1> QED BY <1>6, <1>7, <1>8, <1>9, <1>10, <1>11, <1>12, <1>13, <1>14, <1>15, <1>16
           DEF IInv, HeldInv

(* A send completes.                                                       *)
LEMMA ProcessSendStep ==
  ASSUME IInv, NEW s \in Sessions, ProcessSend(s)
  PROVE  IInv'
<1> DEFINE c == Call("Disconnect", s)
           d == Call("RegisterSend", s)
<1>1. Resting BY DEF ProcessSend
<1>2. c \in CallType /\ d \in CallType BY CallFacts DEF CallNames
<1>3. /\ Pending = {} /\ Later = {}
      /\ Begin(s, <<c>>) => Puts(c, {}, s)
      /\ Begin(s, <<d>>) => Puts(d, {}, s)
      /\ Begin(s, <<>>) => /\ todo' = <<>> /\ todo' \in Seq(CallType) /\ Unique(todo')
                          /\ Pending' = {} /\ Later' = {} /\ running' = None
      /\ Begin(s, <<c>>) \/ Begin(s, <<d>>) \/ Begin(s, <<>>)
  <2>1. Begin(s, <<c>>) \/ Begin(s, <<d>>) \/ Begin(s, <<>>) BY DEF ProcessSend
  <2> HIDE DEF c, d
  <2> QED BY <1>1, <1>2, <2>1, StartingOne, StartingNone
<1>4. /\ Begin(s, <<c>>) => Starts(s, {"Disconnect"})
      /\ Begin(s, <<d>>) => Starts(s, {"RegisterSend"})
      /\ Begin(s, <<>>) => Starts(s, {})
  <2>1. Pending' = {c} => Starts(s, {"Disconnect"})
    BY <1>3, CallFacts, StartsTo DEF Tracked, HeadOnly, Kept, SendGroup, RecvGroup
  <2>2. Pending' = {d} => Starts(s, {"RegisterSend"})
    BY <1>3, CallFacts, StartsTo DEF Tracked, HeadOnly, Kept, SendGroup, RecvGroup
  <2>3. Pending' = {} => Starts(s, {}) BY <1>3, StartsTo
  <2> QED BY <1>3, <2>1, <2>2, <2>3 DEF Puts
<1>5. Types'
  <2>1. todo' \in Seq(CallType) /\ running' \in Sessions \cup {None} BY <1>3 DEF Puts
  <2>2. /\ owner' \in [Sessions -> SUBSET Operations] /\ kernel' \in [Sessions -> SUBSET Operations]
        /\ \A x \in Sessions : kernel'[x] \subseteq owner'[x]
    BY DEF ProcessSend, IInv, Types, Fields
  <2>3. sendRegistered' \in [Sessions -> BOOLEAN] BY DEF ProcessSend, IInv, Types, Fields
  <2>4. UNCHANGED <<link, queued, connected, slots, lists, undefined>> BY DEF ProcessSend
  <2> QED BY <2>1, <2>2, <2>3, <2>4 DEF IInv, Types, Fields, slots, lists
<1>6. StackInv'
  BY <1>1, <1>3 DEF IInv, Puts, StackInv, HeadOnly, Call, Loop
<1>7. UsedInv'
  BY <1>1, <1>3, NotSessions
     DEF IInv, Puts, Types, Fields, UsedInv, Used, Call, lists, ProcessSend
<1>8. ListInv'
  BY <1>4 DEF IInv, Starts, HeadOnly, Kept, ListInv, lists, ProcessSend
<1>9. EventInv'
  BY <1>4 DEF IInv, Starts, RecvGroup, Types, Fields, EventInv, ProcessSend
<1>10. SlotInv'
  BY <1>4, NotSessions DEF IInv, Starts, Kept, SlotInv, Used, slots, ProcessSend
<1>11. HeldCalls'
  BY <1>1, <1>3 DEF IInv, Puts, HeldInv, HeldCalls, Call, ProcessSend
<1>12. TransientErrors = FALSE => HeldListens'
  BY <1>4 DEF IInv, Starts, HeadOnly, Kept, HeldInv, HeldListens, EventInv, ProcessSend
<1>13. TransientErrors = FALSE => HeldLines'
  BY <1>1, <1>3, NowRunning DEF IInv, Puts, HeldInv, ProcessSend
<1>14. TransientErrors = FALSE => HeldLater'
  BY <1>1, <1>3 DEF IInv, Puts, HeldInv, HeldLater
<1>15. TransientErrors = FALSE => HeldHead'
  BY <1>1, <1>3 DEF IInv, Puts, HeldInv, HeldHead, Held, Methods, Call
<1> QED BY <1>5, <1>6, <1>7, <1>8, <1>9, <1>10, <1>11, <1>12, <1>13, <1>14, <1>15
           DEF IInv, HeldInv

(* A receive completes with any number of packets, then posts the next     *)
(* one: the handler holds the session meanwhile.                           *)
LEMMA RecvPacketsStep ==
  ASSUME IInv, NEW s \in Sessions, RecvPackets(s)
  PROVE  IInv'
<1> DEFINE M == Call("Handle_C_Move", s)
           R == Call("RegisterRecv", s)
<1>1. Resting BY DEF RecvPackets
<1>2. PICK n \in 0 .. MaxPackets : Begin(s, [i \in 1 .. n |-> M] \o <<R>>) BY DEF RecvPackets
<1>3. PICK c \in {M, R}, rest \in SUBSET {M, R} :
        R \in {c} \cup rest /\ Pending = {} /\ Later = {} /\ Puts(c, rest, s)
  <2> DEFINE calls == [i \in 1 .. n |-> M] \o <<R>>
  <2>1. /\ calls \in Seq(CallType) /\ calls # <<>> /\ Unique(calls)
        /\ SetOf(calls) \subseteq {M, R} /\ R \in SetOf(calls)
        /\ SetOf(Tail(calls)) \subseteq {M, R} /\ Begin(s, calls)
    BY <1>2, MovesThenReceive
  <2> HIDE DEF calls, M, R
  <2>2. SetOf(calls) = {Head(calls)} \cup SetOf(Tail(calls)) BY <2>1, Shape
  <2>3. Pending = {} /\ Later = {} /\ Puts(Head(calls), SetOf(Tail(calls)), s)
    BY <1>1, <2>1, StartingSome
  <2> QED BY <2>1, <2>2, <2>3
<1>4. Starts(s, {"RegisterRecv"})
  <2>1. Pending' \subseteq {M, R} /\ R \in Pending' BY <1>3 DEF Puts
  <2>2. \A n1 \in Tracked : n1 \in {"RegisterRecv"} <=> Call(n1, s) \in Pending'
    BY <2>1, CallFacts DEF Tracked, HeadOnly, Kept, SendGroup, RecvGroup
  <2>3. \A x \in Pending' : x = Call(x.call, s) BY <2>1, CallFacts
  <2> QED BY <1>3, <2>2, <2>3, StartsTo
<1>5. Types'
  <2>1. todo' \in Seq(CallType) /\ running' = s BY <1>3 DEF Puts
  <2>2. /\ owner' \in [Sessions -> SUBSET Operations] /\ kernel' \in [Sessions -> SUBSET Operations]
        /\ \A x \in Sessions : kernel'[x] \subseteq owner'[x]
    BY DEF RecvPackets, IInv, Types, Fields
  <2>3. UNCHANGED <<flow, connected, slots, lists, undefined>> BY DEF RecvPackets
  <2> QED BY <2>1, <2>2, <2>3 DEF IInv, Types, Fields, flow, slots, lists
<1>6. StackInv'
  BY <1>1, <1>3 DEF IInv, Puts, StackInv, HeadOnly, Call, Loop
<1>7. UsedInv'
  <2>1. Used(s) BY DEF RecvPackets, IInv, Types, Fields, UsedInv, Used
  <2>2. \A x \in Pending' : x.s = s BY <1>3, CallFacts DEF Puts
  <2>3. \A x \in Sessions : x = s \/ owner'[x] = owner[x]
    BY DEF RecvPackets, IInv, Types, Fields
  <2>4. UNCHANGED <<flow, connected, slots, lists, undefined>> BY DEF RecvPackets
  <2>5. ASSUME NEW x \in Sessions, ~Used(x)'
        PROVE  /\ ~connected'[x] /\ owner'[x] = {} /\ x \notin sessions' \cup managed' \cup players'
               /\ \A y \in Pending' : y.s # x
    <3>1. ~Used(x) /\ x # s BY <2>1, <2>4, <2>5 DEF Used, flow
    <3> QED BY <3>1, <2>2, <2>3, <2>4 DEF IInv, UsedInv, lists
  <2> QED BY <2>5 DEF UsedInv
<1>8. ListInv'
  BY <1>4 DEF IInv, Starts, HeadOnly, Kept, ListInv, lists, RecvPackets
<1>9. EventInv'
  BY <1>4 DEF IInv, Starts, SendGroup, Types, Fields, EventInv, flow, RecvPackets
<1>10. SlotInv'
  BY <1>4, NotSessions DEF IInv, Starts, Kept, SlotInv, Used, flow, slots, RecvPackets
<1>11. HeldCalls'
  BY <1>1, <1>3 DEF IInv, Puts, HeldInv, HeldCalls, Call, RecvPackets
<1>12. TransientErrors = FALSE => HeldListens'
  BY <1>4 DEF IInv, Starts, HeadOnly, Kept, HeldInv, HeldListens, EventInv, RecvPackets
<1>13. TransientErrors = FALSE => HeldLines'
  BY <1>1, <1>3, NowRunning DEF IInv, Puts, HeldInv, RecvPackets
<1>14. TransientErrors = FALSE => HeldLater'
  BY <1>1, <1>3 DEF IInv, Puts, HeldInv, HeldLater, Held, Methods, Call
<1>15. TransientErrors = FALSE => HeldHead'
  BY <1>1, <1>3 DEF IInv, Puts, HeldInv, HeldHead, Held, Methods, Call
<1> QED BY <1>5, <1>6, <1>7, <1>8, <1>9, <1>10, <1>11, <1>12, <1>13, <1>14, <1>15
           DEF IInv, HeldInv

(* A receive completes with nothing: Disconnect is next.                   *)
LEMMA RecvZeroStep ==
  ASSUME IInv, NEW s \in Sessions, RecvZero(s)
  PROVE  IInv'
<1> DEFINE c == Call("Disconnect", s)
<1>1. Resting /\ Begin(s, <<c>>) BY DEF RecvZero
<1>2. c \in CallType BY CallFacts DEF CallNames
<1>3. Pending = {} /\ Later = {} /\ Puts(c, {}, s)
  <2> HIDE DEF c
  <2> QED BY <1>1, <1>2, StartingOne
<1>4. Starts(s, {"Disconnect"})
  BY <1>3, CallFacts, StartsTo DEF Puts, Tracked, HeadOnly, Kept, SendGroup, RecvGroup
<1>5. Types'
  BY <1>1, <1>3, <1>4
     DEF IInv, Puts, Starts, Types, Fields, EventInv, flow, slots, lists, RecvZero
<1>6. StackInv'
  BY <1>1, <1>3 DEF IInv, Puts, StackInv, HeadOnly, Call, Loop
<1>7. UsedInv'
  BY <1>1, <1>3, NotSessions DEF IInv, Puts, UsedInv, Used, Call, flow, lists, RecvZero
<1>8. ListInv'
  BY <1>4 DEF IInv, Starts, HeadOnly, Kept, ListInv, lists, RecvZero
<1>9. EventInv'
  BY <1>4 DEF IInv, Starts, SendGroup, RecvGroup, EventInv, flow, RecvZero
<1>10. SlotInv'
  BY <1>4, NotSessions DEF IInv, Starts, Kept, SlotInv, Used, flow, slots, RecvZero
<1>11. HeldCalls'
  BY <1>1, <1>3 DEF IInv, Puts, HeldInv, HeldCalls, Call, RecvZero
<1>12. TransientErrors = FALSE => HeldListens'
  BY <1>4 DEF IInv, Starts, HeadOnly, Kept, HeldInv, HeldListens, EventInv, RecvZero
<1>13. TransientErrors = FALSE => HeldLines'
  BY <1>1, <1>3, NowRunning DEF IInv, Puts, HeldInv, RecvZero
<1>14. TransientErrors = FALSE => HeldLater'
  BY <1>1, <1>3 DEF IInv, Puts, HeldInv, HeldLater
<1>15. TransientErrors = FALSE => HeldHead'
  BY <1>1, <1>3 DEF IInv, Puts, HeldInv, HeldHead, Held, Methods, Call
<1> QED BY <1>5, <1>6, <1>7, <1>8, <1>9, <1>10, <1>11, <1>12, <1>13, <1>14, <1>15
           DEF IInv, HeldInv

(* The room's update holds no session: what it sends to is in the room.    *)
LEMMA UpdateStep ==
  ASSUME IInv, Update
  PROVE  IInv'
<1>1. Resting /\ UNCHANGED <<flow, connected, io, slots, lists, undefined>> BY DEF Update
<1>2. \A p \in Sessions : /\ Call("RemoveObject", p) \in CallType
                        /\ ~Clash(Call("RemoveObject", p), Broadcast)
  BY CallFacts DEF CallNames, Clash, Group, Call
<1>3. PICK rest \in SUBSET {Broadcast}, c \in {Broadcast} \cup
                                           {Call("RemoveObject", p) : p \in players} :
        Pending = {} /\ Later = {} /\ Puts(c, rest, None)
  <2>1. CASE Begin(None, <<Broadcast>>)
    <3>1. Pending = {} /\ Later = {} /\ Puts(Broadcast, {}, None)
      <4> DEFINE c == Broadcast
      <4>1. c \in CallType /\ Begin(None, <<c>>) BY <2>1, BroadcastIsCall
      <4> HIDE DEF c
      <4>2. Pending = {} /\ Later = {} /\ Puts(c, {}, None) BY <1>1, <4>1, StartingOne
      <4> QED BY <4>2 DEF c
    <3> QED BY <3>1
  <2>2. CASE \E p \in players : Begin(None, <<Call("RemoveObject", p), Broadcast>>)
    <3>1. PICK p \in players : Begin(None, <<Call("RemoveObject", p), Broadcast>>) BY <2>2
    <3> DEFINE c == Call("RemoveObject", p)
               d == Broadcast
    <3>2. c \in CallType /\ d \in CallType /\ ~Clash(c, d) /\ Begin(None, <<c, d>>)
      BY <1>2, <3>1, BroadcastIsCall DEF IInv, Types, Fields
    <3>3. Pending = {} /\ Later = {} /\ Puts(c, {d}, None)
      <4> HIDE DEF c, d
      <4> QED BY <1>1, <3>2, StartingTwo
    <3> QED BY <3>3
  <2> QED BY <2>1, <2>2 DEF Update
<1>4. Starts(None, {})
  <2>1. Pending' = {c} \cup rest BY <1>3 DEF Puts
  <2>2. \A d \in Pending' : d.call \notin Tracked
    BY <2>1, CallFacts DEF Broadcast, Tracked, HeadOnly, Kept, SendGroup, RecvGroup
  <2>3. \A n \in Tracked : Call(n, None) \notin Pending' BY <2>2, CallFacts
  <2> QED BY <1>3, <2>2, <2>3, StartsTo
<1>5. Types'
  BY <1>1, <1>3, <1>1, <1>4
     DEF IInv, Puts, Starts, Types, Fields, EventInv, flow, io, slots, lists
<1>6. StackInv'
  BY <1>1, <1>3 DEF IInv, Puts, StackInv, HeadOnly, Call, Broadcast
<1>7. UsedInv'
  BY <1>1, <1>3, NotSessions DEF IInv, Puts, UsedInv, Used, Call, flow, io, lists, Broadcast
<1>8. ListInv'
  BY <1>1, <1>4 DEF IInv, Starts, HeadOnly, Kept, ListInv, lists
<1>9. EventInv'
  BY <1>1, <1>4 DEF IInv, Starts, EventInv, flow, io
<1>10. SlotInv'
  BY <1>1, <1>4, NotSessions DEF IInv, Starts, Kept, SlotInv, Used, flow, slots
<1>11. HeldCalls'
  BY <1>1, <1>3 DEF IInv, Puts, HeldInv, HeldCalls, Call, Broadcast
<1>12. TransientErrors = FALSE => HeldListens'
  BY <1>1, <1>4 DEF IInv, Starts, HeadOnly, Kept, HeldInv, HeldListens, EventInv, io
<1>13. TransientErrors = FALSE => HeldLines'
  BY <1>1, <1>3, NowRunning DEF IInv, Puts, HeldInv, io
<1>14. TransientErrors = FALSE => HeldLater'
  BY <1>1, <1>3 DEF IInv, Puts, HeldInv, HeldLater, Held, Methods, Call, Broadcast
<1>15. TransientErrors = FALSE => HeldHead'
  BY <1>1, <1>3 DEF IInv, Puts, HeldInv, HeldHead, Held, Methods, Call, Broadcast
<1> QED BY <1>5, <1>6, <1>7, <1>8, <1>9, <1>10, <1>11, <1>12, <1>13, <1>14, <1>15
           DEF IInv, HeldInv

-----------------------------------------------------------------------------
(* The invariant, always                                                   *)

(* The invariant holds after StartAccept.                                  *)
LEMMA InitInv == Init => IInv
<1> SUFFICES ASSUME Init PROVE IInv
  OBVIOUS
<1>1. /\ Cardinality(Slots) \in Nat
      /\ accepting \in [Slots -> Sessions]
      /\ \A a, b \in Slots : accepting[a] = accepting[b] => a = b
  <2>1. Cardinality(Slots) \in Nat BY SessionLifeAssumption, FS_CardinalityType
  <2>2. 1 .. Cardinality(Slots) \subseteq Sessions
    BY <2>1, SessionLifeAssumption DEF Sessions
  <2> QED BY <2>1, <2>2 DEF Init
<1>2. /\ todo = <<>> /\ Pending = {} /\ Later = {} /\ Unique(todo) /\ todo \in Seq(CallType)
      /\ \A n, x : ~Waits(n, x) /\ ~Has(n, x)
  BY NoCalls DEF Init, Pending, Later, Waits, Has
<1>3. Types BY <1>1, <1>2 DEF Init, Types, Fields
<1>4. StackInv BY <1>2 DEF Init, StackInv
<1>5. UsedInv BY <1>2 DEF Init, UsedInv
<1>6. ListInv BY <1>2 DEF Init, ListInv
<1>7. EventInv BY <1>2 DEF Init, EventInv
<1>8. SlotInv BY <1>1, <1>2 DEF Init, SlotInv, Used
<1>9. HeldCalls /\ HeldInv
  BY <1>2 DEF Init, HeldInv, HeldCalls, HeldLines, HeldListens, HeldLater, HeldHead
<1> QED BY <1>3, <1>4, <1>5, <1>6, <1>7, <1>8, <1>9 DEF IInv

(* Every step keeps it: one lemma for each action.                         *)
LEMMA StepInv == IInv /\ [Next]_vars => IInv'
<1> SUFFICES ASSUME IInv, [Next]_vars PROVE IInv'
  OBVIOUS
<1>1. CASE GoOn
  BY <1>1, RegisterAcceptStep, BroadcastBeginsStep, ProcessConnectStep, OnConnectedStep,
     EnterRoomStep, AddObjectStep, RemoveObjectStep, OnDisconnectedStep, Handle_C_MoveStep,
     BroadcastGoesOnStep, BroadcastIsLostStep, SendStep, RegisterSendStep, SendRefusedStep,
     SendReleasesStep, RegisterRecvStep, RecvRefusedStep, DisconnectStep, ReleaseSessionStep,
     RegisterDisconnectStep DEF GoOn
<1>2. CASE \E a \in Slots : ProcessAccept(a)
  BY <1>2, ProcessAcceptStep
<1>3. CASE \E s \in Sessions : Dispatch(s)
  BY <1>3, ProcessSendStep, RecvPacketsStep, RecvZeroStep, ProcessDisconnectStep DEF Dispatch
<1>4. CASE \E s \in Sessions : LineBreaks(s)
  BY <1>4, LineBreaksStep
<1>5. CASE Update
  BY <1>5, UpdateStep
<1>6. CASE UNCHANGED vars
  <2>1. UNCHANGED <<flow, connected, io, slots, lists, todo, running,
  undefined>> BY <1>6 DEF vars
  <2>2. /\ Pending' = Pending /\ Later' = Later
        /\ \A n, x : (Waits(n, x)' <=> Waits(n, x)) /\ (Has(n, x)' <=> Has(n, x))
    BY <2>1 DEF Pending, Later, Waits, Has
  <2>3. Types' BY <2>1 DEF IInv, Types, Fields, flow, io, slots, lists
  <2>4. StackInv' BY <2>1, <2>2 DEF IInv, StackInv
  <2>5. UsedInv' BY <2>1, <2>2 DEF IInv, UsedInv, Used, flow, io, lists
  <2>6. ListInv' BY <2>1, <2>2 DEF IInv, ListInv, flow, io, slots, lists
  <2>7. EventInv' BY <2>1, <2>2 DEF IInv, EventInv, flow, io
  <2>8. SlotInv' BY <2>1, <2>2 DEF IInv, SlotInv, Used, flow, slots
  <2>9. HeldCalls' /\ (TransientErrors = FALSE => HeldInv')
    BY <2>1, <2>2 DEF IInv, HeldInv, HeldCalls, HeldLines, HeldListens, HeldLater, HeldHead,
                      Held, io, lists
  <2> QED BY <2>3, <2>4, <2>5, <2>6, <2>7, <2>8, <2>9 DEF IInv
<1> QED BY <1>1, <1>2, <1>3, <1>4, <1>5, <1>6 DEF Next

(* It holds in every state.                                                *)
LEMMA Invariant == Spec => []IInv
  BY InitInv, StepInv, PTL DEF Spec

(* Between two handlers no call is left.                                   *)
LEMMA AtRest ==
  ASSUME IInv, Resting
  PROVE  Pending = {} /\ Later = {} /\ \A n, x : ~Waits(n, x)
<1>1. todo = <<>> BY DEF Resting
<1> QED BY <1>1, StackType DEF IInv, Later, Waits

-----------------------------------------------------------------------------
(* The theorems                                                            *)

(* Every variable keeps its type; in particular the kernel never has an    *)
(* operation of a session whose event does not hold it.                    *)
THEOREM TypeCorrect == Spec => []TypeOK
<1>1. IInv => TypeOK
  BY DEF IInv, Types, Fields, TypeOK, CallType
<1> QED BY <1>1, Invariant, PTL

(* Between two handlers the service's and the manager's lists hold exactly *)
(* the connected sessions (Session.cpp Connect and Disconnect, Service.cpp *)
(* AddSession and ReleaseSession), however deep a Disconnect was nested in *)
(* the calls of a handler.                                                 *)
THEOREM ListsAreExact == Spec => []ListedWhileConnected
<1>1. IInv => ListedWhileConnected
  <2> SUFFICES ASSUME IInv, Resting
               PROVE  sessions = {s \in Sessions : connected[s]} /\ managed = sessions
    BY DEF ListedWhileConnected
  <2>1. \A n, x : ~Waits(n, x) BY AtRest
  <2>2. \A s \in Sessions : (s \in sessions <=> connected[s]) /\ (s \in managed <=> connected[s])
    BY <2>1 DEF IInv, ListInv
  <2> QED BY <2>2 DEF IInv, Types, Fields
<1> QED BY <1>1, Invariant, PTL

(* The erase of ReleaseSession always finds its session (the assert of     *)
(* Service.cpp): no session is released twice, nor before it was added.    *)
THEOREM ReleasesAreOfListed == Spec => []ReleasesWhatItHas
<1>1. IInv => ReleasesWhatItHas
  <2> SUFFICES ASSUME IInv, NEW s \in Sessions, Calls("ReleaseSession", s) PROVE s \in sessions
    BY DEF ReleasesWhatItHas
  <2>1. Runs("ReleaseSession", s) BY NextCall DEF IInv
  <2>2. Waits("ReleaseSession", s) BY <2>1 DEF Runs, Waits
  <2> QED BY <2>2 DEF IInv, ListInv
<1> QED BY <1>1, Invariant, PTL

(* Between two handlers each accept event has an AcceptEx posted, for a    *)
(* session of its own that no other part of the server knows               *)
(* (Listener.cpp): the server never stops accepting.                       *)
THEOREM SlotsAreOpen == Spec => []EveryoneIsAccepted
<1>1. IInv => EveryoneIsAccepted
  <2> SUFFICES ASSUME IInv, Resting
               PROVE  /\ posted = Slots
                      /\ \A a \in Slots :
                           /\ \A b \in Slots : accepting[b] = accepting[a] => a = b
                           /\ ~connected[accepting[a]] /\ owner[accepting[a]] = {}
                           /\ accepting[a] \notin sessions \cup managed \cup players
    BY DEF EveryoneIsAccepted
  <2>1. \A n, x : ~Waits(n, x) BY AtRest
  <2>2. posted = Slots BY <2>1 DEF IInv, SlotInv, Types, Fields
  <2>3. \A a \in Slots : accepting[a] \in Sessions /\ ~Used(accepting[a])
    BY <2>2 DEF IInv, SlotInv, Types, Fields
  <2>4. \A a, b \in Slots : accepting[b] = accepting[a] => a = b
    BY DEF IInv, SlotInv
  <2> QED BY <2>2, <2>3, <2>4 DEF IInv, UsedInv
<1> QED BY <1>1, Invariant, PTL

(* Between two handlers a connected session has its receive posted. This   *)
(* takes calls that fail only because the line is down: HandleError logs   *)
(* any other error and the session stays connected without a receive.      *)
THEOREM ReceivesArePosted ==
  ASSUME TransientErrors = FALSE
  PROVE  Spec => []Listens
<1>1. IInv => Listens
  <2> SUFFICES ASSUME IInv, Resting, NEW s \in Sessions, connected[s] PROVE "recv" \in kernel[s]
    BY DEF Listens
  <2>1. \A n, x : ~Waits(n, x) BY AtRest
  <2> QED BY <2>1, TransientErrors = FALSE DEF IInv, HeldInv, HeldListens
<1> QED BY <1>1, Invariant, PTL

(* No method of a session nobody references is left to be called, and the  *)
(* kernel has none of its operations: neither a Disconnect nested in a     *)
(* Send nor a player's removal frees what the calls beneath still use.     *)
(* Without transient errors, since the argument is that a connected        *)
(* session's receive event holds it while nobody runs its handler.         *)
THEOREM NothingIsUsedAfterFree ==
  ASSUME TransientErrors = FALSE
  PROVE  Spec => []NoUseAfterFree
<1>1. IInv => NoUseAfterFree
  <2> SUFFICES ASSUME IInv, NEW s \in Sessions, ~Referenced(s)
               PROVE  kernel[s] = {} /\ \A i \in DOMAIN todo :
                                          todo[i].s = s => todo[i].call \notin Methods
    BY DEF NoUseAfterFree
  <2>1. owner[s] = {} /\ s \notin players /\ running # s
    BY DEF Referenced
  <2>2. kernel[s] = {} BY <2>1 DEF IInv, Types, Fields
  <2>3. ~Held(s) BY <2>1 DEF Held
  <2>4. \A c \in Pending : c.s = s => c.call \notin Methods
    <3>1. \A c \in Later : c.s = s => c.call \notin Methods
      BY <2>3, TransientErrors = FALSE DEF IInv, HeldInv, HeldLater
    <3>2. todo # <<>> /\ Head(todo).s = s => Head(todo).call \notin Methods
      BY <2>1, <2>3, TransientErrors = FALSE DEF IInv, HeldInv, HeldHead
    <3>3. Pending \subseteq {Head(todo)} \cup Later /\ (Pending # {} => todo # <<>>)
      BY StackType DEF IInv
    <3> QED BY <3>1, <3>2, <3>3
  <2>5. \A i \in DOMAIN todo : todo[i] \in Pending BY DEF Pending, SetOf
  <2> QED BY <2>2, <2>4, <2>5
<1> QED BY <1>1, Invariant, PTL
=============================================================================
