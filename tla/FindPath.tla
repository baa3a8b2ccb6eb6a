------------------------------- MODULE FindPath -------------------------------
(***************************************************************************)
(* The path search of the monsters: GameRoom::FindPath on the server and   *)
(* its twin DevScene::FindPath on the client.                              *)
(*                                                                         *)
(* A best-first search: the queue is ordered by the distance to the goal   *)
(* alone.  The monster's own cell and its target's are occupied, so CanGo  *)
(* holds of neither; a goal that cannot be entered is replaced in the end  *)
(* by the closest cell that was seen.                                      *)
(***************************************************************************)
EXTENDS Integers, FiniteSets

CONSTANTS
  Width, Height,   (* the size of the map                                   *)
  MaxDepth         (* maxDepth: 10                                          *)

ASSUME FindPathAssumption ==
  /\ Width \in Nat \ {0} /\ Height \in Nat \ {0}
  /\ MaxDepth \in Nat \ {0}

VARIABLES
  walkable,   (* the cells for which CanGo holds                            *)
  src,
  dest,       (* the goal; in the end, the cell the path leads to           *)
  goal,       (* the goal as it was asked for                               *)
  pq,         (* the cells in the priority queue                            *)
  best,       (* cell -> cost, of the cells seen                            *)
  parent,     (* cell -> cell it was seen from                              *)
  phase       (* "search", then "found", "fallback" or "refused"            *)

vars == <<walkable, src, dest, goal, pq, best, parent, phase>>

Cells == (0 .. Width - 1) \X (0 .. Height - 1)

Abs(n) == IF n < 0 THEN -n ELSE n

Dist(a, b) == Abs(a[1] - b[1]) + Abs(a[2] - b[2])

Front == {<<0, -1>>, <<0, 1>>, <<-1, 0>>, <<1, 0>>}

Neighbours(c) == {<<c[1] + d[1], c[2] + d[2]>> : d \in Front}

-----------------------------------------------------------------------------
(* The call: on any map, from one occupied cell to another (or itself).    *)
Start(map, from, to) ==
  /\ walkable = map
  /\ src = from
  /\ goal = to
  /\ dest = to
  /\ pq = {from}
  /\ best = [c \in {from} |-> Dist(to, from)]
  /\ parent = [c \in {from} |-> from]
  /\ phase = IF Dist(from, to) >= MaxDepth THEN "refused" ELSE "search"

Init == \E map \in SUBSET Cells : \E from, to \in Cells \ map : Start(map, from, to)

(* Which of several entries of the same cost the queue gives is left open. *)
(* No cell is queued twice, as the cost of a cell never changes: an entry  *)
(* is never stale.                                                         *)
Top == {c \in pq : \A x \in pq : best[c] <= best[x]}

(* Seeded fault: the range is taken around the goal.                       *)
InRange_OfTheGoal(c) == Dist(dest, c) < MaxDepth

InRange(c) == Dist(src, c) < MaxDepth

(* A cost of 0 counts as not seen.                                         *)

(* Seeded fault: nothing is remembered.                                    *)
Seen_Never(c) == c \in DOMAIN best /\ best[c] < 0

Seen(c) == c \in DOMAIN best /\ best[c] # 0 /\ best[c] <= Dist(dest, c)

(* Seeded fault: CanGo is not asked.                                       *)
Expands_Anywhere(node) == {c \in Neighbours(node) \cap Cells : InRange(c) /\ ~Seen(c)}

Expands(node) == {c \in Neighbours(node) : c \in walkable /\ InRange(c) /\ ~Seen(c)}

(* Seeded fault: every cell is reached from the start.                     *)
Visit_FromTheStart(node) ==
  LET new == Expands(node)
  IN  /\ pq' = (pq \ {node}) \cup new
      /\ best' = [c \in DOMAIN best \cup new |-> IF c \in new THEN Dist(dest, c) ELSE best[c]]
      /\ parent' = [c \in DOMAIN parent \cup new |-> IF c \in new THEN src ELSE parent[c]]
      /\ UNCHANGED <<walkable, src, dest, goal, phase>>

Visit(node) ==
  LET new == Expands(node)
  IN  /\ pq' = (pq \ {node}) \cup new
      /\ best' = [c \in DOMAIN best \cup new |-> IF c \in new THEN Dist(dest, c) ELSE best[c]]
      /\ parent' = [c \in DOMAIN parent \cup new |-> IF c \in new THEN node ELSE parent[c]]
      /\ UNCHANGED <<walkable, src, dest, goal, phase>>

Search ==
  /\ phase = "search"
  /\ \E node \in Top :
       \/ node # dest /\ Visit(node)
       \/ /\ node = dest
          /\ phase' = "found"
          /\ pq' = pq \ {node}
          /\ UNCHANGED <<walkable, src, dest, goal, best, parent>>

(* The lowest cost; among equals the least distance from the start; among  *)
(* those the first in the order of Vec2Int.                                *)
Before(a, b) == a[1] < b[1] \/ (a[1] = b[1] /\ a[2] < b[2])

Better(a, b) ==
  \/ best[a] < best[b]
  \/ best[a] = best[b] /\ Dist(a, src) < Dist(b, src)
  \/ best[a] = best[b] /\ Dist(a, src) = Dist(b, src) /\ Before(a, b)

(* Seeded fault: ties are broken by the order of cells alone.              *)
Fallback_FirstOfTies ==
  /\ phase = "search" /\ pq = {}
  /\ phase' = "fallback"
  /\ dest' \in {c \in DOMAIN best : \A x \in DOMAIN best :
                  best[c] < best[x] \/ (best[c] = best[x] /\ ~Before(x, c))}
  /\ UNCHANGED <<walkable, src, goal, pq, best, parent>>

Fallback ==
  /\ phase = "search" /\ pq = {}
  /\ phase' = "fallback"
  /\ dest' \in {c \in DOMAIN best : \A x \in DOMAIN best : x # c => Better(c, x)}
  /\ UNCHANGED <<walkable, src, goal, pq, best, parent>>

Next == Search \/ Fallback

Spec == Init /\ [][Next]_vars

(* The loops run on until they end.                                        *)
FairSpec == Spec /\ WF_vars(Next)

-----------------------------------------------------------------------------
(* The path, from its end: the loop that follows the parents back to the   *)
(* start.                                                                  *)
Back == LET back[n \in 0 .. Width * Height] ==
              IF n = 0 THEN dest ELSE parent[back[n - 1]]
        IN  back

Done == phase \in {"found", "fallback"}

-----------------------------------------------------------------------------
(* The reference: the cells the start leads to without leaving the range.  *)
Grow(cells) ==
  cells \cup {c \in walkable : Dist(src, c) < MaxDepth /\ Neighbours(c) \cap cells # {}}

Reachable == LET within[n \in 0 .. Width * Height] ==
                   IF n = 0 THEN {src} ELSE Grow(within[n - 1])
             IN  within[Width * Height]

-----------------------------------------------------------------------------
(* The variables have their types; only cells that can be entered are seen.*)
TypeOK ==
  /\ walkable \subseteq Cells /\ {src, goal, dest} \subseteq Cells
  /\ pq \subseteq DOMAIN best /\ DOMAIN best \subseteq walkable \cup {src}
  /\ DOMAIN best = DOMAIN parent
  /\ \A c \in DOMAIN best : best[c] = Dist(goal, c) /\ parent[c] \in DOMAIN best
  /\ phase \in {"search", "found", "fallback", "refused"}

(* Following the parents from the end comes to the start, by steps between *)
(* neighbours onto cells that can be entered, and never twice to a cell:   *)
(* the loop that builds the path ends and the monster can walk it.         *)
PathIsWalkable ==
  Done =>
    \E n \in 0 .. Width * Height :
      /\ Back[n] = src
      /\ \A i \in 0 .. n - 1 : Back[i] \in walkable /\ Back[i + 1] \in Neighbours(Back[i])
      /\ \A i, j \in 0 .. n : Back[i] = Back[j] => i = j

(* The path ends at the goal if that can be reached, else as close to it as*)
(* one can get within the range, and at no greater distance from the start *)
(* than needed.                                                            *)
EndsAsCloseAsPossible ==
  Done =>
    /\ dest \in Reachable
    /\ \A c \in Reachable :
         \/ Dist(dest, goal) < Dist(c, goal)
         \/ Dist(dest, goal) = Dist(c, goal) /\ Dist(dest, src) <= Dist(c, src)

(* A search that is not refused ends.                                      *)
SearchEnds == phase = "search" ~> Done
=============================================================================
