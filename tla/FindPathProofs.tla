---------------------------- MODULE FindPathProofs ----------------------------
(***************************************************************************)
(* Proofs about FindPath, for maps of every size and every range.          *)
(*                                                                         *)
(* The path and the reference are recursive functions.  They are reasoned  *)
(* about by induction over a set of numbers: every set that holds 0 and,   *)
(* with a number, the next one, holds all of them.                         *)
(***************************************************************************)
EXTENDS FindPath, FiniteSetTheorems, TLAPS

-----------------------------------------------------------------------------
(* Numbers and repetition                                                  *)

(* Induction over the numbers, for a set of them.                          *)
LEMMA SetInduction ==
  ASSUME NEW T, 0 \in T, \A n \in Nat : n \in T => n + 1 \in T
  PROVE  Nat \subseteq T
<1> DEFINE Rest == Nat \ T
           R == OpToRel(<, Nat)
<1> SUFFICES ASSUME Rest # {} PROVE FALSE
  OBVIOUS
<1>1. IsWellFoundedOn(R, Nat)
  BY NatLessThanWellFounded
<1>2. \A m, n \in Nat : m < n => <<m, n>> \in R
  BY DEF OpToRel
<1> HIDE DEF R
<1>3. PICK n \in Rest : \A m \in Rest : ~(<<m, n>> \in R)
  <2>1. Rest \subseteq Nat OBVIOUS
  <2> HIDE DEF Rest
  <2> QED BY <1>1, <2>1, WFMin
<1>4. n \in Nat /\ n # 0 /\ n - 1 \in Nat /\ n - 1 < n
  OBVIOUS
<1>5. n - 1 \in T
  BY <1>2, <1>3, <1>4
<1> QED
  BY <1>4, <1>5

(* f[n] is what comes of applying g to a n times.                          *)
Iterates(f, N, a, g) == f = [n \in 0 .. N |-> IF n = 0 THEN a ELSE g[f[n - 1]]]

(* Repeating any function from any start gives a function on 0 .. N.       *)
LEMMA IterationExists ==
  ASSUME NEW N \in Nat, NEW a, NEW g
  PROVE  \E f : Iterates(f, N, a, g)
<1> DEFINE T == {m \in Nat : \E f : f = [n \in 0 .. m |-> IF n = 0 THEN a ELSE g[f[n - 1]]]}
<1>1. 0 \in T
  <2> DEFINE f == [n \in 0 .. 0 |-> a]
  <2>1. f = [n \in 0 .. 0 |-> IF n = 0 THEN a ELSE g[f[n - 1]]]
    OBVIOUS
  <2> QED BY <2>1
<1>2. ASSUME NEW m \in Nat, m \in T PROVE m + 1 \in T
  <2>1. PICK f : f = [n \in 0 .. m |-> IF n = 0 THEN a ELSE g[f[n - 1]]]
    BY <1>2
  <2> DEFINE h == [n \in 0 .. m + 1 |-> IF n = m + 1 THEN g[f[m]] ELSE f[n]]
  <2>2. \A n \in 0 .. m : h[n] = f[n]
    OBVIOUS
  <2>3. ASSUME NEW n \in 0 .. m + 1 PROVE h[n] = IF n = 0 THEN a ELSE g[h[n - 1]]
    <3>1. CASE n = m + 1
      <4>1. h[n] = g[f[m]] /\ n # 0 /\ n - 1 = m
        BY <3>1
      <4>2. h[m] = f[m]
        BY <2>2
      <4> HIDE DEF h
      <4> QED BY <4>1, <4>2
    <3>2. CASE n \in 0 .. m
      <4>1. h[n] = f[n] /\ f[n] = IF n = 0 THEN a ELSE g[f[n - 1]]
        BY <2>1, <2>2, <3>2
      <4>2. n # 0 => h[n - 1] = f[n - 1]
        BY <2>2, <3>2
      <4> HIDE DEF h
      <4> QED BY <4>1, <4>2
    <3> QED BY <3>1, <3>2
  <2>4. h = [n \in 0 .. m + 1 |-> h[n]]
    OBVIOUS
  <2> HIDE DEF h
  <2>5. h = [n \in 0 .. m + 1 |-> IF n = 0 THEN a ELSE g[h[n - 1]]]
    BY <2>3, <2>4
  <2> QED BY <2>5
<1> HIDE DEF T
<1>3. N \in T
  BY <1>1, <1>2, SetInduction
<1> QED BY <1>3 DEF T, Iterates

(* Its values, one after the other.                                        *)
LEMMA IterationSteps ==
  ASSUME NEW N \in Nat, NEW a, NEW g, NEW f, Iterates(f, N, a, g)
  PROVE  /\ DOMAIN f = 0 .. N
         /\ f[0] = a
         /\ \A n \in 0 .. N - 1 : f[n + 1] = g[f[n]]
<1>1. f = [n \in 0 .. N |-> IF n = 0 THEN a ELSE g[f[n - 1]]]
  BY DEF Iterates
<1>2. DOMAIN f = 0 .. N /\ f[0] = a
  BY <1>1
<1>3. ASSUME NEW n \in 0 .. N - 1 PROVE f[n + 1] = g[f[n]]
  <2>1. n + 1 \in 0 .. N /\ n + 1 # 0 /\ (n + 1) - 1 = n
    OBVIOUS
  <2> QED BY <1>1, <2>1
<1> QED BY <1>2, <1>3

(* A set of numbers that is not empty has a least one.                     *)
LEMMA LeastNumber ==
  ASSUME NEW T \in SUBSET Nat, T # {}
  PROVE  \E n \in T : \A m \in T : n <= m
<1> DEFINE R == OpToRel(<, Nat)
<1>1. IsWellFoundedOn(R, Nat)
  BY NatLessThanWellFounded
<1>2. \A m, n \in Nat : m < n => <<m, n>> \in R
  BY DEF OpToRel
<1> HIDE DEF R
<1>3. PICK n \in T : \A m \in T : ~(<<m, n>> \in R)
  BY <1>1, WFMin
<1>4. ASSUME NEW m \in T PROVE n <= m
  <2>1. m \in Nat /\ n \in Nat /\ ~(m < n)
    BY <1>2, <1>3
  <2> QED BY <2>1
<1> QED BY <1>4

-----------------------------------------------------------------------------
(* Cells                                                                   *)

(* Dist is a distance.                                                     *)
LEMMA DistIsMetric ==
  ASSUME NEW a \in Int \X Int, NEW b \in Int \X Int
  PROVE  /\ Dist(a, b) \in Nat
         /\ Dist(a, b) = 0 <=> a = b
         /\ Dist(a, b) = Dist(b, a)
BY DEF Dist, Abs

(* Each of two neighbours is a neighbour of the other.                     *)
LEMMA NeighboursAreMutual ==
  ASSUME NEW a \in Int \X Int, NEW b \in Int \X Int, b \in Neighbours(a)
  PROVE  a \in Neighbours(b)
BY DEF Neighbours, Front

(* A map has finitely many cells.                                          *)
LEMMA CellsAreFinite ==
  /\ Cells \subseteq Int \X Int
  /\ IsFiniteSet(Cells) /\ Cardinality(Cells) = Width * Height
  /\ Width * Height \in Nat \ {0}
<1>1. /\ IsFiniteSet(0 .. Width - 1) /\ Cardinality(0 .. Width - 1) = Width
      /\ IsFiniteSet(0 .. Height - 1) /\ Cardinality(0 .. Height - 1) = Height
  BY FindPathAssumption, FS_Interval
<1>2. IsFiniteSet(Cells) /\ Cardinality(Cells) = Width * Height
  <2> DEFINE A == 0 .. Width - 1
             B == 0 .. Height - 1
  <2>1. Cells = A \X B
    BY DEF Cells
  <2>2. IsFiniteSet(A) /\ IsFiniteSet(B) /\ Cardinality(A) = Width /\ Cardinality(B) = Height
    BY <1>1
  <2> HIDE DEF A, B
  <2>3. IsFiniteSet(A \X B) /\ Cardinality(A \X B) = Cardinality(A) * Cardinality(B)
    BY <2>2, FS_Product
  <2> QED BY <2>1, <2>2, <2>3
<1>3. Width * Height \in Nat \ {0}
  BY FindPathAssumption
<1> QED BY <1>2, <1>3, FindPathAssumption DEF Cells

-----------------------------------------------------------------------------
(* Type correctness                                                        *)

(* What each phase says of the two ends of the path.                       *)
PhaseInv ==
  /\ src \notin walkable /\ goal \notin walkable
  /\ src \in DOMAIN best
  /\ phase = "search" => dest = goal
  /\ phase = "found" => dest = goal /\ dest = src
  /\ phase = "fallback" =>
       /\ pq = {} /\ dest \in DOMAIN best
       /\ \A x \in DOMAIN best : x # dest => Better(dest, x)

(* At the start only the monster's own cell has been seen.                 *)
LEMMA TypeInit == Init => TypeOK /\ PhaseInv
<1> SUFFICES ASSUME NEW map \in SUBSET Cells, NEW from \in Cells \ map, NEW to \in Cells \ map,
                    Start(map, from, to)
             PROVE  TypeOK /\ PhaseInv
  BY DEF Init
<1>1. from \in Int \X Int /\ to \in Int \X Int
  BY CellsAreFinite
<1> QED BY <1>1, DistIsMetric DEF Start, TypeOK, PhaseInv

(* What is new to the search was not seen before: the one cell whose cost  *)
(* is 0 is the goal, which cannot be entered.                              *)
LEMMA NewIsUnseen ==
  ASSUME TypeOK, PhaseInv, phase = "search", NEW node
  PROVE  /\ Expands(node) \cap DOMAIN best = {}
         /\ Expands(node) \subseteq walkable
<1> SUFFICES ASSUME NEW c \in Expands(node) \cap DOMAIN best PROVE FALSE
  BY DEF Expands
<1>1. c \in walkable /\ c # goal /\ dest = goal /\ ~Seen(c)
  BY DEF Expands, PhaseInv
<1>2. c \in Int \X Int /\ goal \in Int \X Int /\ best[c] = Dist(goal, c)
  BY <1>1, CellsAreFinite DEF TypeOK
<1>3. Dist(goal, c) \in Nat /\ Dist(goal, c) # 0
  BY <1>1, <1>2, DistIsMetric
<1> QED BY <1>1, <1>2, <1>3 DEF Seen

(* A visit, the end of the search and the fallback keep the types.         *)
LEMMA TypeStep == TypeOK /\ PhaseInv /\ [Next]_vars => TypeOK' /\ PhaseInv'
<1> SUFFICES ASSUME TypeOK, PhaseInv, [Next]_vars PROVE TypeOK' /\ PhaseInv'
  OBVIOUS
<1>1. ASSUME phase = "search", NEW node \in Top, Visit(node) PROVE TypeOK' /\ PhaseInv'
  <2> DEFINE new == Expands(node)
  <2>1. new \cap DOMAIN best = {} /\ new \subseteq walkable
    BY <1>1, NewIsUnseen
  <2>2. node \in DOMAIN best /\ dest = goal
    BY <1>1 DEF Top, TypeOK, PhaseInv
  <2> HIDE DEF new
  <2>3. /\ DOMAIN best' = DOMAIN best \cup new /\ DOMAIN parent' = DOMAIN parent \cup new
        /\ pq' = (pq \ {node}) \cup new
        /\ \A c \in new : best'[c] = Dist(goal, c) /\ parent'[c] = node
        /\ \A c \in DOMAIN best : best'[c] = best[c] /\ parent'[c] = parent[c]
        /\ UNCHANGED <<walkable, src, dest, goal, phase>>
    BY <1>1, <2>1, <2>2 DEF Visit, TypeOK, new
  <2>4. TypeOK'
    BY <2>1, <2>2, <2>3 DEF TypeOK
  <2>5. PhaseInv'
    BY <1>1, <2>3 DEF PhaseInv
  <2> QED BY <2>4, <2>5
<1>2. ASSUME phase = "search", NEW node \in Top, node = dest, phase' = "found", pq' = pq \ {node},
             UNCHANGED <<walkable, src, dest, goal, best, parent>>
      PROVE  TypeOK' /\ PhaseInv'
  <2>1. dest = goal /\ dest \in walkable \cup {src}
    BY <1>2 DEF Top, TypeOK, PhaseInv
  <2> QED BY <1>2, <2>1 DEF TypeOK, PhaseInv
<1>3. CASE Fallback
  <2>1. /\ dest' \in DOMAIN best /\ pq = {} /\ phase' = "fallback"
        /\ \A x \in DOMAIN best : x # dest' => Better(dest', x)
        /\ UNCHANGED <<walkable, src, goal, pq, best, parent>>
    BY <1>3 DEF Fallback
  <2>2. TypeOK'
    BY <2>1 DEF TypeOK
  <2>3. \A x \in DOMAIN best' : x # dest' => Better(dest, x)'
    BY <2>1 DEF Better
  <2> QED BY <2>1, <2>2, <2>3 DEF PhaseInv
<1>4. CASE UNCHANGED vars
  BY <1>4 DEF vars, TypeOK, PhaseInv, Better
<1> QED BY <1>1, <1>2, <1>3, <1>4 DEF Next, Search

(* The search sees only cells that can be entered, and notes the distance  *)
(* of each to the goal and the cell it came from (GameRoom.cpp, FindPath). *)
THEOREM TypeCorrect == Spec => []TypeOK
BY TypeInit, TypeStep, PTL DEF Spec

-----------------------------------------------------------------------------
(* The tree of parents and the frontier                                    *)

(* A numbering of the cells seen, below how many they are, by which every  *)
(* cell but the start comes after the cell it was seen from.               *)
Ranks(rank) ==
  /\ rank \in [DOMAIN best -> 0 .. Cardinality(DOMAIN best) - 1]
  /\ rank[src] = 0
  /\ \A c \in DOMAIN best \ {src} : rank[parent[c]] < rank[c]

TreeInv ==
  /\ \A c \in DOMAIN best \ {src} : Dist(src, c) < MaxDepth /\ parent[c] \in Neighbours(c)
  /\ \E rank : Ranks(rank)

(* The cells next to a cell that has left the queue have been seen.        *)
FrontierInv ==
  phase \in {"search", "fallback"} =>
    \A c \in DOMAIN best \ pq : \A x \in Neighbours(c) \cap walkable :
      InRange(x) => x \in DOMAIN best

IInv == TypeOK /\ PhaseInv /\ TreeInv /\ FrontierInv

(* There are never more cells seen than cells of the map.                  *)
LEMMA SeenAreFinite ==
  ASSUME TypeOK
  PROVE  /\ DOMAIN best \subseteq Cells
         /\ IsFiniteSet(DOMAIN best)
         /\ Cardinality(DOMAIN best) \in Nat
         /\ Cardinality(DOMAIN best) <= Width * Height
<1>1. DOMAIN best \subseteq Cells
  BY DEF TypeOK
<1> QED BY <1>1, CellsAreFinite, FS_Subset, FS_CardinalityType

(* At the start the tree is the start alone, which is in the queue.        *)
LEMMA TreeInit == Init => TreeInv /\ FrontierInv
<1> SUFFICES ASSUME NEW map \in SUBSET Cells, NEW from \in Cells \ map, NEW to \in Cells \ map,
                    Start(map, from, to)
             PROVE  TreeInv /\ FrontierInv
  BY DEF Init
<1>1. DOMAIN best = {from} /\ src = from /\ pq = {from}
  BY DEF Start
<1>2. Cardinality(DOMAIN best) = 1
  BY <1>1, FS_Singleton
<1> DEFINE zero == [c \in {from} |-> 0]
<1>3. zero \in [DOMAIN best -> 0 .. Cardinality(DOMAIN best) - 1]
  BY <1>1, <1>2
<1>4. Ranks(zero)
  BY <1>1, <1>3 DEF Ranks
<1> HIDE DEF zero
<1> QED BY <1>1, <1>4 DEF TreeInv, FrontierInv

(* The cells a visit adds come after all that were there.                  *)
LEMMA VisitRanks ==
  ASSUME TypeOK, NEW rank, Ranks(rank), src \in DOMAIN best,
         NEW new, new \cap DOMAIN best = {}, new # {}, new \subseteq Cells,
         NEW node \in DOMAIN best,
         src' = src,
         DOMAIN best' = DOMAIN best \cup new,
         \A c \in new : parent'[c] = node,
         \A c \in DOMAIN best : parent'[c] = parent[c]
  PROVE  \E r : Ranks(r)'
<1> DEFINE size == Cardinality(DOMAIN best)
           r == [c \in DOMAIN best \cup new |-> IF c \in new THEN size ELSE rank[c]]
<1>1. IsFiniteSet(DOMAIN best) /\ size \in Nat
  BY SeenAreFinite
<1>2. IsFiniteSet(DOMAIN best \cup new)
  BY SeenAreFinite, CellsAreFinite, FS_Subset
<1>3. Cardinality(DOMAIN best \cup new) \in Nat /\ size < Cardinality(DOMAIN best \cup new)
  <2>1. /\ size <= Cardinality(DOMAIN best \cup new)
        /\ size = Cardinality(DOMAIN best \cup new) => DOMAIN best = DOMAIN best \cup new
    BY <1>2, FS_Subset
  <2>2. DOMAIN best # DOMAIN best \cup new
    OBVIOUS
  <2>3. Cardinality(DOMAIN best \cup new) \in Nat
    BY <1>2, FS_CardinalityType
  <2> QED BY <1>1, <2>1, <2>2, <2>3
<1> HIDE DEF size
<1>4. rank \in [DOMAIN best -> 0 .. size - 1]
  BY DEF Ranks, size
<1>5. r \in [DOMAIN best' -> 0 .. Cardinality(DOMAIN best') - 1]
  BY <1>1, <1>3, <1>4
<1>6. /\ \A c \in new : r[c] = size
      /\ \A c \in DOMAIN best : r[c] = rank[c] /\ rank[c] \in 0 .. size - 1
  BY <1>4
<1> HIDE DEF r
<1>7. ASSUME NEW c \in DOMAIN best' \ {src'} PROVE r[parent'[c]] < r[c]
  <2>1. CASE c \in new
    BY <1>1, <1>6, <2>1
  <2>2. CASE c \in DOMAIN best
    <3>1. parent[c] \in DOMAIN best /\ rank[parent[c]] < rank[c] /\ parent'[c] = parent[c]
      BY <2>2 DEF Ranks, TypeOK
    <3> QED BY <1>6, <2>2, <3>1
  <2> QED BY <2>1, <2>2
<1>8. r[src'] = 0
  BY <1>6 DEF Ranks
<1> QED BY <1>5, <1>7, <1>8 DEF Ranks

(* A visit keeps the tree and the frontier.                                *)
LEMMA VisitKeepsTree ==
  ASSUME IInv, phase = "search", NEW node \in Top, Visit(node)
  PROVE  TreeInv' /\ FrontierInv'
<1> DEFINE new == Expands(node)
<1>1. new \cap DOMAIN best = {} /\ new \subseteq walkable /\ new \subseteq Cells
  BY NewIsUnseen DEF IInv, TypeOK
<1>2. /\ node \in DOMAIN best /\ node \in Int \X Int
      /\ src \in DOMAIN best /\ src \in Int \X Int
  BY SeenAreFinite, CellsAreFinite DEF Top, IInv, TypeOK, PhaseInv
<1>3. /\ DOMAIN best' = DOMAIN best \cup new
      /\ pq' = (pq \ {node}) \cup new
      /\ \A c \in new : parent'[c] = node
      /\ \A c \in DOMAIN best : parent'[c] = parent[c]
      /\ UNCHANGED <<walkable, src, dest, goal, phase>>
  <2> HIDE DEF new
  <2>1. DOMAIN parent = DOMAIN best
    BY DEF IInv, TypeOK
  <2> QED BY <1>1, <2>1 DEF Visit, new
<1>4. ASSUME NEW c \in DOMAIN best' \ {src'}
      PROVE  (Dist(src, c) < MaxDepth)' /\ parent'[c] \in Neighbours(c)
  <2>1. CASE c \in new
    <3>1. c \in Neighbours(node) /\ InRange(c) /\ c \in Int \X Int
      BY <1>1, <2>1, CellsAreFinite DEF Expands
    <3>2. node \in Neighbours(c)
      BY <1>2, <3>1, NeighboursAreMutual
    <3> QED BY <1>3, <2>1, <3>1, <3>2 DEF InRange
  <2>2. CASE c \in DOMAIN best
    BY <1>3, <2>2 DEF IInv, TreeInv
  <2> QED BY <1>3, <2>1, <2>2
<1>5. \E r : Ranks(r)'
  <2>1. PICK rank : Ranks(rank)
    BY DEF IInv, TreeInv
  <2>2. CASE new = {}
    <3>1. DOMAIN best' = DOMAIN best
      BY <1>3, <2>2
    <3>2. \A c \in DOMAIN best : parent'[c] = parent[c]
      BY <1>3
    <3>3. Ranks(rank)'
      BY <1>3, <2>1, <3>1, <3>2 DEF Ranks
    <3> QED BY <3>3
  <2>3. CASE new # {}
    <3> HIDE DEF new
    <3> QED BY <1>1, <1>2, <1>3, <2>1, <2>3, VisitRanks DEF IInv
  <2> QED BY <2>2, <2>3
<1>6. FrontierInv'
  <2> SUFFICES ASSUME NEW c \in DOMAIN best' \ pq', NEW x \in Neighbours(c) \cap walkable,
                      InRange(x)
               PROVE  x \in DOMAIN best'
    BY <1>3 DEF FrontierInv, InRange
  <2>1. CASE c = node
    BY <1>3, <2>1 DEF Expands, Seen
  <2>2. CASE c # node
    <3>1. c \in DOMAIN best \ pq
      BY <1>3, <2>2
    <3> QED BY <1>3, <3>1 DEF IInv, FrontierInv
  <2> QED BY <2>1, <2>2
<1> QED BY <1>4, <1>5, <1>6 DEF TreeInv

(* Only a visit changes the tree.                                          *)
LEMMA TreeStep == IInv /\ [Next]_vars => TreeInv' /\ FrontierInv'
<1> SUFFICES ASSUME IInv, [Next]_vars PROVE TreeInv' /\ FrontierInv'
  OBVIOUS
<1>1. ASSUME phase = "search", NEW node \in Top, Visit(node) PROVE TreeInv' /\ FrontierInv'
  BY <1>1, VisitKeepsTree
<1>2. ASSUME UNCHANGED <<walkable, src, best, parent>> PROVE TreeInv'
  BY <1>2 DEF IInv, TreeInv, Ranks
<1>3. ASSUME NEW node \in Top, phase' = "found", UNCHANGED <<walkable, src, best, parent>>
      PROVE  TreeInv' /\ FrontierInv'
  BY <1>2, <1>3 DEF FrontierInv
<1>4. CASE Fallback
  BY <1>2, <1>4 DEF Fallback, IInv, FrontierInv, InRange
<1>5. CASE UNCHANGED vars
  BY <1>2, <1>5 DEF vars, IInv, FrontierInv, InRange
<1> QED BY <1>1, <1>3, <1>4, <1>5 DEF Next, Search

(* IInv is inductive.                                                      *)
LEMMA Invariant == Spec => []IInv
<1>1. Init => IInv
  BY TypeInit, TreeInit DEF IInv
<1>2. IInv /\ [Next]_vars => IInv'
  BY TypeStep, TreeStep DEF IInv
<1> QED BY <1>1, <1>2, PTL DEF Spec

-----------------------------------------------------------------------------
(* The path                                                                *)

(* The loop that follows the parents, as a function.                       *)
LEMMA BackIterates == Iterates(Back, Width * Height, dest, parent)
<1> DEFINE P(b) == Iterates(b, Width * Height, dest, parent)
<1>1. Back = CHOOSE b : P(b)
  BY DEF Back, Iterates
<1>2. \E b : P(b)
  BY CellsAreFinite, IterationExists
<1> HIDE DEF P
<1>3. P(CHOOSE b : P(b))
  BY <1>2, Zenon
<1>4. P(Back)
  BY <1>1, <1>3
<1> QED BY <1>4 DEF P

(* Each cell of the loop is the parent of the one before.                  *)
LEMMA BackSteps ==
  /\ Back[0] = dest
  /\ \A n \in 0 .. Width * Height - 1 : Back[n + 1] = parent[Back[n]]
BY BackIterates, CellsAreFinite, IterationSteps

(* As long as it does not meet the start, the loop goes down in rank.      *)
LEMMA BackDescends ==
  ASSUME IInv, Done, NEW rank, Ranks(rank),
         NEW k \in 0 .. Width * Height, \A i \in 0 .. k - 1 : Back[i] # src
  PROVE  Back[k] \in DOMAIN best /\ rank[Back[k]] + k <= rank[dest]
<1> DEFINE N == Width * Height
           T == {m \in Nat : m <= k => Back[m] \in DOMAIN best /\ rank[Back[m]] + m <= rank[dest]}
<1>1. N \in Nat /\ k \in Nat /\ k <= N
  BY CellsAreFinite
<1>2. /\ Back[0] = dest
      /\ \A n \in 0 .. N - 1 : Back[n + 1] = parent[Back[n]]
  BY BackSteps
<1> HIDE DEF N
<1>3. dest \in DOMAIN best
  BY DEF IInv, PhaseInv, Done
<1>4. \A c \in DOMAIN best : rank[c] \in Int
  BY SeenAreFinite DEF IInv, Ranks
<1>5. 0 \in T
  BY <1>2, <1>3, <1>4
<1>6. ASSUME NEW m \in Nat, m \in T PROVE m + 1 \in T
  <2> SUFFICES ASSUME m + 1 <= k
               PROVE  Back[m + 1] \in DOMAIN best /\ rank[Back[m + 1]] + (m + 1) <= rank[dest]
    OBVIOUS
  <2>1. Back[m] \in DOMAIN best /\ rank[Back[m]] + m <= rank[dest]
    BY <1>1, <1>6
  <2>2. Back[m] # src /\ Back[m + 1] = parent[Back[m]]
    BY <1>1, <1>2
  <2>3. Back[m + 1] \in DOMAIN best /\ rank[Back[m + 1]] < rank[Back[m]]
    BY <2>1, <2>2 DEF IInv, TypeOK, Ranks
  <2> QED BY <1>3, <1>4, <2>1, <2>3
<1>7. k \in T
  <2> HIDE DEF T
  <2> QED BY <1>1, <1>5, <1>6, SetInduction
<1> QED BY <1>1, <1>7

(* Two places of the loop before the start differ in rank.                 *)
LEMMA BackIsStrict ==
  ASSUME IInv, Done, NEW rank, Ranks(rank),
         NEW n \in 0 .. Width * Height, \A i \in 0 .. n - 1 : Back[i] # src,
         NEW i \in 0 .. n, NEW j \in 0 .. n, i < j
  PROVE  rank[Back[j]] < rank[Back[i]]
<1> DEFINE N == Width * Height
           T == {m \in Nat : i < m /\ m <= n => rank[Back[m]] < rank[Back[i]]}
<1>1. N \in Nat /\ n \in Nat /\ n <= N
  BY CellsAreFinite
<1>2. \A m \in 0 .. N - 1 : Back[m + 1] = parent[Back[m]]
  BY BackSteps
<1>3. ASSUME NEW m \in 0 .. n PROVE Back[m] \in DOMAIN best
  <2>1. m \in 0 .. N /\ \A l \in 0 .. m - 1 : Back[l] # src
    <3> HIDE DEF N
    <3> QED BY <1>1
  <2> QED BY <2>1, BackDescends
<1> HIDE DEF N
<1>4. \A c \in DOMAIN best : rank[c] \in Int
  BY SeenAreFinite DEF IInv, Ranks
<1>5. ASSUME NEW m \in 0 .. n - 1 PROVE rank[Back[m + 1]] < rank[Back[m]]
  <2>1. Back[m] \in DOMAIN best /\ Back[m] # src /\ Back[m + 1] = parent[Back[m]]
    BY <1>1, <1>2, <1>3
  <2> QED BY <2>1 DEF Ranks
<1>6. 0 \in T
  OBVIOUS
<1>7. ASSUME NEW m \in Nat, m \in T PROVE m + 1 \in T
  <2> SUFFICES ASSUME i < m + 1, m + 1 <= n PROVE rank[Back[m + 1]] < rank[Back[i]]
    OBVIOUS
  <2>1. /\ rank[Back[m + 1]] < rank[Back[m]]
        /\ Back[m + 1] \in DOMAIN best /\ Back[m] \in DOMAIN best /\ Back[i] \in DOMAIN best
    BY <1>1, <1>3, <1>5
  <2>2. CASE i = m
    BY <2>1, <2>2
  <2>3. CASE i # m
    <3>1. i < m /\ m <= n
      BY <1>1, <2>3
    <3>2. rank[Back[m]] < rank[Back[i]]
      BY <1>7, <3>1
    <3> QED BY <1>4, <2>1, <3>2
  <2> QED BY <2>2, <2>3
<1>8. j \in T
  <2> HIDE DEF T
  <2> QED BY <1>1, <1>6, <1>7, SetInduction
<1> QED BY <1>1, <1>8

(* The loop goes down in rank and so comes to the start within the map's   *)
(* size.                                                                   *)
LEMMA PathFollows == IInv => PathIsWalkable
<1> SUFFICES ASSUME IInv, Done PROVE PathIsWalkable
  BY DEF PathIsWalkable
<1> DEFINE N == Width * Height
           Ends == {m \in 0 .. N : Back[m] = src}
<1>1. N \in Nat
  BY CellsAreFinite
<1>2. PICK rank : Ranks(rank)
  BY DEF IInv, TreeInv
<1>3. Ends # {}
  <2> SUFFICES ASSUME \A i \in 0 .. N : Back[i] # src PROVE FALSE
    OBVIOUS
  <2>1. Back[N] \in DOMAIN best /\ rank[Back[N]] + N <= rank[dest]
    BY <1>1, <1>2, BackDescends
  <2>2. /\ rank[Back[N]] \in 0 .. Cardinality(DOMAIN best) - 1
        /\ rank[dest] \in 0 .. Cardinality(DOMAIN best) - 1
        /\ Cardinality(DOMAIN best) \in Nat /\ Cardinality(DOMAIN best) <= N
    BY <1>2, <2>1, SeenAreFinite DEF Ranks, IInv, PhaseInv, Done
  <2> HIDE DEF N
  <2> QED BY <1>1, <2>1, <2>2
<1>4. PICK n \in Ends : \A m \in Ends : n <= m
  <2>1. Ends \subseteq Nat
    BY <1>1
  <2> HIDE DEF Ends
  <2> QED BY <1>3, <2>1, LeastNumber
<1>5. n \in 0 .. N /\ Back[n] = src /\ \A i \in 0 .. n - 1 : Back[i] # src
  <2> HIDE DEF N
  <2> QED BY <1>1, <1>4
<1>6. ASSUME NEW i \in 0 .. n - 1
      PROVE  Back[i] \in walkable /\ Back[i + 1] \in Neighbours(Back[i])
  <2>1. i \in 0 .. N - 1 /\ i \in 0 .. N /\ \A m \in 0 .. i - 1 : Back[m] # src
    <3> HIDE DEF N
    <3> QED BY <1>1, <1>5
  <2>2. Back[i] \in DOMAIN best \ {src} /\ Back[i + 1] = parent[Back[i]]
    BY <1>2, <1>5, <2>1, BackDescends, BackSteps
  <2> QED BY <2>2 DEF IInv, TypeOK, TreeInv
<1>7. ASSUME NEW i \in 0 .. n, NEW j \in 0 .. n, Back[i] = Back[j] PROVE i = j
  <2>1. rank[Back[i]] \in Int
    <3>1. i \in 0 .. N /\ \A m \in 0 .. i - 1 : Back[m] # src
      <4> HIDE DEF N
      <4> QED BY <1>1, <1>5
    <3>2. Back[i] \in DOMAIN best
      BY <1>2, <3>1, BackDescends
    <3> QED BY <1>2, <3>2, SeenAreFinite DEF Ranks, IInv
  <2>2. ~(i < j) /\ ~(j < i)
    BY <1>2, <1>5, <1>7, <2>1, BackIsStrict
  <2>3. i \in Int /\ j \in Int
    BY <1>5
  <2> QED BY <2>2, <2>3
<1> QED BY <1>5, <1>6, <1>7 DEF PathIsWalkable

(* On every map and for every range, following the parents comes to the    *)
(* start, over cells that can be entered, by steps between neighbours and  *)
(* never twice to a cell (GameRoom.cpp and DevScene.cpp, end of FindPath). *)
THEOREM PathsAreWalkable == Spec => []PathIsWalkable
BY Invariant, PathFollows, PTL

-----------------------------------------------------------------------------
(* The end of the path                                                     *)

(* within is the repetition of Grow, and stays inside the map.             *)
LEMMA ReachableGrows ==
  ASSUME TypeOK
  PROVE  \E w : /\ Reachable = w[Width * Height]
                /\ w[0] = {src}
                /\ \A n \in 0 .. Width * Height - 1 : w[n + 1] = Grow(w[n])
<1> DEFINE N == Width * Height
           All == walkable \cup {src}
           grow == [c \in SUBSET All |-> Grow(c)]
           W(w) == w = [n \in 0 .. N |-> IF n = 0 THEN {src} ELSE Grow(w[n - 1])]
<1>1. N \in Nat
  BY CellsAreFinite
<1>2. Reachable = (CHOOSE w : W(w))[N]
  BY DEF Reachable
<1> HIDE DEF N
<1>3. PICK f : Iterates(f, N, {src}, grow)
  BY <1>1, IterationExists
<1>4. /\ f[0] = {src} /\ DOMAIN f = 0 .. N
      /\ \A n \in 0 .. N - 1 : f[n + 1] = grow[f[n]]
  BY <1>1, <1>3, IterationSteps
<1>5. \A c \in SUBSET All : grow[c] = Grow(c) /\ Grow(c) \in SUBSET All
  BY DEF Grow
<1> HIDE DEF grow, All
<1>6. \A n \in 0 .. N : f[n] \in SUBSET All
  <2> DEFINE T == {n \in Nat : n <= N => f[n] \in SUBSET All}
  <2>1. 0 \in T
    BY <1>4 DEF All
  <2>2. ASSUME NEW n \in Nat, n \in T PROVE n + 1 \in T
    <3> SUFFICES ASSUME n + 1 <= N PROVE f[n + 1] \in SUBSET All
      OBVIOUS
    <3>1. n <= N /\ n \in 0 .. N - 1
      BY <1>1
    <3>2. f[n] \in SUBSET All /\ f[n + 1] = grow[f[n]]
      BY <1>4, <2>2, <3>1
    <3> QED BY <1>5, <3>2
  <2>3. Nat \subseteq T
    <3> HIDE DEF T
    <3> QED BY <2>1, <2>2, SetInduction
  <2> QED BY <1>1, <2>3
<1>7. W(f)
  <2>1. ASSUME NEW n \in 1 .. N PROVE f[n] = Grow(f[n - 1])
    <3>1. n - 1 \in 0 .. N - 1 /\ (n - 1) + 1 = n /\ n - 1 \in 0 .. N
      BY <1>1
    <3>2. f[(n - 1) + 1] = grow[f[n - 1]] /\ f[n - 1] \in SUBSET All
      BY <1>4, <1>6, <3>1
    <3> QED BY <1>5, <3>1, <3>2
  <2>2. f = [n \in 0 .. N |-> f[n]]
    BY <1>3 DEF Iterates
  <2>3. \A n \in 0 .. N : f[n] = IF n = 0 THEN {src} ELSE Grow(f[n - 1])
    BY <1>1, <1>4, <2>1
  <2> QED BY <2>2, <2>3
<1>8. W(CHOOSE w : W(w))
  <2> HIDE DEF W
  <2> QED BY <1>7, Zenon
<1>9. PICK w : w = (CHOOSE v : W(v)) /\ W(w)
  BY <1>8
<1>10. /\ w[0] = {src}
       /\ \A n \in 0 .. N - 1 : w[n + 1] = Grow(w[n])
  <2>1. w[0] = {src}
    <3>1. 0 \in 0 .. N
      BY <1>1
    <3> QED BY <1>9, <3>1
  <2>2. ASSUME NEW n \in 0 .. N - 1 PROVE w[n + 1] = Grow(w[n])
    <3>1. n + 1 \in 0 .. N /\ n + 1 # 0 /\ (n + 1) - 1 = n
      BY <1>1
    <3> QED BY <1>9, <3>1
  <2> QED BY <2>1, <2>2
<1>11. Reachable = w[N]
  <2> HIDE DEF W
  <2> QED BY <1>2, <1>9
<1> QED BY <1>10, <1>11 DEF N

(* What the search has seen can be reached.                                *)
LEMMA SeenIsReachable ==
  ASSUME IInv
  PROVE  DOMAIN best \subseteq Reachable
<1> DEFINE N == Width * Height
<1>1. N \in Nat
  BY CellsAreFinite
<1>2. PICK w : /\ Reachable = w[N] /\ w[0] = {src}
               /\ \A n \in 0 .. N - 1 : w[n + 1] = Grow(w[n])
  BY ReachableGrows DEF IInv
<1>3. PICK rank : Ranks(rank)
  BY DEF IInv, TreeInv
<1>4. ASSUME NEW c \in DOMAIN best PROVE rank[c] \in Nat /\ rank[c] <= N
  <2>1. rank[c] \in 0 .. Cardinality(DOMAIN best) - 1
    BY <1>3 DEF Ranks
  <2>2. Cardinality(DOMAIN best) \in Nat /\ Cardinality(DOMAIN best) <= N
    BY SeenAreFinite DEF IInv
  <2> HIDE DEF N
  <2> QED BY <1>1, <2>1, <2>2
<1> HIDE DEF N
<1> DEFINE T == {n \in Nat : n <= N => \A c \in DOMAIN best : rank[c] <= n => c \in w[n]}
<1>5. ASSUME NEW c \in DOMAIN best \ {src}
      PROVE  /\ c \in walkable /\ Dist(src, c) < MaxDepth
             /\ parent[c] \in Neighbours(c) /\ parent[c] \in DOMAIN best
             /\ rank[parent[c]] < rank[c]
  BY <1>3 DEF IInv, TypeOK, TreeInv, Ranks
<1>6. 0 \in T
  <2>1. ASSUME NEW c \in DOMAIN best, rank[c] <= 0 PROVE c = src
    BY <1>4, <1>5, <2>1
  <2> QED BY <1>2, <2>1
<1>7. ASSUME NEW n \in Nat, n \in T PROVE n + 1 \in T
  <2> SUFFICES ASSUME n + 1 <= N, NEW c \in DOMAIN best, rank[c] <= n + 1 PROVE c \in w[n + 1]
    OBVIOUS
  <2>1. /\ \A x \in DOMAIN best : rank[x] <= n => x \in w[n]
        /\ w[n + 1] = Grow(w[n])
    BY <1>1, <1>2, <1>7
  <2>2. CASE rank[c] <= n
    BY <2>1, <2>2 DEF Grow
  <2>3. CASE ~(rank[c] <= n)
    <3>1. c # src
      BY <1>3, <2>3 DEF Ranks
    <3>2. rank[parent[c]] <= n
      BY <1>4, <1>5, <3>1
    <3>3. parent[c] \in w[n]
      BY <1>5, <2>1, <3>1, <3>2
    <3> QED BY <1>5, <2>1, <3>1, <3>3 DEF Grow
  <2> QED BY <2>2, <2>3
<1>8. N \in T
  <2> HIDE DEF T
  <2> QED BY <1>1, <1>6, <1>7, SetInduction
<1> QED BY <1>1, <1>2, <1>4, <1>8

(* Once the queue is empty, what can be reached has been seen.             *)
LEMMA ReachableIsSeen ==
  ASSUME IInv, phase = "fallback"
  PROVE  Reachable \subseteq DOMAIN best
<1> DEFINE N == Width * Height
<1>1. N \in Nat
  BY CellsAreFinite
<1>2. PICK w : /\ Reachable = w[N] /\ w[0] = {src}
               /\ \A n \in 0 .. N - 1 : w[n + 1] = Grow(w[n])
  BY ReachableGrows DEF IInv
<1> HIDE DEF N
<1> DEFINE T == {n \in Nat : n <= N => w[n] \subseteq DOMAIN best}
<1>3. ASSUME NEW cells, cells \subseteq DOMAIN best PROVE Grow(cells) \subseteq DOMAIN best
  <2> SUFFICES ASSUME NEW c \in walkable, Dist(src, c) < MaxDepth,
                      NEW x \in Neighbours(c) \cap cells
               PROVE  c \in DOMAIN best
    BY <1>3 DEF Grow
  <2>1. x \in DOMAIN best \ pq /\ x \in Int \X Int /\ c \in Int \X Int
    BY <1>3, SeenAreFinite, CellsAreFinite DEF IInv, PhaseInv, TypeOK
  <2>2. c \in Neighbours(x)
    BY <2>1, NeighboursAreMutual
  <2> QED BY <2>1, <2>2 DEF IInv, FrontierInv, InRange
<1>4. 0 \in T
  BY <1>2 DEF IInv, PhaseInv
<1>5. ASSUME NEW n \in Nat, n \in T PROVE n + 1 \in T
  <2> SUFFICES ASSUME n + 1 <= N PROVE w[n + 1] \subseteq DOMAIN best
    OBVIOUS
  <2>1. w[n] \subseteq DOMAIN best /\ w[n + 1] = Grow(w[n])
    BY <1>1, <1>2, <1>5
  <2> QED BY <1>3, <2>1
<1>6. N \in T
  <2> HIDE DEF T
  <2> QED BY <1>1, <1>4, <1>5, SetInduction
<1> QED BY <1>1, <1>2, <1>6

(* The fallback takes the best of what was seen, which is what can be      *)
(* reached.                                                                *)
LEMMA EndIsClosest == IInv => EndsAsCloseAsPossible
<1> SUFFICES ASSUME IInv, Done PROVE EndsAsCloseAsPossible
  BY DEF EndsAsCloseAsPossible
<1>1. dest \in DOMAIN best /\ dest \in Reachable
  BY SeenIsReachable DEF IInv, PhaseInv, Done
<1>2. \A c \in Cells : c \in Int \X Int
  BY CellsAreFinite
<1>3. {src, goal, dest} \subseteq Cells /\ DOMAIN best \subseteq Cells
  BY SeenAreFinite DEF IInv, TypeOK
<1>4. CASE phase = "found"
  <2>1. Reachable \subseteq Cells
    <3>1. PICK w : /\ Reachable = w[Width * Height] /\ w[0] = {src}
                   /\ \A n \in 0 .. Width * Height - 1 : w[n + 1] = Grow(w[n])
      BY ReachableGrows DEF IInv
    <3> DEFINE N == Width * Height
               T == {n \in Nat : n <= N => w[n] \subseteq Cells}
    <3>2. N \in Nat
      BY CellsAreFinite
    <3>3. \A cells : cells \subseteq Cells => Grow(cells) \subseteq Cells
      BY DEF Grow, IInv, TypeOK
    <3>4. \A n \in 0 .. N - 1 : w[n + 1] = Grow(w[n])
      BY <3>1
    <3> HIDE DEF N
    <3>5. 0 \in T
      BY <1>3, <3>1
    <3>6. ASSUME NEW n \in Nat, n \in T PROVE n + 1 \in T
      BY <3>2, <3>3, <3>4, <3>6
    <3>7. N \in T
      <4> HIDE DEF T
      <4> QED BY <3>2, <3>5, <3>6, SetInduction
    <3> QED BY <3>1, <3>2, <3>7 DEF N
  <2>2. dest = goal /\ dest = src
    BY <1>4 DEF IInv, PhaseInv
  <2>3. ASSUME NEW c \in Reachable
        PROVE  \/ Dist(dest, goal) < Dist(c, goal)
               \/ Dist(dest, goal) = Dist(c, goal) /\ Dist(dest, src) <= Dist(c, src)
    <3>1. c \in Int \X Int /\ dest \in Int \X Int
      BY <1>2, <1>3, <2>1
    <3>2. Dist(c, dest) \in Nat /\ Dist(dest, dest) = 0
      BY <3>1, DistIsMetric
    <3> QED BY <2>2, <3>2
  <2> QED BY <1>1, <2>3 DEF EndsAsCloseAsPossible
<1>5. CASE phase = "fallback"
  <2>1. ASSUME NEW c \in Reachable
        PROVE  \/ Dist(dest, goal) < Dist(c, goal)
               \/ Dist(dest, goal) = Dist(c, goal) /\ Dist(dest, src) <= Dist(c, src)
    <3>1. c \in DOMAIN best
      BY <1>5, ReachableIsSeen
    <3>2. /\ c \in Int \X Int /\ dest \in Int \X Int /\ goal \in Int \X Int /\ src \in Int \X Int
          /\ best[c] = Dist(goal, c) /\ best[dest] = Dist(goal, dest)
      BY <1>1, <1>2, <1>3, <3>1 DEF IInv, TypeOK
    <3>3. /\ best[c] = Dist(c, goal) /\ best[dest] = Dist(dest, goal)
          /\ Dist(c, goal) \in Nat /\ Dist(dest, goal) \in Nat
          /\ Dist(c, src) \in Nat /\ Dist(dest, src) \in Nat
      BY <3>2, DistIsMetric
    <3>4. CASE c = dest
      BY <3>3, <3>4
    <3>5. CASE c # dest
      <4>1. Better(dest, c)
        BY <1>5, <3>1, <3>5 DEF IInv, PhaseInv
      <4> QED BY <3>3, <4>1 DEF Better
    <3> QED BY <3>4, <3>5
  <2> QED BY <1>1, <2>1 DEF EndsAsCloseAsPossible
<1> QED BY <1>4, <1>5 DEF Done

(* On every map and for every range, the path ends as close to the goal as *)
(* one can come within the range, and of all such cells at one at the least*)
(* distance from the start.                                                *)
THEOREM PathsEndClosest == Spec => []EndsAsCloseAsPossible
BY Invariant, EndIsClosest, PTL

-----------------------------------------------------------------------------
(* The end of the search                                                   *)

(* The loop goes on, or ends with a cell to fall back to.                  *)
GoesOn ==
  \/ Top # {}
  \/ pq = {} /\ \E c \in DOMAIN best : \A x \in DOMAIN best : x # c => Better(c, x)

NeverStalls == phase = "search" => GoesOn

(* The cells that have been taken off the queue.                           *)
Expanded == DOMAIN best \ pq

(* A step of the search ends it or takes a cell off the queue that had not *)
(* been taken before; there are only so many cells.                        *)
Progress ==
  /\ phase = "search"
  /\ \/ phase' # "search"
     \/ Cardinality(Expanded) < Cardinality(Expanded') /\ Cardinality(Expanded') <= Width * Height

(* Some element of a set has the least value of any measure.               *)
LEMMA LeastElement ==
  ASSUME NEW S, S # {}, NEW m, \A c \in S : m[c] \in Nat
  PROVE  \E c \in S : \A x \in S : m[c] <= m[x]
<1> DEFINE T == {m[c] : c \in S}
<1>1. T \in SUBSET Nat /\ T # {}
  OBVIOUS
<1>2. PICK n \in T : \A k \in T : n <= k
  <2> HIDE DEF T
  <2> QED BY <1>1, LeastNumber
<1> QED BY <1>2

(* Of cells that have been seen, one is better than all others.            *)
LEMMA SomeIsBest ==
  ASSUME TypeOK
  PROVE  DOMAIN best # {} =>
           \E c \in DOMAIN best : \A x \in DOMAIN best : x # c => Better(c, x)
<1> SUFFICES ASSUME DOMAIN best # {}
             PROVE  \E c \in DOMAIN best : \A x \in DOMAIN best : x # c => Better(c, x)
  OBVIOUS
<1>1. \A c \in DOMAIN best :
        /\ best[c] \in Nat /\ Dist(c, src) \in Nat /\ c[1] \in Nat /\ c[2] \in Nat
        /\ c = <<c[1], c[2]>>
  <2>1. src \in Int \X Int /\ goal \in Int \X Int
    BY CellsAreFinite DEF TypeOK
  <2>2. DOMAIN best \subseteq Cells
    BY SeenAreFinite
  <2> SUFFICES ASSUME NEW c \in DOMAIN best
               PROVE  /\ best[c] \in Nat /\ Dist(c, src) \in Nat /\ c[1] \in Nat /\ c[2] \in Nat
                      /\ c = <<c[1], c[2]>>
    OBVIOUS
  <2>3. c \in Cells /\ c \in Int \X Int /\ best[c] = Dist(goal, c)
    BY <2>2, CellsAreFinite DEF TypeOK
  <2>4. c[1] \in 0 .. Width - 1 /\ c[2] \in 0 .. Height - 1 /\ c = <<c[1], c[2]>>
    BY <2>3 DEF Cells
  <2> QED BY <2>1, <2>3, <2>4, DistIsMetric
<1> DEFINE A == {c \in DOMAIN best : \A x \in DOMAIN best : best[c] <= best[x]}
           far == [c \in DOMAIN best |-> Dist(c, src)]
           B == {c \in A : \A x \in A : far[c] <= far[x]}
           col == [c \in DOMAIN best |-> c[1]]
           C == {c \in B : \A x \in B : col[c] <= col[x]}
           row == [c \in DOMAIN best |-> c[2]]
<1>2. A # {} /\ A \subseteq DOMAIN best
  <2>1. \E c \in DOMAIN best : \A x \in DOMAIN best : best[c] <= best[x]
    BY <1>1, LeastElement
  <2> QED BY <2>1
<1>3. B # {} /\ B \subseteq A
  <2> HIDE DEF A
  <2>1. \A c \in A : far[c] \in Nat BY <1>1, <1>2
  <2> HIDE DEF far
  <2>2. \E c \in A : \A x \in A : far[c] <= far[x] BY <1>2, <2>1, LeastElement
  <2> QED BY <2>2
<1>4. C # {} /\ C \subseteq B
  <2> HIDE DEF A, B
  <2>1. \A c \in B : col[c] \in Nat BY <1>1, <1>2, <1>3
  <2> HIDE DEF col
  <2>2. \E c \in B : \A x \in B : col[c] <= col[x] BY <1>3, <2>1, LeastElement
  <2> QED BY <2>2
<1>5. PICK c \in C : \A x \in C : row[c] <= row[x]
  <2> HIDE DEF A, B, C
  <2>1. \A c \in C : row[c] \in Nat BY <1>1, <1>2, <1>3, <1>4
  <2> HIDE DEF row
  <2> QED BY <1>4, <2>1, LeastElement
<1>6. c \in A /\ c \in B /\ c \in DOMAIN best
  BY <1>2, <1>3, <1>4, <1>5
<1>7. ASSUME NEW x \in DOMAIN best, x # c PROVE Better(c, x)
  <2>1. CASE x \notin A
    <3>1. PICK y \in DOMAIN best : ~(best[x] <= best[y]) BY <2>1
    <3>2. best[c] <= best[y] BY <1>6
    <3> QED BY <1>1, <1>6, <3>1, <3>2 DEF Better
  <2>2. CASE x \in A \ B
    <3>1. best[c] = best[x] BY <1>1, <1>6, <2>2
    <3>2. PICK y \in A : ~(far[x] <= far[y]) BY <2>2
    <3>3. far[c] <= far[y] BY <1>6, <3>2
    <3>4. far[c] = Dist(c, src) /\ far[x] = Dist(x, src) /\ far[y] = Dist(y, src)
      BY <1>2, <1>6, <3>2
    <3> QED BY <1>1, <1>2, <1>6, <3>1, <3>2, <3>3, <3>4 DEF Better
  <2>3. CASE x \in B
    <3>1. x \in A BY <1>3, <2>3
    <3>2. best[c] = best[x] BY <1>1, <1>6, <3>1
    <3>3. Dist(c, src) = Dist(x, src)
      <4>1. far[c] <= far[x] /\ far[x] <= far[c] BY <1>6, <2>3, <3>1
      <4>2. far[c] = Dist(c, src) /\ far[x] = Dist(x, src) BY <1>6
      <4> QED BY <1>1, <1>6, <4>1, <4>2
    <3>4. c[1] <= x[1]
      <4>1. col[c] <= col[x] BY <1>5, <2>3
      <4> QED BY <1>6, <4>1
    <3>5. c[1] = x[1] => c[2] < x[2]
      <4>1. ASSUME c[1] = x[1] PROVE x \in C
        <5>1. \A y \in B : col[c] <= col[y] BY <1>5
        <5>2. col[c] = col[x] BY <1>6, <4>1
        <5> QED BY <2>3, <5>1, <5>2
      <4>2. ASSUME c[1] = x[1] PROVE c[2] <= x[2]
        <5>1. row[c] <= row[x] BY <1>5, <4>1, <4>2
        <5> QED BY <1>6, <5>1
      <4>3. c[1] = x[1] => c[2] # x[2] BY <1>1, <1>6, <1>7
      <4> QED BY <1>1, <1>6, <4>2, <4>3
    <3> HIDE DEF A, B, C
    <3> QED BY <1>1, <1>6, <3>2, <3>3, <3>4, <3>5 DEF Better, Before
  <2> QED BY <2>1, <2>2, <2>3
<1> QED BY <1>6, <1>7

(* While a search runs there is always something it can do: the queue has  *)
(* a first cell, or the fallback has a best one (GameRoom.cpp, FindPath).  *)
THEOREM SearchNeverStalls == Spec => []NeverStalls
<1>1. IInv => NeverStalls
  <2> SUFFICES ASSUME IInv PROVE GoesOn
    BY DEF NeverStalls
  <2>1. CASE pq = {}
    BY <2>1, SomeIsBest DEF IInv, PhaseInv, GoesOn
  <2>2. CASE pq # {}
    <3>1. \A c \in pq : best[c] \in Nat
      <4> SUFFICES ASSUME NEW c \in pq PROVE best[c] \in Nat
        OBVIOUS
      <4>1. best[c] = Dist(goal, c) /\ c \in Cells /\ goal \in Cells
        BY SeenAreFinite DEF IInv, TypeOK
      <4> QED BY <4>1, CellsAreFinite, DistIsMetric
    <3>2. \E c \in pq : \A x \in pq : best[c] <= best[x]
      BY <2>2, <3>1, LeastElement
    <3> QED BY <3>2 DEF Top, GoesOn
  <2> QED BY <2>1, <2>2
<1> QED BY <1>1, Invariant, PTL

(* No cell is taken off the queue twice: a search is over after as many    *)
(* turns of its loop as the map has cells, and one more.                   *)
THEOREM NoCellIsExpandedTwice == Spec => [][Progress]_vars
<1>1. IInv /\ IInv' /\ [Next]_vars => [Progress]_vars
  <2> SUFFICES ASSUME IInv, IInv', Next PROVE Progress
    OBVIOUS
  <2>1. ASSUME phase = "search", NEW node \in Top, Visit(node) PROVE Progress
    <3>1. Expands(node) \cap DOMAIN best = {}
      BY <2>1, NewIsUnseen DEF IInv
    <3>2. node \in DOMAIN best /\ node \in pq
      BY <2>1 DEF Top, IInv, TypeOK
    <3>3. DOMAIN best' = DOMAIN best \cup Expands(node) /\ pq' = (pq \ {node}) \cup Expands(node)
      BY <2>1 DEF Visit
    <3>4. Expanded' = Expanded \cup {node} /\ node \notin Expanded
      BY <3>1, <3>2, <3>3 DEF Expanded, IInv, TypeOK
    <3>5. Expanded' \subseteq Cells /\ IsFiniteSet(Expanded)
      BY SeenAreFinite, FS_Subset, CellsAreFinite, <3>2, <3>4 DEF Expanded, IInv
    <3>6. Cardinality(Expanded') = Cardinality(Expanded) + 1 /\ Cardinality(Expanded) \in Nat
      BY <3>4, <3>5, FS_AddElement, FS_CardinalityType
    <3>7. Cardinality(Expanded') <= Width * Height
      BY <3>5, FS_Subset, CellsAreFinite
    <3> QED BY <2>1, <3>6, <3>7 DEF Progress
  <2>2. ASSUME phase = "search", phase' \in {"found", "fallback"} PROVE Progress
    BY <2>2 DEF Progress
  <2> QED BY <2>1, <2>2 DEF Next, Search, Fallback
<1> QED BY <1>1, Invariant, PTL DEF Spec
=============================================================================
