-------------------------- MODULE SchemeHeap_proofs --------------------------
(***************************************************************************)
(* Proofs about SchemeHeap, for every number and size of segments, of      *)
(* registers and of elements of a vector.  Inv is inductive; it has a part *)
(* for each phase.  Between collections the heap is Sound, and its free    *)
(* list ListOK.  While the marker runs, some C, K, n, s and lev describe   *)
(* its stack and the Chain of cells whose links it has turned around, and  *)
(* Colour says what it has still to follow.  Sweeping splits the heap at   *)
(* gc.scan.  A recursive function is reasoned about through its graph,     *)
(* and a fact for all numbers through the least one that violates it.      *)
(***************************************************************************)
EXTENDS SchemeHeap, FiniteSetTheorems, FunctionTheorems, WellFoundedInduction, TLAPS

USE RegAssumption, SizeAssumption

-----------------------------------------------------------------------------
(* The addresses.                                                          *)

\* They have a bound.
LEMMA CellsBelow == Cells \subseteq 0 .. Base(MaxSegs) + SegSize /\ Base(MaxSegs) + SegSize \in Nat
<1>1. Base(MaxSegs) \in Nat /\ \A k \in 0 .. MaxSegs - 1 : Base(k) \in Nat
  BY DEF Base
<1>2. \A k \in 0 .. MaxSegs - 1 : Base(k) <= Base(MaxSegs)
  <2>. SUFFICES ASSUME NEW k \in 0 .. MaxSegs - 1 PROVE Base(k) <= Base(MaxSegs)
    OBVIOUS
  <2>1. PICK d \in Nat : MaxSegs = k + d
    <3>1. MaxSegs - k \in Nat /\ MaxSegs = k + (MaxSegs - k)
      OBVIOUS
    <3>. QED
      BY <3>1
  <2>2. MaxSegs * (SegSize + 1) = k * (SegSize + 1) + d * (SegSize + 1)
    BY <2>1
  <2>3. d * (SegSize + 1) \in Nat /\ k * (SegSize + 1) \in Nat
    OBVIOUS
  <2>. QED
    BY <2>2, <2>3 DEF Base
<1>3. Cells \subseteq 0 .. Base(MaxSegs) + SegSize
  <2>. SUFFICES ASSUME NEW k \in 0 .. MaxSegs - 1, NEW c \in CellsOf(k)
                PROVE  c \in 0 .. Base(MaxSegs) + SegSize
    BY DEF Cells
  <2>1. Base(k) \in Nat /\ Base(MaxSegs) \in Nat /\ Base(k) <= Base(MaxSegs)
    BY <1>1, <1>2
  <2>. HIDE DEF Base
  <2>. QED
    BY <2>1 DEF CellsOf
<1>. HIDE DEF Base
<1>. QED
  BY <1>1, <1>3

\* The cells are finitely many numbers, none of them NIL.
LEMMA CellsAre ==
    /\ Cells \subseteq Nat \ {0} /\ IsFiniteSet(Cells) /\ Cardinality(Cells) \in Nat
    /\ \A k \in 0 .. MaxSegs - 1 : Base(k) \in Nat \ {0} /\ CellsOf(k) \subseteq Cells
<1>1. ASSUME NEW k \in 0 .. MaxSegs - 1
      PROVE  Base(k) \in Nat \ {0} /\ CellsOf(k) \subseteq Nat \ {0} /\ IsFiniteSet(CellsOf(k))
  <2>1. Base(k) \in Nat \ {0}
    BY DEF Base
  <2>. HIDE DEF Base
  <2>2. Base(k) \in Int /\ Base(k) + SegSize - 1 \in Int
    BY <2>1
  <2>3. IsFiniteSet(Base(k) .. Base(k) + SegSize - 1)
    BY <2>2, FS_Interval
  <2>. QED
    BY <2>1, <2>3 DEF CellsOf
<1>2. IsFiniteSet(Cells)
  <2>. DEFINE top == Base(MaxSegs) + SegSize
  <2>1. top \in Int
    BY DEF Base
  <2>2. Cells \subseteq 0 .. top
    BY CellsBelow
  <2>. HIDE DEF top
  <2>3. IsFiniteSet(0 .. top)
    BY <2>1, FS_Interval
  <2>. QED
    BY <2>2, <2>3, FS_Subset
<1>. QED
  BY <1>1, <1>2, FS_CardinalityType DEF Cells

\* The segments do not touch.
LEMMA SegmentsApart ==
    ASSUME NEW k \in 0 .. MaxSegs - 1, NEW l \in 0 .. MaxSegs - 1, NEW c \in CellsOf(l), l # k
    PROVE  c + 1 < Base(k) \/ Base(k) + SegSize < c
<1>1. \A i, j \in Nat : i < j => Base(i) + SegSize < Base(j)
  <2>. SUFFICES ASSUME NEW i \in Nat, NEW j \in Nat, i < j PROVE Base(i) + SegSize < Base(j)
    OBVIOUS
  <2>1. PICK d \in Nat : j = i + 1 + d
    <3>1. j - i - 1 \in Nat /\ j = i + 1 + (j - i - 1)
      OBVIOUS
    <3>. QED
      BY <3>1
  <2>2. j * (SegSize + 1) = i * (SegSize + 1) + (SegSize + 1) + d * (SegSize + 1)
    BY <2>1
  <2>3. d * (SegSize + 1) \in Nat /\ i * (SegSize + 1) \in Nat
    OBVIOUS
  <2>. QED
    BY <2>2, <2>3 DEF Base
<1>2. Base(k) \in Nat /\ Base(l) \in Nat /\ c \in Base(l) .. Base(l) + SegSize - 1
  BY DEF Base, CellsOf
<1>3. CASE l < k
  BY <1>1, <1>2, <1>3
<1>4. CASE k < l
  BY <1>1, <1>2, <1>4
<1>. QED
  BY <1>3, <1>4

-----------------------------------------------------------------------------
(* Following a list.                                                       *)

\* A set of numbers has a least one; one below a bound has a greatest.
LEMMA Least ==
    ASSUME NEW T, T \subseteq Nat, T # {}
    PROVE  \E m \in T : \A k \in T : m <= k
<1>. DEFINE W == {S \in SUBSET Nat : \E k \in T : S = 0 .. k}
<1>1. W \subseteq FiniteSubsetsOf(Nat)
  <2>1. ASSUME NEW S \in W PROVE IsFiniteSet(S) /\ S \subseteq Nat
    <3>1. PICK k \in T : S = 0 .. k
      OBVIOUS
    <3>2. IsFiniteSet(0 .. k)
      BY FS_Interval
    <3>. QED
      BY <3>1, <3>2
  <2>. HIDE DEF W
  <2>. QED
    BY <2>1 DEF FiniteSubsetsOf
<1>2. W # {}
  <2>1. PICK k \in T : TRUE
    OBVIOUS
  <2>2. 0 .. k \in W
    BY <2>1
  <2>. QED
    BY <2>2
<1>3. PICK S \in W : \A R \in W : <<R, S>> \notin StrictSubsetOrdering(Nat)
  <2>. HIDE DEF W
  <2>. QED
    BY <1>1, <1>2, FS_StrictSubsetOrderingWellFounded, WFMin
<1>4. PICK m \in T : S = 0 .. m
  OBVIOUS
<1>5. ASSUME NEW k \in T, ~ (m <= k) PROVE FALSE
  <2>1. 0 .. k \in W /\ 0 .. k \subseteq 0 .. m /\ 0 .. k # 0 .. m
    <3>1. k < m /\ m \in 0 .. m /\ m \notin 0 .. k
      BY <1>5
    <3>. QED
      BY <3>1
  <2>. QED
    BY <1>3, <1>4, <2>1 DEF StrictSubsetOrdering
<1>. QED
  BY <1>5

\* A set of numbers with a bound has a greatest one.
LEMMA Greatest ==
    ASSUME NEW T, T \subseteq Nat, T # {}, NEW n \in Nat, \A k \in T : k <= n
    PROVE  \E m \in T : \A k \in T : k <= m
<1>. DEFINE U == {j \in Nat : \E k \in T : j + k = n}
<1>1. \A k \in T : \E j \in U : j + k = n
  <2>. SUFFICES ASSUME NEW k \in T PROVE \E j \in U : j + k = n
    OBVIOUS
  <2>1. n - k \in Nat /\ (n - k) + k = n
    OBVIOUS
  <2>. QED
    BY <2>1
<1>2. U \subseteq Nat /\ U # {}
  BY <1>1
<1>3. PICK j \in U : \A i \in U : j <= i
  <2>. HIDE DEF U
  <2>. QED
    BY <1>2, Least
<1>4. PICK m \in T : j + m = n
  OBVIOUS
<1>5. ASSUME NEW k \in T PROVE k <= m
  <2>1. PICK i \in U : i + k = n
    BY <1>1
  <2>. QED
    BY <1>3, <1>4, <2>1
<1>. QED
  BY <1>5

\* What the recursive function in Follow is.
Walk(f, c, k) == f = [i \in 0 .. k |-> IF i = 0 THEN c
                                       ELSE IF f[i - 1] = Nil THEN Nil ELSE cell[f[i - 1]].cdr]

\* There is one: Follow is not an empty choice.
LEMMA WalkExists ==
    ASSUME NEW c, NEW n \in Nat
    PROVE  \E f : Walk(f, c, n)
<1>. DEFINE T == {k \in Nat : ~ \E f : Walk(f, c, k)}
<1>. SUFFICES ASSUME T # {} PROVE FALSE
  OBVIOUS
<1>1. PICK m \in T : \A k \in T : m <= k
  <2>1. T \subseteq Nat
    OBVIOUS
  <2>. HIDE DEF T
  <2>. QED
    BY <2>1, Least
<1>2. m # 0
  <2>1. Walk([i \in 0 .. 0 |-> c], c, 0)
    BY DEF Walk
  <2>. QED
    BY <2>1
<1>3. PICK f : Walk(f, c, m - 1)
  <2>1. m - 1 \in Nat /\ ~ (m <= m - 1)
    BY <1>2
  <2>. QED
    BY <1>1, <2>1
<1>4. \A i \in 0 .. m - 1 : f[i] = IF i = 0 THEN c ELSE IF f[i - 1] = Nil THEN Nil ELSE cell[f[i - 1]].cdr
  BY <1>3, Zenon DEF Walk
<1>. DEFINE g == [i \in 0 .. m |-> IF i < m THEN f[i]
                                   ELSE IF f[m - 1] = Nil THEN Nil ELSE cell[f[m - 1]].cdr]
<1>5. ASSUME NEW i \in 0 .. m
      PROVE  g[i] = IF i = 0 THEN c ELSE IF g[i - 1] = Nil THEN Nil ELSE cell[g[i - 1]].cdr
  <2>1. CASE i = 0
    BY <1>2, <1>4, <2>1
  <2>2. CASE i # 0
    <3>1. i - 1 \in 0 .. m /\ i - 1 < m /\ g[i - 1] = f[i - 1]
      BY <2>2
    <3>. QED
      BY <1>4, <2>2, <3>1
  <2>. QED
    BY <2>1, <2>2
<1>6. Walk(g, c, m)
  <2>1. g = [i \in 0 .. m |-> g[i]]
    OBVIOUS
  <2>. HIDE DEF g
  <2>. QED
    BY <1>5, <2>1 DEF Walk
<1>. QED
  BY <1>6

\* Two of them agree as far as both go.
LEMMA WalkUnique ==
    ASSUME NEW c, NEW k \in Nat, NEW l \in Nat, NEW f, NEW g, Walk(f, c, k), Walk(g, c, l)
    PROVE  \A j \in Nat : j <= k /\ j <= l => f[j] = g[j]
<1>. DEFINE T == {j \in Nat : j <= k /\ j <= l /\ f[j] # g[j]}
<1>. SUFFICES ASSUME T # {} PROVE FALSE
  OBVIOUS
<1>1. PICK m \in T : \A j \in T : m <= j
  <2>1. T \subseteq Nat
    OBVIOUS
  <2>. HIDE DEF T
  <2>. QED
    BY <2>1, Least
<1>2. /\ \A i \in 0 .. k : f[i] = IF i = 0 THEN c ELSE IF f[i - 1] = Nil THEN Nil ELSE cell[f[i - 1]].cdr
      /\ \A i \in 0 .. l : g[i] = IF i = 0 THEN c ELSE IF g[i - 1] = Nil THEN Nil ELSE cell[g[i - 1]].cdr
  BY Zenon DEF Walk
<1>3. m \in 0 .. k /\ m \in 0 .. l
  OBVIOUS
<1>4. CASE m = 0
  BY <1>2, <1>3, <1>4
<1>5. CASE m # 0
  <2>1. m - 1 \in Nat /\ ~ (m <= m - 1) /\ m - 1 <= k /\ m - 1 <= l
    BY <1>5
  <2>2. f[m - 1] = g[m - 1]
    BY <1>1, <2>1
  <2>. QED
    BY <1>2, <1>3, <1>5, <2>2
<1>. QED
  BY <1>4, <1>5

\* Follow goes along one.
LEMMA FollowWalks ==
    ASSUME NEW c, NEW k \in Nat
    PROVE  \E f : Walk(f, c, k) /\ Follow(c, k) = f[k]
<1>. DEFINE f == CHOOSE f : Walk(f, c, k)
<1>1. Walk(f, c, k)
  BY WalkExists
<1>2. Follow(c, k) = f[k]
  BY Zenon DEF Follow, Walk
<1>. QED
  BY <1>1, <1>2

\* A list is followed cell by cell.
LEMMA FollowNext ==
    ASSUME NEW c
    PROVE  /\ Follow(c, 0) = c
           /\ \A k, l \in Nat : l = k + 1 =>
                Follow(c, l) = IF Follow(c, k) = Nil THEN Nil ELSE cell[Follow(c, k)].cdr
<1>1. Follow(c, 0) = c
  <2>1. PICK f : Walk(f, c, 0) /\ Follow(c, 0) = f[0]
    BY FollowWalks
  <2>2. \A i \in 0 .. 0 : f[i] = IF i = 0 THEN c ELSE IF f[i - 1] = Nil THEN Nil ELSE cell[f[i - 1]].cdr
    BY <2>1, Zenon DEF Walk
  <2>. QED
    BY <2>1, <2>2
<1>2. ASSUME NEW k \in Nat, NEW l \in Nat, l = k + 1
      PROVE  Follow(c, l) = IF Follow(c, k) = Nil THEN Nil ELSE cell[Follow(c, k)].cdr
  <2>1. PICK f : Walk(f, c, l) /\ Follow(c, l) = f[l]
    BY FollowWalks
  <2>2. PICK g : Walk(g, c, k) /\ Follow(c, k) = g[k]
    BY FollowWalks
  <2>3. f[k] = g[k]
    <3>1. k <= l /\ k <= k
      BY <1>2
    <3>. QED
      BY <2>1, <2>2, <3>1, WalkUnique
  <2>4. \A i \in 0 .. l : f[i] = IF i = 0 THEN c ELSE IF f[i - 1] = Nil THEN Nil ELSE cell[f[i - 1]].cdr
    BY <2>1, Zenon DEF Walk
  <2>5. f[l] = IF f[k] = Nil THEN Nil ELSE cell[f[k]].cdr
    <3>1. l \in 0 .. l /\ l # 0 /\ l - 1 = k
      BY <1>2
    <3>. QED
      BY <2>4, <3>1
  <2>. QED
    BY <2>1, <2>2, <2>3, <2>5
<1>. QED
  BY <1>1, <1>2

-----------------------------------------------------------------------------
(* The free list.                                                          *)

\* d is the next address of F after c, or there is none.  The list h, fr of the cells
\* F, sorted, and their number.
NextIn(F, c, d) == \/ d = Nil /\ \A x \in F : x <= c
                   \/ d \in F /\ c < d /\ \A x \in F : c < x => d <= x
ListOK(F, h, fr, n) == /\ F \subseteq Cells /\ n = Cardinality(F)
                       /\ NextIn(F, 0, fr)
                       /\ \A c \in F : NextIn(F, c, h[c].cdr)

\* Following the list from one of its cells, one stays on it.
LEMMA FollowStays ==
    ASSUME NEW F, F \subseteq Cells, \A c \in F : NextIn(F, c, cell[c].cdr), NEW x \in F \union {Nil}
    PROVE  \A k \in Nat : Follow(x, k) \in F \union {Nil}
<1>. DEFINE T == {k \in Nat : Follow(x, k) \notin F \union {Nil}}
<1>. SUFFICES ASSUME T # {} PROVE FALSE
  OBVIOUS
<1>1. PICK m \in T : \A k \in T : m <= k
  <2>1. T \subseteq Nat
    OBVIOUS
  <2>. HIDE DEF T
  <2>. QED
    BY <2>1, Least
<1>2. m # 0
  BY FollowNext
<1>3. m - 1 \in Nat /\ ~ (m <= m - 1) /\ (m - 1) + 1 = m
  BY <1>2
<1>4. Follow(x, m - 1) \in F \union {Nil}
  BY <1>1, <1>3
<1>5. Follow(x, m) = IF Follow(x, m - 1) = Nil THEN Nil ELSE cell[Follow(x, m - 1)].cdr
  <2>1. m \in Nat /\ m = (m - 1) + 1
    BY <1>3
  <2>. QED
    BY <1>3, <2>1, FollowNext, ZenonT(60)
<1>6. \A c \in F : cell[c].cdr \in F \union {Nil}
  BY DEF NextIn
<1>. QED
  BY <1>4, <1>5, <1>6

\* A cell of the list comes after as many as have lower addresses.
LEMMA FollowRank ==
    ASSUME NEW F, NEW fr, NEW n, ListOK(F, cell, fr, n), NEW x \in F
    PROVE  \E k \in 0 .. Cardinality(Cells) : Follow(fr, k) = x
<1>. DEFINE Lower(y) == {z \in F : z < y}
            rank(y)  == Cardinality(Lower(y))
            T        == {y \in F : Follow(fr, rank(y)) # y}
<1>0. F \subseteq Nat /\ IsFiniteSet(F) /\ IsFiniteSet(Cells) /\ Cardinality(Cells) \in Nat
      /\ \A y \in F : y > 0
  <2>1. F \subseteq Cells /\ Cells \subseteq Nat \ {0} /\ IsFiniteSet(Cells) /\ Cardinality(Cells) \in Nat
    BY CellsAre DEF ListOK
  <2>2. IsFiniteSet(F)
    BY <2>1, FS_Subset
  <2>3. \A y \in F : y \in Nat /\ y > 0
    BY <2>1
  <2>. QED
    BY <2>1, <2>2, <2>3
<1>1. ASSUME NEW y \in F
      PROVE  IsFiniteSet(Lower(y)) /\ rank(y) \in 0 .. Cardinality(Cells)
  <2>1. Lower(y) \subseteq Cells
    BY DEF ListOK
  <2>2. IsFiniteSet(Lower(y)) /\ Cardinality(Lower(y)) <= Cardinality(Cells)
    BY <1>0, <2>1, FS_Subset
  <2>. QED
    BY <1>0, <2>2, FS_CardinalityType
<1>. SUFFICES ASSUME T # {} PROVE FALSE
  <2>1. Follow(fr, rank(x)) = x
    OBVIOUS
  <2>. QED
    BY <1>1, <2>1
<1>2. PICK m \in T : \A k \in T : m <= k
  <2>1. T \subseteq Nat
    BY <1>0
  <2>. HIDE DEF T
  <2>. QED
    BY <2>1, Least
<1>3. CASE Lower(m) = {}
  <2>1. fr = m
    <3>1. NextIn(F, 0, fr) /\ m \in F /\ \A z \in F : ~ (z < m)
      BY <1>3 DEF ListOK
    <3>2. fr \in F /\ fr <= m
      BY <1>0, <3>1 DEF NextIn
    <3>3. fr \in Nat /\ m \in Nat /\ ~ (fr < m)
      BY <1>0, <3>1, <3>2
    <3>. QED
      BY <3>2, <3>3
  <2>2. rank(m) = 0
    BY <1>3, FS_EmptySet
  <2>. QED
    BY <2>1, <2>2, FollowNext
<1>4. CASE Lower(m) # {}
  <2>1. PICK y \in Lower(m) : \A z \in Lower(m) : z <= y
    <3>1. m \in Nat /\ Lower(m) \subseteq Nat /\ \A z \in Lower(m) : z <= m
      <4>1. m \in F /\ F \subseteq Nat
        BY <1>0
      <4>2. ASSUME NEW z \in Lower(m) PROVE z \in Nat /\ z <= m
        <5>1. z \in F /\ z < m
          OBVIOUS
        <5>. QED
          BY <4>1, <5>1
      <4>. QED
        BY <4>1, <4>2
    <3>. HIDE DEF Lower
    <3>. QED
      BY <1>4, <3>1, Greatest
  <2>2. Lower(m) = Lower(y) \union {y} /\ y \notin Lower(y)
    <3>1. y \in F /\ m \in F /\ F \subseteq Nat /\ y < m
      BY <1>0, <2>1
    <3>2. ASSUME NEW z \in F PROVE z \in Lower(m) <=> z \in Lower(y) \/ z = y
      <4>1. z \in Nat /\ y \in Nat /\ m \in Nat /\ (z < m => z <= y)
        BY <2>1, <3>1
      <4>. QED
        BY <3>1, <4>1
    <3>3. y \notin Lower(y)
      BY <3>1
    <3>. QED
      BY <3>1, <3>2, <3>3
  <2>3. rank(m) = rank(y) + 1
    <3>1. IsFiniteSet(Lower(y))
      BY <1>1, <2>1
    <3>. HIDE DEF Lower
    <3>. QED
      BY <2>2, <3>1, FS_AddElement
  <2>4. y \in F /\ y < m /\ Follow(fr, rank(y)) = y
    <3>1. y \in F /\ y < m /\ ~ (m <= y)
      BY <1>0, <2>1
    <3>. QED
      BY <1>2, <3>1
  <2>5. cell[y].cdr = m
    <3>1. NextIn(F, y, cell[y].cdr)
      BY <2>4 DEF ListOK
    <3>2. \A z \in F : z \in Nat /\ (y < z => m <= z)
      BY <1>0, <2>1
    <3>3. m \in F /\ y \in Nat /\ m \in Nat
      BY <1>0, <2>4
    <3>4. cell[y].cdr \in F /\ cell[y].cdr <= m /\ y < cell[y].cdr
      BY <2>4, <3>1, <3>2, <3>3 DEF NextIn
    <3>5. m <= cell[y].cdr /\ cell[y].cdr \in Nat
      BY <3>2, <3>4
    <3>. QED
      BY <3>3, <3>4, <3>5
  <2>6. Follow(fr, rank(m)) = cell[y].cdr
    <3>1. rank(y) \in Nat /\ rank(m) \in Nat /\ y # Nil
      BY <1>0, <1>1, <2>3, <2>4 DEF Nil
    <3>. HIDE DEF rank
    <3>. QED
      BY <2>3, <2>4, <3>1, FollowNext
  <2>. QED
    BY <2>5, <2>6
<1>. QED
  BY <1>3, <1>4

\* On a list in order, FreeList finds exactly the cells of the list.
LEMMA FreeListIs ==
    ASSUME NEW F, NEW n, ListOK(F, cell, free_cell, n)
    PROVE  FreeList = F
<1>1. Nil \notin F
  BY CellsAre DEF ListOK, Nil
<1>2. ASSUME NEW x \in F PROVE x \in FreeList
  <2>1. PICK k \in 0 .. Cardinality(Cells) : Follow(free_cell, k) = x
    BY FollowRank
  <2>. QED
    BY <1>1, <2>1 DEF FreeList
<1>3. ASSUME NEW x \in FreeList PROVE x \in F
  <2>1. PICK k \in 0 .. Cardinality(Cells) : Follow(free_cell, k) = x
    BY DEF FreeList
  <2>2. k \in Nat /\ x # Nil
    BY CellsAre DEF FreeList
  <2>3. free_cell \in F \union {Nil} /\ F \subseteq Cells /\ \A c \in F : NextIn(F, c, cell[c].cdr)
    BY DEF ListOK, NextIn
  <2>4. Follow(free_cell, k) \in F \union {Nil}
    BY <2>2, <2>3, FollowStays
  <2>. QED
    BY <2>1, <2>2, <2>4
<1>. QED
  BY <1>2, <1>3

\* find_consecutive_cells takes one of the rows.
LEMMA EarliestIs ==
    ASSUME NEW F, NEW n, ListOK(F, cell, free_cell, n), NEW S \in SUBSET F, S # {}
    PROVE  Earliest(S) \in S
<1>. DEFINE C == Cardinality(Cells)
            T == {k \in 0 .. C : Follow(free_cell, k) \in S}
<1>0. C \in Nat
  BY CellsAre
<1>1. T \subseteq Nat /\ T # {}
  <2>1. PICK x \in S : TRUE
    OBVIOUS
  <2>2. PICK k \in 0 .. C : Follow(free_cell, k) = x
    BY FollowRank
  <2>. QED
    BY <1>0, <2>1, <2>2
<1>2. PICK m \in T : \A k \in T : m <= k
  <2>. HIDE DEF T
  <2>. QED
    BY <1>1, Least
<1>3. \A i \in 0 .. m - 1 : Follow(free_cell, i) \notin S
  <2>. SUFFICES ASSUME NEW i \in 0 .. m - 1, Follow(free_cell, i) \in S PROVE FALSE
    OBVIOUS
  <2>1. i \in 0 .. C /\ ~ (m <= i)
    BY <1>0
  <2>. QED
    BY <1>2, <2>1
<1>4. \E x \in S : \E k \in 0 .. C : Follow(free_cell, k) = x
                   /\ \A i \in 0 .. k - 1 : Follow(free_cell, i) \notin S
  BY <1>3
<1>. QED
  BY <1>4 DEF Earliest

\* A row is a part of the list.
LEMMA RowIs ==
    ASSUME NEW F, NEW m, ListOK(F, cell, free_cell, m), NEW n \in Nat \ {0}, NEW x \in Rows(n)
    PROVE  /\ x \in F /\ \A j \in 0 .. n - 1 : x + j \in F
           /\ Follow(x, n) = cell[x + n - 1].cdr
<1>1. FreeList = F /\ F \subseteq Nat \ {0} /\ \A c \in F : NextIn(F, c, cell[c].cdr)
  BY FreeListIs, CellsAre DEF ListOK
<1>2. x \in F /\ \A j \in 0 .. n - 1 : Follow(x, j) = x + j
  BY <1>1 DEF Rows
<1>3. ASSUME NEW j \in 0 .. n - 1 PROVE x + j \in F
  <2>1. Follow(x, j) \in F \union {Nil}
    <3>1. F \subseteq Cells /\ j \in Nat /\ x \in F \union {Nil}
      BY <1>2 DEF ListOK
    <3>. QED
      BY <1>1, <3>1, FollowStays
  <2>. QED
    BY <1>1, <1>2, <2>1 DEF Nil
<1>4. Follow(x, n) = cell[x + n - 1].cdr
  <2>1. n - 1 \in Nat /\ n - 1 \in 0 .. n - 1 /\ (n - 1) + 1 = n /\ x + (n - 1) = x + n - 1
    BY <1>1, <1>2
  <2>2. Follow(x, n - 1) = x + n - 1 /\ x + n - 1 # Nil
    BY <1>1, <1>2, <2>1 DEF Nil
  <2>3. Follow(x, n) = IF Follow(x, n - 1) = Nil THEN Nil ELSE cell[Follow(x, n - 1)].cdr
    BY <2>1, FollowNext, ZenonT(60)
  <2>. QED
    BY <2>2, <2>3
<1>. QED
  BY <1>2, <1>3, <1>4

\* A row is taken off.
Bypass(d, x, rest) == IF d = x THEN rest ELSE d

\* What is left is the list of the other cells, n fewer.
LEMMA ListWithout ==
    ASSUME NEW F, NEW h, NEW g, NEW fr, NEW m, ListOK(F, h, fr, m),
           NEW n \in Nat \ {0}, NEW x \in F, \A j \in 0 .. n - 1 : x + j \in F,
           NEW rest, rest = h[x + n - 1].cdr,
           \A c \in F \ (x .. x + n - 1) : g[c].cdr = Bypass(h[c].cdr, x, rest)
    PROVE  ListOK(F \ (x .. x + n - 1), g, Bypass(fr, x, rest), m - n)
<1>. DEFINE R == x .. x + n - 1  G == F \ R
<1>1. F \subseteq Nat \ {0} /\ IsFiniteSet(F) /\ n \in Nat /\ n > 0 /\ x \in Nat
  <2>1. F \subseteq Cells /\ Cells \subseteq Nat \ {0} /\ IsFiniteSet(Cells)
    BY CellsAre DEF ListOK
  <2>2. IsFiniteSet(F)
    BY <2>1, FS_Subset
  <2>. QED
    BY <2>1, <2>2
<1>2. R \subseteq F /\ x + n - 1 \in F /\ x + n - 1 \in Nat
  <2>1. ASSUME NEW c \in R PROVE c \in F
    <3>1. c - x \in 0 .. n - 1 /\ x + (c - x) = c
      BY <1>1
    <3>. QED
      BY <3>1
  <2>2. x + n - 1 \in R
    BY <1>1
  <2>. QED
    BY <1>1, <2>1, <2>2
<1>3. m - n = Cardinality(G) /\ G \subseteq Cells
  <2>1. Cardinality(R) = n /\ IsFiniteSet(R)
    <3>1. x \in Int /\ x + n - 1 \in Int /\ ~ (x > x + n - 1) /\ (x + n - 1) - x + 1 = n
      BY <1>1
    <3>. QED
      BY <3>1, FS_Interval
  <2>2. IsFiniteSet(G) /\ Cardinality(G) \in Nat
    BY <1>1, FS_Subset, FS_CardinalityType
  <2>3. R \union G = F /\ R \intersect G = {}
    BY <1>2
  <2>. HIDE DEF R, G
  <2>4. Cardinality(R \union G) = Cardinality(R) + Cardinality(G) - Cardinality(R \intersect G)
    BY <2>1, <2>2, FS_Union
  <2>5. Cardinality(F) = n + Cardinality(G)
    <3>1. Cardinality(R \intersect G) = 0
      BY <2>3, FS_EmptySet
    <3>2. Cardinality(F) = Cardinality(R) + Cardinality(G) - Cardinality(R \intersect G)
      BY <2>3, <2>4
    <3>. QED
      BY <1>1, <2>1, <2>2, <3>1, <3>2
  <2>6. m = Cardinality(F) /\ F \subseteq Cells
    BY DEF ListOK
  <2>7. m - n = Cardinality(G)
    BY <1>1, <2>2, <2>5, <2>6
  <2>8. G \subseteq F
    BY DEF G
  <2>. QED
    BY <2>6, <2>7, <2>8
<1>4. NextIn(F, x + n - 1, rest)
  BY <1>2 DEF ListOK
<1>5. ASSUME NEW c \in G \union {0}, NEW d, NextIn(F, c, d)
      PROVE  NextIn(G, c, Bypass(d, x, rest))
  <2>0. c \in Nat /\ c \notin R
    BY <1>1
  <2>1. CASE d = x
    <3>1. c < x /\ \A z \in F : z \in Nat /\ (c < z => x <= z)
      BY <1>1, <1>5, <2>0, <2>1 DEF NextIn, Nil
    <3>2. \A z \in G : z \in Nat /\ (c < z => x + n - 1 < z)
      BY <1>1, <3>1
    <3>3. CASE rest = Nil
      <4>1. \A z \in F : z <= x + n - 1
        BY <1>1, <1>4, <3>3 DEF NextIn, Nil
      <4>2. \A z \in G : z <= c
        BY <1>1, <2>0, <3>2, <4>1
      <4>. QED
        BY <2>1, <3>3, <4>2 DEF NextIn, Bypass
    <3>4. CASE rest # Nil
      <4>1. rest \in F /\ x + n - 1 < rest /\ \A z \in F : x + n - 1 < z => rest <= z
        BY <1>4, <3>4 DEF NextIn
      <4>2. rest \in Nat /\ rest \notin R /\ c < rest
        <5>1. rest \in Nat /\ rest \notin R
          BY <1>1, <4>1
        <5>2. x < rest
          BY <1>1, <4>1, <5>1
        <5>. QED
          BY <1>1, <2>0, <3>1, <5>1, <5>2
      <4>3. \A z \in G : c < z => rest <= z
        BY <3>2, <4>1
      <4>. QED
        BY <2>1, <4>1, <4>2, <4>3 DEF NextIn, Bypass
    <3>. QED
      BY <3>3, <3>4
  <2>2. CASE d # x /\ d = Nil
    <3>1. \A z \in F : z <= c
      BY <1>1, <1>5, <2>2 DEF NextIn, Nil
    <3>. QED
      BY <2>2, <3>1 DEF NextIn, Bypass
  <2>3. CASE d # x /\ d # Nil
    <3>1. d \in F /\ c < d /\ \A z \in F : c < z => d <= z
      BY <1>5, <2>3 DEF NextIn
    <3>2. d \notin R
      <4>. SUFFICES ASSUME d \in R PROVE FALSE
        OBVIOUS
      <4>1. d \in Nat /\ x < d /\ d - 1 \in R
        BY <1>1, <2>3
      <4>2. d - 1 \in F /\ ~ (d <= d - 1)
        BY <1>2, <4>1
      <4>3. d - 1 \in Nat /\ ~ (c < d - 1)
        BY <1>1, <3>1, <4>2
      <4>4. c = d - 1
        BY <2>0, <3>1, <4>1, <4>3
      <4>. QED
        BY <2>0, <4>1, <4>4
    <3>. QED
      BY <2>3, <3>1, <3>2 DEF NextIn, Bypass
  <2>. QED
    BY <2>1, <2>2, <2>3
<1>6. NextIn(G, 0, Bypass(fr, x, rest))
  BY <1>5 DEF ListOK
<1>7. ASSUME NEW c \in G PROVE NextIn(G, c, g[c].cdr)
  <2>1. NextIn(F, c, h[c].cdr) /\ g[c].cdr = Bypass(h[c].cdr, x, rest)
    BY DEF ListOK
  <2>2. NextIn(G, c, Bypass(h[c].cdr, x, rest))
    BY <1>5, <2>1
  <2>. QED
    BY <2>1, <2>2
<1>. HIDE DEF G
<1>8. ListOK(G, g, Bypass(fr, x, rest), m - n)
  BY <1>3, <1>6, <1>7 DEF ListOK
<1>. QED
  BY <1>8 DEF G

\* The first cell is taken off.
LEMMA ListTail ==
    ASSUME NEW F, NEW h, NEW g, NEW fr, NEW m, ListOK(F, h, fr, m), fr # Nil,
           \A c \in F \ {fr} : g[c].cdr = h[c].cdr
    PROVE  fr \in F /\ ListOK(F \ {fr}, g, h[fr].cdr, m - 1)
<1>1. fr \in F /\ fr \in Nat /\ \A z \in F : z \in Nat /\ fr <= z
  <2>1. F \subseteq Nat \ {0} /\ NextIn(F, 0, fr)
    BY CellsAre DEF ListOK
  <2>2. fr \in F /\ \A z \in F : 0 < z => fr <= z
    BY <2>1 DEF NextIn
  <2>3. \A z \in F : z \in Nat /\ 0 < z
    BY <2>1
  <2>. QED
    BY <2>2, <2>3
<1>2. \A c \in F : h[c].cdr # fr
  <2>1. \A c \in F : NextIn(F, c, h[c].cdr)
    BY DEF ListOK
  <2>2. ASSUME NEW c \in F, h[c].cdr = fr PROVE FALSE
    <3>1. c < fr
      BY <1>1, <2>1, <2>2 DEF NextIn
    <3>2. c \in Nat /\ fr <= c
      BY <1>1
    <3>. QED
      BY <1>1, <3>1, <3>2
  <2>. QED
    BY <2>2
<1>3. fr .. fr + 1 - 1 = {fr} /\ fr + 1 - 1 = fr /\ 1 \in Nat \ {0}
  BY <1>1
<1>4. \A j \in 0 .. 1 - 1 : fr + j \in F
  BY <1>1
<1>. DEFINE rest == h[fr].cdr
<1>5. \A c \in F \ (fr .. fr + 1 - 1) : g[c].cdr = IF h[c].cdr = fr THEN rest ELSE h[c].cdr
  BY <1>2, <1>3
<1>6. rest = h[fr + 1 - 1].cdr
  BY <1>3
<1>. HIDE DEF rest
<1>. DEFINE one == 1
<1>7. one \in Nat \ {0} /\ (\A j \in 0 .. one - 1 : fr + j \in F) /\ rest = h[fr + one - 1].cdr
      /\ \A c \in F \ (fr .. fr + one - 1) : g[c].cdr = IF h[c].cdr = fr THEN rest ELSE h[c].cdr
  BY <1>3, <1>4, <1>5, <1>6
<1>8. fr .. fr + one - 1 = {fr} /\ m - one = m - 1
  BY <1>3
<1>. HIDE DEF one
<1>9. ListOK(F \ (fr .. fr + one - 1), g, IF fr = fr THEN rest ELSE fr, m - one)
  <2>1. \A c \in F \ (fr .. fr + one - 1) : g[c].cdr = Bypass(h[c].cdr, fr, rest)
    BY <1>7 DEF Bypass
  <2>2. ListOK(F \ (fr .. fr + one - 1), g, Bypass(fr, fr, rest), m - one)
    BY <1>1, <1>7, <2>1, ListWithout, ZenonT(60)
  <2>. QED
    BY <2>2 DEF Bypass
<1>. QED
  BY <1>1, <1>8, <1>9 DEF rest


\* A new segment is put in after a, the last cell before it, or in front.
Instead(c, a, new, old) == IF c = a THEN new ELSE old

\* The list with the cells of the segment is in order again.
LEMMA ListJoin ==
    ASSUME NEW F, NEW h, NEW g, NEW fr, NEW m, ListOK(F, h, fr, m),
           NEW k \in 0 .. MaxSegs - 1, NEW a \in F \union {0}, a < Base(k),
           \A x \in F : x <= a \/ Base(k) + SegSize < x,
           NEW d, d = Instead(a, 0, fr, h[a].cdr),
           \A c \in CellsOf(k) : g[c].cdr = Instead(c, Base(k) + SegSize - 1, d, c + 1),
           \A c \in F : g[c].cdr = Instead(c, a, Base(k), h[c].cdr)
    PROVE  ListOK(F \union CellsOf(k), g, Instead(a, 0, Base(k), fr), m + SegSize)
<1>. DEFINE G == F \union CellsOf(k)
            bk == Base(k)
            last == Base(k) + SegSize - 1
<1>1. bk \in Nat \ {0} /\ last \in Nat /\ CellsOf(k) \subseteq Cells /\ CellsOf(k) = bk .. last
      /\ last = bk + SegSize - 1 /\ bk <= last /\ SegSize \in Nat
  <2>1. Base(k) \in Nat \ {0} /\ CellsOf(k) \subseteq Cells
    BY CellsAre
  <2>. HIDE DEF Base
  <2>. QED
    BY <2>1 DEF CellsOf
<1>. HIDE DEF bk, last
<1>2. F \subseteq Nat \ {0} /\ F \subseteq Cells /\ IsFiniteSet(F) /\ m = Cardinality(F) /\ m \in Nat /\ a \in Nat
  <2>1. F \subseteq Cells /\ Cells \subseteq Nat \ {0} /\ IsFiniteSet(Cells) /\ m = Cardinality(F)
    BY CellsAre DEF ListOK
  <2>2. IsFiniteSet(F) /\ Cardinality(F) \in Nat
    BY <2>1, FS_Subset, FS_CardinalityType
  <2>. QED
    BY <2>1, <2>2
<1>3. \A x \in F : x \in Nat /\ (x <= a \/ last + 1 < x)
  <2>1. Base(k) + SegSize = last + 1
    BY <1>1 DEF bk
  <2>. QED
    BY <1>2, <2>1
<1>4. NextIn(F, a, d)
  BY DEF ListOK, Instead
<1>5. a < bk
  BY DEF bk
<1>6. G \subseteq Cells /\ m + SegSize = Cardinality(G)
  <2>1. F \intersect (bk .. last) = {}
    BY <1>1, <1>2, <1>3, <1>5
  <2>2. IsFiniteSet(bk .. last) /\ Cardinality(bk .. last) = SegSize
    BY <1>1, FS_Interval
  <2>3. Cardinality(F \union (bk .. last)) = Cardinality(F) + Cardinality(bk .. last) - Cardinality(F \intersect (bk .. last))
    BY <1>2, <2>2, FS_Union
  <2>4. G = F \union (bk .. last)
    BY <1>1
  <2>5. Cardinality(F \intersect (bk .. last)) = 0
    BY <2>1, FS_EmptySet
  <2>6. Cardinality(G) = m + SegSize - 0
    BY <1>2, <2>2, <2>3, <2>4, <2>5
  <2>7. G \subseteq Cells
    BY <1>1, <1>2
  <2>. HIDE DEF G
  <2>. QED
    BY <1>1, <1>2, <2>6, <2>7
\* Before the segment the list is what it was, up to a.
<1>7. ASSUME NEW c \in F \union {0}, c < a, NEW e, NextIn(F, c, e) PROVE NextIn(G, c, e)
  <2>1. c \in Nat /\ a \in F
    BY <1>2, <1>7
  <2>2. e \in F /\ c < e /\ \A x \in F : c < x => e <= x
    <3>1. ~ (a <= c)
      BY <1>2, <1>7, <2>1
    <3>. QED
      BY <1>7, <2>1, <3>1 DEF NextIn
  <2>3. e <= a /\ e \in Nat
    BY <1>2, <1>7, <2>1, <2>2
  <2>4. \A x \in bk .. last : e <= x
    BY <1>1, <1>2, <1>5, <2>3
  <2>. QED
    BY <1>1, <2>2, <2>4 DEF NextIn
<1>8. ASSUME NEW c \in F, ~ (c <= a), NEW e, NextIn(F, c, e) PROVE NextIn(G, c, e)
  <2>1. c \in Nat /\ last < c
    BY <1>1, <1>3, <1>8
  <2>2. \A x \in bk .. last : x <= c /\ ~ (c < x)
    BY <1>1, <2>1
  <2>. QED
    BY <1>1, <1>8, <2>2 DEF NextIn
<1>9. NextIn(G, a, bk)
  <2>1. bk \in G /\ \A x \in F : a < x => bk <= x
    <3>1. bk \in G
      BY <1>1
    <3>2. ASSUME NEW x \in F, a < x PROVE bk <= x
      BY <1>1, <1>2, <1>3, <3>2
    <3>. QED
      BY <3>1, <3>2
  <2>2. \A x \in bk .. last : bk <= x
    BY <1>1
  <2>. QED
    BY <1>1, <1>5, <2>1, <2>2 DEF NextIn
<1>10. ASSUME NEW c \in bk .. last, c # last PROVE NextIn(G, c, c + 1)
  <2>1. c \in Nat /\ c + 1 \in bk .. last /\ c < c + 1
    BY <1>1, <1>10
  <2>2. \A x \in bk .. last : c < x => c + 1 <= x
    BY <1>1, <2>1
  <2>3. ASSUME NEW x \in F, c < x PROVE c + 1 <= x
    BY <1>2, <2>1, <2>3
  <2>. QED
    BY <1>1, <2>1, <2>2, <2>3 DEF NextIn
<1>11. NextIn(G, last, d)
  <2>1. \A x \in bk .. last : x <= last /\ ~ (last < x)
    BY <1>1
  <2>2. \A x \in F : a < x <=> last < x
    <3>1. ASSUME NEW x \in F PROVE a < x <=> last < x
      BY <1>1, <1>2, <1>3, <1>5
    <3>. QED
      BY <3>1
  <2>3. CASE d = Nil
    <3>1. \A x \in F : x <= a
      BY <1>2, <1>4, <2>3 DEF NextIn, Nil
    <3>2. ASSUME NEW x \in F PROVE x <= last
      BY <1>1, <1>2, <1>5, <3>1
    <3>. QED
      BY <1>1, <2>1, <2>3, <3>2 DEF NextIn
  <2>4. CASE d # Nil
    <3>1. d \in F /\ a < d /\ \A x \in F : a < x => d <= x
      BY <1>4, <2>4 DEF NextIn
    <3>. QED
      BY <1>1, <2>1, <2>2, <3>1 DEF NextIn
  <2>. QED
    BY <2>3, <2>4
<1>12. NextIn(G, 0, Instead(a, 0, Base(k), fr))
  <2>1. CASE a = 0
    BY <1>9, <2>1 DEF bk, Instead
  <2>2. CASE a # 0
    <3>1. 0 < a /\ NextIn(F, 0, fr)
      BY <1>2, <2>2 DEF ListOK
    <3>. QED
      BY <1>7, <2>2, <3>1 DEF Instead
  <2>. QED
    BY <2>1, <2>2
<1>13. ASSUME NEW c \in G PROVE NextIn(G, c, g[c].cdr)
  <2>1. CASE c \in CellsOf(k)
    <3>1. c \in bk .. last /\ g[c].cdr = IF c = last THEN d ELSE c + 1
      BY <1>1, <2>1 DEF last, Instead
    <3>. QED
      BY <1>10, <1>11, <3>1
  <2>2. CASE c \in F
    <3>1. g[c].cdr = IF c = a THEN bk ELSE h[c].cdr
      BY <2>2 DEF bk, Instead
    <3>2. NextIn(F, c, h[c].cdr)
      BY <2>2 DEF ListOK
    <3>3. c = a \/ c < a \/ ~ (c <= a)
      BY <1>2, <2>2
    <3>4. CASE c = a
      BY <1>9, <3>1, <3>4
    <3>5. CASE c # a /\ c < a
      BY <1>7, <2>2, <3>1, <3>2, <3>5
    <3>6. CASE c # a /\ ~ (c <= a)
      BY <1>8, <2>2, <3>1, <3>2, <3>6
    <3>. QED
      BY <3>3, <3>4, <3>5, <3>6
  <2>. QED
    BY <2>1, <2>2
<1>. HIDE DEF G
<1>14. ListOK(G, g, Instead(a, 0, Base(k), fr), m + SegSize)
  BY <1>6, <1>12, <1>13 DEF ListOK
<1>. QED
  BY <1>14 DEF G

\* The cell after which alloc_cellseg puts a segment that does not come first.
LEMMA PrevIs ==
    ASSUME NEW F, NEW h, NEW fr, NEW m, ListOK(F, h, fr, m),
           NEW k \in 0 .. MaxSegs - 1,
           \A x \in F : x + 1 < Base(k) \/ Base(k) + SegSize < x,
           ~ (fr = Nil \/ Base(k) + SegSize < fr),
           NEW p, p = CHOOSE c \in F : /\ h[c].cdr = Nil \/ h[c].cdr >= Base(k)
                                       /\ \A d \in F : d < c => ~ (h[d].cdr = Nil \/ h[d].cdr >= Base(k))
    PROVE  p \in F /\ p # 0 /\ p < Base(k) /\ \A x \in F : x <= p \/ Base(k) + SegSize < x
<1>. DEFINE bk == Base(k)
            Far(c) == h[c].cdr = Nil \/ h[c].cdr >= bk
<1>1. bk \in Nat \ {0}
  BY CellsAre
<1>2. F \subseteq Nat \ {0}
  BY CellsAre DEF ListOK
<1>3. \A x \in F : x \in Nat /\ (x + 1 < bk \/ bk + SegSize < x)
  BY <1>2
<1>4. fr \in F /\ ~ (bk + SegSize < fr)
  <2>1. NextIn(F, 0, fr)
    BY DEF ListOK
  <2>. QED
    BY <2>1 DEF NextIn
<1>. HIDE DEF bk
<1>5. fr < bk
  BY <1>1, <1>3, <1>4
<1>. DEFINE T == {c \in F : c < bk}
<1>6. PICK q \in T : \A c \in T : c <= q
  <2>0. ASSUME NEW c \in T PROVE c \in Nat /\ c <= bk
    <3>1. c \in F /\ c < bk /\ c \in Nat
      BY <1>2
    <3>. QED
      BY <1>1, <3>1
  <2>1. T \subseteq Nat /\ T # {} /\ \A c \in T : c <= bk
    <3>1. fr \in T
      BY <1>4, <1>5
    <3>. HIDE DEF T
    <3>. QED
      BY <2>0, <3>1
  <2>2. bk \in Nat
    BY <1>1
  <2>. HIDE DEF T
  <2>. QED
    BY <2>1, <2>2, Greatest
<1>7. q \in F /\ q \in Nat /\ q < bk /\ \A c \in F : c < bk => c <= q
  BY <1>2, <1>6
<1>8. NextIn(F, q, h[q].cdr)
  BY <1>7 DEF ListOK
<1>9. Far(q)
  <2>1. CASE h[q].cdr # Nil
    <3>1. h[q].cdr \in F /\ q < h[q].cdr
      BY <1>8, <2>1 DEF NextIn
    <3>0. h[q].cdr \in Nat
      BY <1>2, <3>1
    <3>2. h[q].cdr \in Nat /\ ~ (h[q].cdr < bk)
      <4>1. h[q].cdr < bk => h[q].cdr <= q
        BY <1>7, <3>1
      <4>. QED
        BY <1>7, <3>0, <3>1, <4>1
    <3>. QED
      BY <1>1, <3>2
  <2>. QED
    BY <2>1
<1>. DEFINE W == {c \in F : Far(c)}
<1>10. PICK w \in W : \A c \in W : w <= c
  <2>1. W \subseteq Nat /\ W # {}
    BY <1>2, <1>7, <1>9
  <2>. HIDE DEF W
  <2>. QED
    BY <2>1, Least
<1>11. w \in F /\ Far(w) /\ \A d \in F : d < w => ~ Far(d)
  <2>1. ASSUME NEW d \in F, d < w, Far(d) PROVE FALSE
    <3>1. w <= d /\ d \in Nat /\ w \in Nat
      BY <1>2, <1>10, <2>1
    <3>. QED
      BY <2>1, <3>1
  <2>. QED
    BY <1>10, <2>1
<1>12. p = CHOOSE c \in F : Far(c) /\ \A d \in F : d < c => ~ Far(d)
  BY DEF bk
<1>13. p \in F /\ Far(p) /\ \A d \in F : d < p => ~ Far(d)
  <2>. HIDE DEF Far
  <2>. QED
    BY <1>11, <1>12
<1>14. p \in Nat /\ p # 0 /\ ~ (q < p)
  <2>1. ~ (q < p)
    BY <1>7, <1>9, <1>13
  <2>. QED
    BY <1>2, <1>13, <2>1
<1>15. p < bk
  BY <1>1, <1>7, <1>14
<1>16. ASSUME NEW x \in F PROVE x <= p \/ bk + SegSize < x
  <2>. SUFFICES ASSUME ~ (x <= p) PROVE bk + SegSize < x
    OBVIOUS
  <2>1. x \in Nat /\ p < x
    BY <1>3, <1>14
  <2>2. NextIn(F, p, h[p].cdr)
    BY <1>13, SMTT(30) DEF ListOK
  <2>3. h[p].cdr \in F /\ h[p].cdr <= x
    <3>1. ~ \A y \in F : y <= p
      OBVIOUS
    <3>. QED
      BY <2>1, <2>2, <3>1 DEF NextIn
  <2>4. h[p].cdr >= bk /\ h[p].cdr \in Nat
    BY <1>2, <1>13, <2>3 DEF Nil
  <2>5. ~ (x + 1 < bk)
    BY <1>1, <2>1, <2>3, <2>4
  <2>. QED
    BY <1>3, <2>5
<1>. QED
  BY <1>13, <1>14, <1>15, <1>16 DEF bk

-----------------------------------------------------------------------------
(* A heap whose links are in place.                                        *)

CellType == [type : {"none", "pair", "number", "vector", "block"},
             atom : BOOLEAN, mark : BOOLEAN, len : 0 .. MaxLen,
             car : Pointers \union {Null}, cdr : Pointers \union {Null}]
IsObject(h, x)  == x \in Cells /\ h[x].type \in {"pair", "number", "vector"}
IsPointer(h, x) == x = Nil \/ IsObject(h, x)
CellOK(h, c) ==
    /\ h[c].mark = FALSE
    /\ h[c].type = "none" => h[c].atom = FALSE /\ h[c].len = 0 /\ h[c].car = Nil /\ h[c].cdr \in Pointers
    /\ h[c].type \in {"pair", "block"} => /\ h[c].atom = FALSE /\ h[c].len = 0
                                          /\ IsPointer(h, h[c].car) /\ IsPointer(h, h[c].cdr)
    /\ h[c].type = "number" => h[c].atom = TRUE /\ h[c].len = 0
    /\ h[c].type = "vector" => /\ h[c].atom = TRUE
                               /\ \A j \in 1 .. Blocks(h[c].len) : c + j \in Cells /\ h[c + j].type = "block"
HeapOK(h) == h \in [Cells -> CellType] /\ \A c \in Cells : CellOK(h, c)

\* NIL and the end mark of turned links are no cells.
LEMMA Numbers == Nil = 0 /\ Null = -1 /\ Nil # Null /\ Nil \notin Cells /\ Null \notin Cells
  BY CellsAre DEF Nil, Null

\* Cells are changed; objects remain objects, and the cells of a vector remain that.
LEMMA HeapChanged ==
    ASSUME NEW h, NEW g, HeapOK(h), g \in [Cells -> CellType],
           \A c \in Cells : /\ h[c].type \in {"pair", "number", "vector"}
                                => g[c].type \in {"pair", "number", "vector"}
                            /\ h[c].type = "block" => g[c].type = "block"
                            /\ g[c] = h[c] \/ CellOK(g, c)
    PROVE  HeapOK(g)
<1>1. \A x : IsPointer(h, x) => IsPointer(g, x)
  BY DEF IsPointer, IsObject
<1>2. ASSUME NEW c \in Cells, g[c] = h[c] PROVE CellOK(g, c)
  <2>1. CellOK(h, c)
    BY DEF HeapOK
  <2>2. h[c].type = "vector" => \A j \in 1 .. Blocks(h[c].len) : c + j \in Cells /\ g[c + j].type = "block"
    BY <2>1 DEF CellOK
  <2>. QED
    BY <1>1, <1>2, <2>1, <2>2 DEF CellOK
<1>. QED
  BY <1>2 DEF HeapOK

\* The cells that follow a vector are its own.
LEMMA VectorOf ==
    ASSUME NEW h, HeapOK(h), NEW c \in Cells, NEW d \in Cells,
           h[c].type = "vector", h[d].type = "vector",
           NEW i \in 1 .. Blocks(h[c].len), NEW j \in 1 .. Blocks(h[d].len), c + i = d + j
    PROVE  c = d
<1>1. c \in Nat /\ d \in Nat /\ Blocks(h[c].len) \in Nat /\ Blocks(h[d].len) \in Nat
  <2>1. h[c].len \in 0 .. MaxLen /\ h[d].len \in 0 .. MaxLen
    BY DEF HeapOK, CellType
  <2>. QED
    BY <2>1, CellsAre DEF Blocks
<1>2. /\ \A k \in 1 .. Blocks(h[c].len) : h[c + k].type = "block"
      /\ \A k \in 1 .. Blocks(h[d].len) : h[d + k].type = "block"
  BY DEF HeapOK, CellOK
<1>3. CASE c < d
  <2>1. d - c \in 1 .. Blocks(h[c].len) /\ c + (d - c) = d
    BY <1>1, <1>3
  <2>. QED
    BY <1>2, <2>1
<1>4. CASE d < c
  <2>1. c - d \in 1 .. Blocks(h[d].len) /\ d + (c - d) = c
    BY <1>1, <1>4
  <2>. QED
    BY <1>2, <2>1
<1>. QED
  BY <1>1, <1>3, <1>4

\* Cells in use lead to cells in use.
LEMMA LinksUsed ==
    ASSUME NEW h, HeapOK(h), NEW c \in Cells, h[c].type # "none", NEW x \in Links(h, c)
    PROVE  x \in Cells /\ h[x].type # "none"
<1>1. CellOK(h, c) /\ h[c] \in CellType
  BY DEF HeapOK
<1>2. CASE h[c].type = "vector"
  <2>1. x \in c + 1 .. c + Blocks(h[c].len)
    BY <1>2 DEF Links
  <2>2. c \in Nat /\ Blocks(h[c].len) \in Nat
    BY <1>1, CellsAre DEF Blocks, CellType
  <2>3. x - c \in 1 .. Blocks(h[c].len) /\ c + (x - c) = x
    BY <2>1, <2>2
  <2>. QED
    BY <1>1, <1>2, <2>3 DEF CellOK
<1>3. CASE h[c].type = "number"
  BY <1>1, <1>3 DEF CellOK, Links
<1>4. CASE h[c].type \in {"pair", "block"}
  BY <1>1, <1>4 DEF CellOK, Links, IsPointer, IsObject
<1>. QED
  BY <1>1, <1>2, <1>3, <1>4 DEF CellType

-----------------------------------------------------------------------------
(* What cells lead to.                                                     *)

\* What the recursive function in Reach is.
Rounds(R, h, S, k) == R = [i \in 0 .. k |-> IF i = 0 THEN S \ {Nil}
                                            ELSE R[i - 1] \union UNION {Links(h, c) : c \in R[i - 1]}]

\* There is one: Reach is not an empty choice.
LEMMA RoundsExist ==
    ASSUME NEW h, NEW S, NEW n \in Nat
    PROVE  \E R : Rounds(R, h, S, n)
<1>. DEFINE T == {k \in Nat : ~ \E R : Rounds(R, h, S, k)}
            Nxt(X) == X \union UNION {Links(h, c) : c \in X}
<1>. SUFFICES ASSUME T # {} PROVE FALSE
  OBVIOUS
<1>1. PICK m \in T : \A k \in T : m <= k
  <2>1. T \subseteq Nat
    OBVIOUS
  <2>. HIDE DEF T
  <2>. QED
    BY <2>1, Least
<1>2. m # 0
  <2>1. Rounds([i \in 0 .. 0 |-> S \ {Nil}], h, S, 0)
    BY DEF Rounds
  <2>. QED
    BY <2>1
<1>3. PICK f : Rounds(f, h, S, m - 1)
  <2>1. m - 1 \in Nat /\ ~ (m <= m - 1)
    BY <1>2
  <2>. QED
    BY <1>1, <2>1
<1>4. \A i \in 0 .. m - 1 : f[i] = IF i = 0 THEN S \ {Nil} ELSE Nxt(f[i - 1])
  BY <1>3, Zenon DEF Rounds
<1>. HIDE DEF Nxt
<1>. DEFINE g == [i \in 0 .. m |-> IF i < m THEN f[i] ELSE Nxt(f[m - 1])]
<1>5. ASSUME NEW i \in 0 .. m PROVE g[i] = IF i = 0 THEN S \ {Nil} ELSE Nxt(g[i - 1])
  <2>1. CASE i = 0
    BY <1>2, <1>4, <2>1
  <2>2. CASE i # 0
    <3>1. i - 1 \in 0 .. m /\ i - 1 < m /\ g[i - 1] = f[i - 1]
      BY <2>2
    <3>. QED
      BY <1>4, <2>2, <3>1
  <2>. QED
    BY <2>1, <2>2
<1>6. g = [i \in 0 .. m |-> IF i = 0 THEN S \ {Nil} ELSE Nxt(g[i - 1])]
  <2>1. g = [i \in 0 .. m |-> g[i]]
    OBVIOUS
  <2>. HIDE DEF g
  <2>. QED
    BY <1>5, <2>1
<1>. HIDE DEF g
<1>7. Rounds(g, h, S, m)
  BY <1>6, Zenon DEF Rounds, Nxt
<1>. QED
  BY <1>7

\* Reach is the last round.
LEMMA ReachRounds ==
    ASSUME NEW h, NEW S
    PROVE  \E R : /\ Reach(h, S) = R[Cardinality(Cells)]
                  /\ R[0] = S \ {Nil}
                  /\ \A i, j \in 0 .. Cardinality(Cells) :
                        j = i + 1 => R[j] = R[i] \union UNION {Links(h, c) : c \in R[i]}
<1>. DEFINE R == CHOOSE R : Rounds(R, h, S, Cardinality(Cells))
            Nxt(X) == X \union UNION {Links(h, c) : c \in X}
<1>1. Rounds(R, h, S, Cardinality(Cells))
  BY RoundsExist, CellsAre
<1>2. Reach(h, S) = R[Cardinality(Cells)]
  BY Zenon DEF Reach, Rounds
<1>. HIDE DEF R
<1>3. \A i \in 0 .. Cardinality(Cells) : R[i] = IF i = 0 THEN S \ {Nil} ELSE Nxt(R[i - 1])
  BY <1>1, Zenon DEF Rounds
<1>. HIDE DEF Nxt
<1>4. R[0] = S \ {Nil}
  BY <1>3, CellsAre
<1>5. \A i, j \in 0 .. Cardinality(Cells) : j = i + 1 => R[j] = Nxt(R[i])
  <2>. SUFFICES ASSUME NEW i \in 0 .. Cardinality(Cells), NEW j \in 0 .. Cardinality(Cells), j = i + 1
                PROVE  R[j] = Nxt(R[i])
    OBVIOUS
  <2>1. j # 0 /\ j - 1 = i
    BY CellsAre
  <2>. QED
    BY <1>3, <2>1
<1>. QED
  BY <1>2, <1>4, <1>5 DEF Nxt

\* A set that the links do not leave has all that its members lead to.
LEMMA ReachLeast ==
    ASSUME NEW h, NEW S, NEW M, S \ {Nil} \subseteq M, \A c \in M : Links(h, c) \subseteq M
    PROVE  Reach(h, S) \subseteq M
<1>. DEFINE C == Cardinality(Cells)
<1>0. C \in Nat
  BY CellsAre
<1>1. PICK R : /\ Reach(h, S) = R[C] /\ R[0] = S \ {Nil}
               /\ \A i, j \in 0 .. C : j = i + 1 => R[j] = R[i] \union UNION {Links(h, c) : c \in R[i]}
  BY ReachRounds
<1>. HIDE DEF C
<1>. DEFINE T == {i \in 0 .. C : ~ (R[i] \subseteq M)}
<1>. SUFFICES ASSUME T # {} PROVE FALSE
  BY <1>0, <1>1
<1>2. PICK m \in T : \A k \in T : m <= k
  <2>1. T \subseteq Nat
    BY <1>0
  <2>. HIDE DEF T
  <2>. QED
    BY <2>1, Least
<1>3. m # 0 /\ m \in 0 .. C
  BY <1>1
<1>4. m - 1 \in 0 .. C /\ m = (m - 1) + 1 /\ ~ (m <= m - 1)
  BY <1>0, <1>3
<1>5. R[m - 1] \subseteq M
  BY <1>2, <1>4
<1>6. R[m] = R[m - 1] \union UNION {Links(h, c) : c \in R[m - 1]}
  BY <1>1, <1>3, <1>4
<1>. QED
  BY <1>2, <1>5, <1>6

\* It has its roots, and the links do not leave it: in so many rounds as there are
\* cells the end is reached.
LEMMA ReachClosed ==
    ASSUME NEW h, NEW S, NEW U \in SUBSET Cells, S \ {Nil} \subseteq U, \A c \in U : Links(h, c) \subseteq U
    PROVE  /\ S \ {Nil} \subseteq Reach(h, S) /\ Reach(h, S) \subseteq U
           /\ \A c \in Reach(h, S) : Links(h, c) \subseteq Reach(h, S)
<1>. DEFINE C == Cardinality(Cells)
<1>0. C \in Nat
  BY CellsAre
<1>1. PICK R : /\ Reach(h, S) = R[C] /\ R[0] = S \ {Nil}
               /\ \A i, j \in 0 .. C : j = i + 1 => R[j] = R[i] \union UNION {Links(h, c) : c \in R[i]}
  BY ReachRounds
<1>. HIDE DEF C
<1>2. \A i \in 0 .. C : R[i] \subseteq U
  <2>. DEFINE T == {i \in 0 .. C : ~ (R[i] \subseteq U)}
  <2>. SUFFICES ASSUME T # {} PROVE FALSE
    OBVIOUS
  <2>1. PICK m \in T : \A k \in T : m <= k
    <3>1. T \subseteq Nat
      BY <1>0
    <3>. HIDE DEF T
    <3>. QED
      BY <3>1, Least
  <2>2. m # 0 /\ m \in 0 .. C
    BY <1>1
  <2>3. m - 1 \in 0 .. C /\ m = (m - 1) + 1 /\ ~ (m <= m - 1)
    BY <1>0, <2>2
  <2>4. R[m - 1] \subseteq U
    BY <2>1, <2>3
  <2>5. R[m] = R[m - 1] \union UNION {Links(h, c) : c \in R[m - 1]}
    BY <1>1, <2>2, <2>3
  <2>. QED
    BY <2>1, <2>4, <2>5
<1>3. \A i \in 0 .. C : IsFiniteSet(R[i]) /\ Cardinality(R[i]) \in 0 .. C
  <2>. SUFFICES ASSUME NEW i \in 0 .. C PROVE IsFiniteSet(R[i]) /\ Cardinality(R[i]) \in 0 .. C
    OBVIOUS
  <2>1. R[i] \subseteq Cells /\ IsFiniteSet(Cells)
    BY <1>2, CellsAre
  <2>2. IsFiniteSet(R[i]) /\ Cardinality(R[i]) <= Cardinality(Cells)
    BY <2>1, FS_Subset
  <2>3. Cardinality(R[i]) \in Nat
    BY <2>2, FS_CardinalityType
  <2>. QED
    BY <1>0, <2>2, <2>3 DEF C
<1>4. \A i, j \in 0 .. C : j = i + 1 => R[i] \subseteq R[j]
  BY <1>1
\* Until a round adds nothing, each adds one cell or more.
<1>. DEFINE Done(i) == UNION {Links(h, c) : c \in R[i]} \subseteq R[i]
            T == {i \in 0 .. C : ~ (Done(i) \/ Cardinality(R[i]) >= i)}
<1>5. \A i, j \in 0 .. C : j = i + 1 /\ Done(i) => R[j] = R[i]
  BY <1>1, ZenonT(60)
<1>6. T = {}
  <2>. SUFFICES ASSUME T # {} PROVE FALSE
    OBVIOUS
  <2>1. PICK m \in T : \A k \in T : m <= k
    <3>1. T \subseteq Nat
      BY <1>0
    <3>. HIDE DEF T
    <3>. QED
      BY <3>1, Least
  <2>2. m \in 0 .. C /\ ~ Done(m) /\ ~ (Cardinality(R[m]) >= m)
    OBVIOUS
  <2>. HIDE DEF Done
  <2>3. m # 0
    <3>1. Cardinality(R[0]) \in 0 .. C /\ 0 \in 0 .. C
      BY <1>0, <1>3
    <3>. QED
      BY <2>2, <3>1
  <2>4. m - 1 \in 0 .. C /\ m = (m - 1) + 1 /\ ~ (m <= m - 1)
    BY <1>0, <2>2, <2>3
  <2>5. Done(m - 1) \/ Cardinality(R[m - 1]) >= m - 1
    BY <2>1, <2>4
  <2>6. ~ Done(m - 1)
    <3>. SUFFICES ASSUME Done(m - 1) PROVE FALSE
      OBVIOUS
    <3>1. R[m] = R[m - 1]
      BY <1>5, <2>2, <2>4
    <3>. QED
      BY <2>2, <3>1 DEF Done
  <2>7. R[m - 1] \subseteq R[m] /\ R[m - 1] # R[m]
    <3>1. R[m - 1] \subseteq R[m]
      BY <1>4, <2>2, <2>4
    <3>2. R[m] = R[m - 1] \union UNION {Links(h, c) : c \in R[m - 1]}
      BY <1>1, <2>2, <2>4
    <3>. QED
      BY <2>6, <3>1, <3>2 DEF Done
  <2>8. Cardinality(R[m - 1]) < Cardinality(R[m])
    <3>1. IsFiniteSet(R[m]) /\ IsFiniteSet(R[m - 1])
      BY <1>3, <2>2, <2>4
    <3>2. Cardinality(R[m - 1]) <= Cardinality(R[m]) /\ (Cardinality(R[m - 1]) = Cardinality(R[m]) => R[m - 1] = R[m])
      BY <2>7, <3>1, FS_Subset
    <3>3. Cardinality(R[m]) \in Nat /\ Cardinality(R[m - 1]) \in Nat
      BY <3>1, FS_CardinalityType
    <3>. QED
      BY <2>7, <3>2, <3>3
  <2>9. Cardinality(R[m]) \in Nat /\ Cardinality(R[m - 1]) \in Nat /\ m \in Nat
    BY <1>0, <1>3, <2>2, <2>4
  <2>. QED
    BY <2>2, <2>5, <2>6, <2>8, <2>9
<1>7. C \in 0 .. C
  BY <1>0
<1>8. Done(C)
  <2>. SUFFICES ASSUME ~ Done(C) PROVE FALSE
    OBVIOUS
  <2>. HIDE DEF Done
  <2>1. Cardinality(R[C]) >= C
    BY <1>6, <1>7
  <2>2. R[C] \subseteq Cells /\ IsFiniteSet(Cells) /\ Cardinality(R[C]) = Cardinality(Cells)
    <3>1. R[C] \subseteq Cells /\ IsFiniteSet(Cells)
      BY <1>2, <1>7, CellsAre
    <3>2. Cardinality(R[C]) \in 0 .. C
      BY <1>3, <1>7
    <3>. QED
      BY <1>0, <2>1, <3>1, <3>2 DEF C
  <2>3. R[C] = Cells
    BY <2>2, FS_Subset
  <2>4. R[C] \subseteq U
    BY <1>2, <1>7
  <2>5. U = R[C]
    BY <2>3, <2>4
  <2>. QED
    BY <2>5 DEF Done
<1>9. R[0] \subseteq R[C]
  <2>. DEFINE V == {i \in 0 .. C : ~ (R[0] \subseteq R[i])}
  <2>. SUFFICES ASSUME V # {} PROVE FALSE
    BY <1>7
  <2>1. PICK m \in V : \A k \in V : m <= k
    <3>1. V \subseteq Nat
      BY <1>0
    <3>. HIDE DEF V
    <3>. QED
      BY <3>1, Least
  <2>2. m # 0 /\ m \in 0 .. C
    OBVIOUS
  <2>3. m - 1 \in 0 .. C /\ m = (m - 1) + 1 /\ ~ (m <= m - 1)
    BY <1>0, <2>2
  <2>4. R[0] \subseteq R[m - 1] /\ R[m - 1] \subseteq R[m]
    BY <1>4, <2>1, <2>2, <2>3
  <2>. QED
    BY <2>1, <2>4
<1>. QED
  BY <1>1, <1>2, <1>7, <1>8, <1>9

\* In a heap with its links in place all of it is in use.
LEMMA ReachUsed ==
    ASSUME NEW h, HeapOK(h), NEW S, \A x \in S : IsPointer(h, x)
    PROVE  /\ S \ {Nil} \subseteq Reach(h, S) /\ Reach(h, S) \subseteq Cells
           /\ \A c \in Reach(h, S) : h[c].type # "none" /\ Links(h, c) \subseteq Reach(h, S)
<1>. DEFINE U == {c \in Cells : h[c].type # "none"}
<1>1. S \ {Nil} \subseteq U
  BY DEF IsPointer, IsObject
<1>2. \A c \in U : Links(h, c) \subseteq U
  BY LinksUsed
<1>3. U \in SUBSET Cells
  OBVIOUS
<1>. HIDE DEF U
<1>4. /\ S \ {Nil} \subseteq Reach(h, S) /\ Reach(h, S) \subseteq U
      /\ \A c \in Reach(h, S) : Links(h, c) \subseteq Reach(h, S)
  BY <1>1, <1>2, <1>3, ReachClosed
<1>. QED
  BY <1>4 DEF U

-----------------------------------------------------------------------------
(* The chain of mark, from the root to where the innermost call is: the    *)
(* cells whose links are turned around, and the vectors of the calls that  *)
(* wait.  b is the heap when gc began; C the K calls, the outermost first; *)
(* s the n cells, and lev the calls they belong to.                        *)

CallType == [p : Cells, t : Cells \union {Null}, at : {"E2", "E3", "E4", "E5", "E6"}, i : Nat]

\* Where the link before the j-th cell leads to.
Up(b, s, j) == IF j = 1 \/ b[s[j - 1]].type = "vector" THEN Null ELSE s[j - 1]
\* A link of c that led down leads up.
Turned(h, b, c, up, down) ==
    /\ b[c].type \in {"pair", "block"}
    /\ \/ h[c] = [b[c] EXCEPT !.mark = TRUE, !.atom = TRUE, !.car = up] /\ b[c].car = down
       \/ h[c] = [b[c] EXCEPT !.mark = TRUE, !.cdr = up] /\ b[c].cdr = down
Waits(h, b, call, c, up) ==
    /\ b[c].type = "vector" /\ h[c] = [b[c] EXCEPT !.mark = TRUE]
    /\ call.p = c /\ call.t = up /\ call.at = "E3" /\ call.i \in 1 .. Blocks(b[c].len)
Behind(h, b, C, s, lev, j) ==
    \/ Waits(h, b, C[lev[j]], s[j], Up(b, s, j)) /\ lev[j + 1] = lev[j] + 1
    \/ Turned(h, b, s[j], Up(b, s, j), s[j + 1]) /\ lev[j + 1] = lev[j]
AtTop(h, b, call, c, up) ==
    /\ call.p = c /\ call.t = up
    /\ call.at = "E3" => b[c].type = "vector" /\ call.i <= Blocks(b[c].len)
    /\ call.at \in {"E4", "E5"} => b[c].type \in {"pair", "block"}
    /\ call.at # "E2" => h[c].mark = TRUE
BlockAt(b, C, s, lev, j) ==
    b[s[j]].type = "block" => /\ j > 1 /\ b[s[j - 1]].type = "vector"
                              /\ s[j] = s[j - 1] + C[lev[j - 1]].i
InOrder(b, s, lev, i, j) ==
    s[i] # s[j] /\ lev[i] <= lev[j] /\ (b[s[i]].type = "vector" => lev[i] < lev[j])
Same(h, b, c) == h[c] = [b[c] EXCEPT !.mark = h[c].mark]

Chain(h, b, C, K, n, s, lev) ==
    /\ n \in Nat /\ K \in Nat /\ s \in [Nat -> Nat] /\ lev \in [Nat -> Nat] /\ (n = 0 <=> K = 0)
    /\ C \in [Nat -> CallType] /\ h \in [Cells -> CellType]
    /\ n > 0 => lev[1] = 1 /\ lev[n] = K /\ AtTop(h, b, C[K], s[n], Up(b, s, n))
    /\ \A j \in 1 .. n : s[j] \in Cells /\ b[s[j]].type # "none" /\ BlockAt(b, C, s, lev, j)
    /\ \A i, j \in 1 .. n : i < j => InOrder(b, s, lev, i, j)
    /\ \A j \in 1 .. n : j < n => Behind(h, b, C, s, lev, j)
    /\ \A c \in Cells : (\A j \in 1 .. n : j < n => s[j] # c) => Same(h, b, c)

\* A cell of the chain stays what it was while it, its neighbours and its call do.
LEMMA BehindKept ==
    ASSUME NEW h, NEW g, NEW b, NEW C, NEW D, NEW s, NEW r, NEW lev, NEW lv, NEW j \in Nat \ {0},
           Behind(h, b, C, s, lev, j), g[s[j]] = h[s[j]],
           b[s[j]].type = "vector" => D[lev[j]] = C[lev[j]],
           r[j] = s[j], r[j + 1] = s[j + 1], j > 1 => r[j - 1] = s[j - 1],
           lv[j] = lev[j], lv[j + 1] = lev[j + 1]
    PROVE  Behind(g, b, D, r, lv, j)
<1>1. Up(b, r, j) = Up(b, s, j)
  BY DEF Up
<1>2. CASE Waits(h, b, C[lev[j]], s[j], Up(b, s, j)) /\ lev[j + 1] = lev[j] + 1
  <2>1. b[s[j]].type = "vector"
    BY <1>2 DEF Waits
  <2>. QED
    BY <1>1, <1>2, <2>1 DEF Behind, Waits
<1>3. CASE Turned(h, b, s[j], Up(b, s, j), s[j + 1]) /\ lev[j + 1] = lev[j]
  BY <1>1, <1>3 DEF Behind, Turned
<1>. QED
  BY <1>2, <1>3 DEF Behind

\* What a cell of the chain holds that is not its last.
LEMMA BehindMarked ==
    ASSUME NEW h, NEW b, HeapOK(b), NEW C, NEW K, NEW n, NEW s, NEW lev, Chain(h, b, C, K, n, s, lev),
           NEW j \in 1 .. n, j < n
    PROVE  h[s[j]].mark = TRUE /\ lev[j] \in 1 .. K /\ (b[s[j]].type = "vector" => lev[j] < K)
<1>1. s[j] \in Cells /\ Behind(h, b, C, s, lev, j) /\ n \in Nat /\ n > 0 /\ 1 \in 1 .. n /\ n \in 1 .. n
  BY DEF Chain
<1>2. lev[1] = 1 /\ lev[n] = K /\ lev[j] \in Nat /\ K \in Nat
  BY <1>1 DEF Chain
<1>3. lev[1] <= lev[j]
  <2>1. CASE j = 1
    BY <1>2, <2>1
  <2>2. CASE j # 1
    <3>1. 1 < j
      BY <1>1, <2>2
    <3>2. InOrder(b, s, lev, 1, j)
      BY <1>1, <3>1 DEF Chain
    <3>. QED
      BY <3>2 DEF InOrder
  <2>. QED
    BY <2>1, <2>2
<1>4. InOrder(b, s, lev, j, n)
  BY <1>1 DEF Chain
<1>5. h[s[j]].mark = TRUE
  <2>1. b[s[j]] \in CellType
    BY <1>1 DEF HeapOK
  <2>. QED
    BY <1>1, <2>1 DEF Behind, Waits, Turned, CellType
<1>. QED
  BY <1>2, <1>3, <1>4, <1>5 DEF InOrder

\* The innermost call goes on at its cell.
LEMMA ChainStays ==
    ASSUME NEW h, NEW b, HeapOK(b), NEW C, NEW K, NEW n, NEW s, NEW lev, Chain(h, b, C, K, n, s, lev), n > 0,
           NEW g \in [Cells -> CellType], \A c \in Cells : c # s[n] => g[c] = h[c], Same(g, b, s[n]),
           NEW call \in CallType, AtTop(g, b, call, s[n], Up(b, s, n))
    PROVE  Chain(g, b, [C EXCEPT ![K] = call], K, n, s, lev)
<1>. DEFINE D == [C EXCEPT ![K] = call]
<1>1. n \in 1 .. n /\ K \in Nat /\ C \in [Nat -> CallType] /\ lev \in [Nat -> Nat] /\ n \in Nat
  BY DEF Chain
<1>2. D \in [Nat -> CallType] /\ D[K] = call /\ \A l \in Nat : l # K => D[l] = C[l]
  BY <1>1
<1>. HIDE DEF D
<1>3. \A j \in 1 .. n : j < n => s[j] # s[n] /\ lev[j] \in Nat /\ (b[s[j]].type = "vector" => lev[j] # K)
  <2>. SUFFICES ASSUME NEW j \in 1 .. n, j < n
                PROVE  s[j] # s[n] /\ lev[j] \in Nat /\ (b[s[j]].type = "vector" => lev[j] # K)
    OBVIOUS
  <2>1. InOrder(b, s, lev, j, n)
    BY <1>1 DEF Chain
  <2>2. lev[j] \in 1 .. K /\ (b[s[j]].type = "vector" => lev[j] < K)
    BY BehindMarked
  <2>. QED
    BY <1>1, <2>1, <2>2 DEF InOrder
<1>4. ASSUME NEW j \in 1 .. n PROVE s[j] \in Cells /\ b[s[j]].type # "none" /\ BlockAt(b, D, s, lev, j)
  <2>1. s[j] \in Cells /\ b[s[j]].type # "none" /\ BlockAt(b, C, s, lev, j)
    BY DEF Chain
  <2>2. j > 1 /\ b[s[j - 1]].type = "vector" => D[lev[j - 1]] = C[lev[j - 1]]
    <3>. SUFFICES ASSUME j > 1, b[s[j - 1]].type = "vector" PROVE D[lev[j - 1]] = C[lev[j - 1]]
      OBVIOUS
    <3>1. j - 1 \in 1 .. n /\ j - 1 < n
      BY <1>1
    <3>. QED
      BY <1>2, <1>3, <3>1
  <2>. QED
    BY <2>1, <2>2 DEF BlockAt
<1>5. ASSUME NEW j \in 1 .. n, j < n PROVE Behind(g, b, D, s, lev, j)
  <2>1. Behind(h, b, C, s, lev, j) /\ j \in Nat \ {0} /\ s[j] \in Cells
    BY <1>5 DEF Chain
  <2>2. g[s[j]] = h[s[j]]
    BY <1>3, <1>5, <2>1
  <2>3. b[s[j]].type = "vector" => D[lev[j]] = C[lev[j]]
    BY <1>2, <1>3, <1>5
  <2>. QED
    BY <2>1, <2>2, <2>3, BehindKept
<1>6. ASSUME NEW c \in Cells, \A j \in 1 .. n : j < n => s[j] # c PROVE Same(g, b, c)
  <2>1. CASE c = s[n]
    BY <2>1
  <2>2. CASE c # s[n]
    <3>1. Same(h, b, c) /\ g[c] = h[c]
      BY <1>6, <2>2 DEF Chain
    <3>. QED
      BY <3>1 DEF Same
  <2>. QED
    BY <2>1, <2>2
<1>7. Chain(g, b, D, K, n, s, lev)
  <2>1. /\ n \in Nat /\ K \in Nat /\ s \in [Nat -> Nat] /\ lev \in [Nat -> Nat] /\ (n = 0 <=> K = 0)
        /\ lev[1] = 1 /\ lev[n] = K /\ \A i, j \in 1 .. n : i < j => InOrder(b, s, lev, i, j)
    BY DEF Chain
  <2>. QED
    BY <1>2, <1>4, <1>5, <1>6, <2>1 DEF Chain
<1>. QED
  BY <1>7 DEF D

\* The chain becomes longer by y, at level l: a link of its last cell is turned, or the
\* call that is there waits.
Longer(n, s, r, x) ==
    /\ s \in [Nat -> Nat] => r \in [Nat -> Nat]
    /\ r[n + 1] = x /\ \A j \in 1 .. n : r[j] = s[j]
Pushes(g, b, C, D, K, l, n, s, y) ==
    /\ D \in [Nat -> CallType] /\ l \in Nat /\ \A k \in Nat : k < K => D[k] = C[k]
    /\ \/ l = K + 1 /\ Waits(g, b, D[K], s[n], Up(b, s, n))
       \/ l = K /\ Turned(g, b, s[n], Up(b, s, n), y)
    /\ D[l].p = y /\ D[l].at = "E2" /\ D[l].t = IF b[s[n]].type = "vector" THEN Null ELSE s[n]
    /\ b[y].type # "none"
    /\ b[y].type = "block" => b[s[n]].type = "vector" /\ y = s[n] + D[K].i

\* mark goes down to a cell that is not in the chain: the chain is one longer.
LEMMA ChainGrows ==
    ASSUME NEW h, NEW b, HeapOK(b), NEW C, NEW K, NEW n, NEW s, NEW lev, Chain(h, b, C, K, n, s, lev), n > 0,
           NEW g \in [Cells -> CellType], \A c \in Cells : c # s[n] => g[c] = h[c],
           NEW y \in Cells, \A j \in 1 .. n : s[j] # y,
           NEW D, NEW L, Pushes(g, b, C, D, K, L, n, s, y),
           NEW r, Longer(n, s, r, y), NEW lv, Longer(n, lev, lv, L)
    PROVE  Chain(g, b, D, L, n + 1, r, lv)
<1>1. /\ n \in 1 .. n /\ K \in Nat /\ C \in [Nat -> CallType] /\ lev \in [Nat -> Nat] /\ s \in [Nat -> Nat]
      /\ n \in Nat /\ K > 0 /\ lev[n] = K /\ lev[1] = 1
  BY DEF Chain
<1>2. /\ r \in [Nat -> Nat] /\ lv \in [Nat -> Nat] /\ r[n + 1] = y /\ lv[n + 1] = L
      /\ \A j \in 1 .. n : r[j] = s[j] /\ lv[j] = lev[j]
  BY <1>1 DEF Longer
<1>20. D \in [Nat -> CallType] /\ L \in Nat /\ \A k \in Nat : k < K => D[k] = C[k]
  BY DEF Pushes
<1>21. \/ L = K + 1 /\ Waits(g, b, D[K], s[n], Up(b, s, n))
       \/ L = K /\ Turned(g, b, s[n], Up(b, s, n), y)
  BY DEF Pushes
<1>22. /\ D[L].p = y /\ D[L].at = "E2" /\ D[L].t = IF b[s[n]].type = "vector" THEN Null ELSE s[n]
       /\ b[y].type # "none"
  BY DEF Pushes
<1>23. b[y].type = "block" => b[s[n]].type = "vector" /\ y = s[n] + D[K].i
  BY DEF Pushes
<1>0. n \in Nat /\ n > 0
  BY <1>1
<1>3. \A j \in 1 .. n : Up(b, r, j) = Up(b, s, j)
  <2>. SUFFICES ASSUME NEW j \in 1 .. n, j # 1 PROVE r[j - 1] = s[j - 1]
    BY DEF Up
  <2>1. j - 1 \in 1 .. n
    BY <1>0
  <2>. QED
    BY <1>2, <2>1
<1>4. Up(b, r, n + 1) = IF b[s[n]].type = "vector" THEN Null ELSE s[n]
  <2>1. (n + 1) - 1 = n /\ n + 1 # 1
    BY <1>0
  <2>. QED
    BY <1>1, <1>2, <2>1 DEF Up
<1>5. \A j \in 1 .. n : j < n => s[j] # s[n] /\ lev[j] \in Nat /\ (b[s[j]].type = "vector" => lev[j] < K)
  <2>. SUFFICES ASSUME NEW j \in 1 .. n, j < n
                PROVE  s[j] # s[n] /\ lev[j] \in Nat /\ (b[s[j]].type = "vector" => lev[j] < K)
    OBVIOUS
  <2>1. InOrder(b, s, lev, j, n)
    BY <1>1 DEF Chain
  <2>2. lev[j] \in 1 .. K /\ (b[s[j]].type = "vector" => lev[j] < K)
    BY BehindMarked
  <2>. QED
    BY <1>1, <2>1, <2>2 DEF InOrder
<1>6. \A j \in 1 .. n : s[j] \in Cells /\ b[s[j]].type # "none" /\ BlockAt(b, C, s, lev, j)
  BY DEF Chain
<1>7. ASSUME NEW j \in 1 .. n + 1 PROVE r[j] \in Cells /\ b[r[j]].type # "none" /\ BlockAt(b, D, r, lv, j)
  <2>1. CASE j = n + 1
    <3>0. j - 1 = n /\ j > 1
      BY <1>0, <2>1
    <3>1. j - 1 = n /\ j > 1 /\ r[j] = y /\ r[j - 1] = s[n] /\ lv[j - 1] = K
      BY <1>1, <1>2, <2>1, <3>0
    <3>. QED
      BY <1>22, <1>23, <3>1 DEF BlockAt
  <2>2. CASE j # n + 1
    <3>1. j \in 1 .. n /\ r[j] = s[j]
      BY <1>1, <1>2, <2>2
    <3>2. j > 1 /\ b[s[j - 1]].type = "vector" => /\ r[j - 1] = s[j - 1] /\ lv[j - 1] = lev[j - 1]
                                                  /\ D[lev[j - 1]] = C[lev[j - 1]]
      <4>. SUFFICES ASSUME j > 1, b[s[j - 1]].type = "vector"
                    PROVE  /\ r[j - 1] = s[j - 1] /\ lv[j - 1] = lev[j - 1]
                           /\ D[lev[j - 1]] = C[lev[j - 1]]
        OBVIOUS
      <4>1. j - 1 \in 1 .. n /\ j - 1 < n
        BY <1>1, <3>1
      <4>. QED
        BY <1>1, <1>2, <1>5, <1>20, <4>1
    <3>3. j > 1 => r[j - 1] = s[j - 1]
      <4>. SUFFICES ASSUME j > 1 PROVE r[j - 1] = s[j - 1]
        OBVIOUS
      <4>1. j - 1 \in 1 .. n
        BY <1>1, <3>1
      <4>. QED
        BY <1>2, <4>1
    <3>. QED
      BY <1>6, <3>1, <3>2, <3>3 DEF BlockAt
  <2>. QED
    BY <2>1, <2>2
<1>8. ASSUME NEW i \in 1 .. n + 1, NEW j \in 1 .. n + 1, i < j PROVE InOrder(b, r, lv, i, j)
  <2>0. i \in 1 .. n /\ r[i] = s[i] /\ lv[i] = lev[i]
    BY <1>1, <1>2, <1>8
  <2>1. CASE j = n + 1
    <3>1. s[i] # y /\ lev[i] <= K /\ (i # n /\ b[s[i]].type = "vector" => lev[i] < K)
      <4>1. CASE i = n
        BY <1>1, <4>1
      <4>2. CASE i # n
        <5>1. i < n
          BY <1>0, <2>0, <4>2
        <5>2. i \in 1 .. n
          BY <2>0
        <5>3. lev[i] \in 1 .. K /\ (b[s[i]].type = "vector" => lev[i] < K)
          BY <5>1, <5>2, BehindMarked
        <5>4. s[i] # y
          BY <2>0
        <5>5. lev[i] <= K
          BY <1>1, <5>3
        <5>. QED
          BY <5>3, <5>4, <5>5
      <4>. QED
        BY <4>1, <4>2
    <3>2. L >= K /\ (b[s[n]].type = "vector" => L > K)
      BY <1>1, <1>20, <1>21 DEF Waits, Turned
    <3>3. lev[i] \in Nat /\ r[j] = y /\ lv[j] = L /\ L \in Nat
      BY <1>1, <1>2, <1>20, <2>1
    <3>4. CASE i = n
      BY <1>1, <2>0, <3>1, <3>2, <3>3, <3>4 DEF InOrder
    <3>5. CASE i # n
      <4>1. lev[i] <= L /\ (b[s[i]].type = "vector" => lev[i] < L)
        BY <1>1, <3>1, <3>2, <3>3, <3>5
      <4>. QED
        BY <2>0, <3>1, <3>3, <4>1 DEF InOrder
    <3>. QED
      BY <3>4, <3>5
  <2>2. CASE j # n + 1
    <3>1. j \in 1 .. n /\ r[j] = s[j] /\ lv[j] = lev[j]
      BY <1>1, <1>2, <2>2
    <3>2. InOrder(b, s, lev, i, j)
      BY <1>8, <2>0, <3>1 DEF Chain
    <3>. QED
      BY <2>0, <3>1, <3>2 DEF InOrder
  <2>. QED
    BY <2>1, <2>2
<1>9. ASSUME NEW j \in 1 .. n + 1, j < n + 1 PROVE Behind(g, b, D, r, lv, j)
  <2>0. j \in 1 .. n /\ j \in Nat \ {0}
    BY <1>1, <1>9
  <2>1. CASE j = n
    <3>0. j + 1 = n + 1 /\ Up(b, r, j) = Up(b, s, j)
      BY <1>3, <2>0, <2>1
    <3>1. r[j] = s[n] /\ lv[j] = K /\ r[j + 1] = y /\ lv[j + 1] = L /\ Up(b, r, j) = Up(b, s, n)
      BY <1>1, <1>2, <2>0, <2>1, <3>0, Zenon
    <3>. QED
      BY <1>21, <3>1 DEF Behind
  <2>2. CASE j # n
    <3>0. j < n /\ j + 1 \in 1 .. n
      BY <1>0, <2>0, <2>2
    <3>1. j < n /\ j + 1 \in 1 .. n /\ s[j] \in Cells
      BY <1>6, <2>0, <3>0
    <3>2. Behind(h, b, C, s, lev, j)
      BY <2>0, <3>1 DEF Chain
    <3>3. r[j] = s[j] /\ r[j + 1] = s[j + 1] /\ lv[j] = lev[j] /\ lv[j + 1] = lev[j + 1]
      BY <1>2, <2>0, <3>1
    <3>4. j > 1 => r[j - 1] = s[j - 1]
      <4>. SUFFICES ASSUME j > 1 PROVE r[j - 1] = s[j - 1]
        OBVIOUS
      <4>1. j - 1 \in 1 .. n
        BY <1>1, <2>0
      <4>. QED
        BY <1>2, <4>1
    <3>5. g[s[j]] = h[s[j]] /\ (b[s[j]].type = "vector" => D[lev[j]] = C[lev[j]])
      BY <1>5, <1>20, <2>0, <3>1
    <3>6. b[s[j]].type = "vector" => D[lev[j]] = C[lev[j]]
      BY <3>5
    <3>. HIDE DEF Behind
    <3>. QED
      BY <2>0, <3>2, <3>3, <3>4, <3>5, <3>6, BehindKept
  <2>. QED
    BY <2>1, <2>2
<1>10. ASSUME NEW c \in Cells, \A j \in 1 .. n + 1 : j < n + 1 => r[j] # c PROVE Same(g, b, c)
  <2>1. \A j \in 1 .. n : s[j] # c
    <3>. SUFFICES ASSUME NEW j \in 1 .. n PROVE s[j] # c
      OBVIOUS
    <3>1. j \in 1 .. n + 1 /\ j < n + 1 /\ r[j] = s[j]
      BY <1>1, <1>2
    <3>. QED
      BY <1>10, <3>1
  <2>2. Same(h, b, c) /\ g[c] = h[c]
    BY <1>1, <2>1 DEF Chain
  <2>. QED
    BY <2>2 DEF Same
<1>11. AtTop(g, b, D[L], r[n + 1], Up(b, r, n + 1))
  BY <1>2, <1>4, <1>22 DEF AtTop
<1>12. n + 1 \in Nat /\ n + 1 # 0 /\ L # 0 /\ n + 1 > 0 /\ lv[1] = 1
  <2>1. 1 \in 1 .. n
    BY <1>1
  <2>2. lv[1] = lev[1]
    BY <1>2, <2>1
  <2>3. L # 0
    BY <1>1, <1>21
  <2>. QED
    BY <1>0, <1>1, <2>2, <2>3
<1>. QED
  BY <1>2, <1>20, <1>7, <1>8, <1>9, <1>10, <1>11, <1>12 DEF Chain

\* The chain becomes shorter by its last cell, and the call of the one before goes on.
Drops(g, b, C, D, l, m, s) ==
    /\ D \in [Nat -> CallType] /\ \A k \in Nat : k < l => D[k] = C[k]
    /\ Same(g, b, s[m]) /\ AtTop(g, b, D[l], s[m], Up(b, s, m))

\* mark goes up: the chain is one shorter, and the last cell is as it was.
LEMMA ChainShrinks ==
    ASSUME NEW h, NEW b, HeapOK(b), NEW C, NEW K, NEW n, NEW s, NEW lev, Chain(h, b, C, K, n, s, lev),
           NEW m \in Nat, m > 0, n = m + 1,
           NEW g \in [Cells -> CellType], \A c \in Cells : c # s[m] => g[c] = h[c],
           NEW D, NEW L, L = lev[m], Drops(g, b, C, D, L, m, s)
    PROVE  Chain(g, b, D, L, m, s, lev)
<1>0. m \in 1 .. n /\ m < n /\ n \in Nat /\ 1 \in 1 .. n /\ \A j \in 1 .. m : j \in 1 .. n /\ j < n
  OBVIOUS
<1>1. /\ s \in [Nat -> Nat] /\ lev \in [Nat -> Nat] /\ lev[1] = 1 /\ L \in Nat
  BY <1>0 DEF Chain
<1>2. L # 0
  <2>1. L \in 1 .. K
    BY <1>0, BehindMarked
  <2>2. K \in Nat
    BY DEF Chain
  <2>. QED
    BY <2>1, <2>2
<1>3. D \in [Nat -> CallType] /\ (\A k \in Nat : k < L => D[k] = C[k])
      /\ Same(g, b, s[m]) /\ AtTop(g, b, D[L], s[m], Up(b, s, m))
  BY DEF Drops
<1>4. \A i, j \in 1 .. m : i < j => InOrder(b, s, lev, i, j)
  BY <1>0 DEF Chain
<1>5. \A j \in 1 .. m : j < m => s[j] # s[m] /\ lev[j] \in Nat /\ (b[s[j]].type = "vector" => D[lev[j]] = C[lev[j]])
  <2>. SUFFICES ASSUME NEW j \in 1 .. m, j < m
                PROVE  s[j] # s[m] /\ lev[j] \in Nat /\ (b[s[j]].type = "vector" => D[lev[j]] = C[lev[j]])
    OBVIOUS
  <2>1. InOrder(b, s, lev, j, m)
    BY <1>4
  <2>2. lev[j] \in Nat
    BY <1>1
  <2>. QED
    BY <1>3, <2>1, <2>2 DEF InOrder
<1>6. \A j \in 1 .. m : s[j] \in Cells /\ b[s[j]].type # "none" /\ BlockAt(b, C, s, lev, j)
  BY <1>0 DEF Chain
<1>7. ASSUME NEW j \in 1 .. m PROVE BlockAt(b, D, s, lev, j)
  <2>1. j > 1 /\ b[s[j - 1]].type = "vector" => D[lev[j - 1]] = C[lev[j - 1]]
    <3>. SUFFICES ASSUME j > 1, b[s[j - 1]].type = "vector" PROVE D[lev[j - 1]] = C[lev[j - 1]]
      OBVIOUS
    <3>1. j - 1 \in 1 .. m /\ j - 1 < m
      BY <1>0
    <3>. QED
      BY <1>5, <3>1
  <2>. QED
    BY <1>6, <2>1 DEF BlockAt
<1>8. ASSUME NEW j \in 1 .. m, j < m PROVE Behind(g, b, D, s, lev, j)
  <2>1. Behind(h, b, C, s, lev, j) /\ j \in Nat \ {0} /\ s[j] \in Cells
    BY <1>0, <1>6 DEF Chain
  <2>2. g[s[j]] = h[s[j]] /\ (b[s[j]].type = "vector" => D[lev[j]] = C[lev[j]])
    BY <1>5, <1>8, <2>1
  <2>3. b[s[j]].type = "vector" => D[lev[j]] = C[lev[j]]
    BY <2>2
  <2>. QED
    BY <2>1, <2>2, <2>3, BehindKept
<1>9. ASSUME NEW c \in Cells, \A j \in 1 .. m : j < m => s[j] # c PROVE Same(g, b, c)
  <2>1. CASE c = s[m]
    BY <1>3, <2>1
  <2>2. CASE c # s[m]
    <3>1. ASSUME NEW j \in 1 .. n, j < n PROVE s[j] # c
      <4>1. j \in 1 .. m /\ (j = m \/ j < m)
        BY <1>0, <3>1
      <4>. QED
        BY <1>9, <2>2, <4>1
    <3>2. Same(h, b, c) /\ g[c] = h[c]
      BY <2>2, <3>1 DEF Chain
    <3>. QED
      BY <3>2 DEF Same
  <2>. QED
    BY <2>1, <2>2
<1>10. m # 0 /\ m > 0
  OBVIOUS
<1>. QED
  BY <1>1, <1>2, <1>3, <1>4, <1>6, <1>7, <1>8, <1>9, <1>10 DEF Chain

\* Two cells with the same fields are the same.
LEMMA SameFields ==
    ASSUME NEW x \in CellType, NEW y \in CellType, x.type = y.type, x.atom = y.atom, x.mark = y.mark,
           x.len = y.len, x.car = y.car, x.cdr = y.cdr
    PROVE  x = y
  BY DEF CellType

\* E6, while there is a link to turn back: t is the cell before, and with the link
\* turned back it is as it was.
UpHeap(h, q, p) == IF h[q].atom THEN CarBack(h, q, p) ELSE CdrBack(h, q, p)
UpCall(h, call, q, at) == [call EXCEPT !.t = IF h[q].atom THEN h[q].car ELSE h[q].cdr, !.p = q, !.at = at]
UpDone(h, b, C, K, n, s, lev, q, g, next, m) ==
    /\ m \in Nat /\ n = m + 1 /\ m > 0 /\ q = s[m] /\ b[q].type \in {"pair", "block"}
    /\ h[q].atom \in BOOLEAN
    /\ h[q].atom = TRUE => b[q].car = s[n]
    /\ h[q].atom = FALSE => b[q].cdr = s[n]
    /\ b[q].atom = FALSE /\ g[q] = [b[q] EXCEPT !.mark = TRUE] /\ g[q].mark = TRUE
    /\ \A c \in Cells : c # q => g[c] = h[c]
    /\ Chain(g, b, [C EXCEPT ![K] = next], K, m, s, lev)

\* At E6 the call goes back along the links it has turned, and each is put in place.
LEMMA ChainUp ==
    ASSUME NEW h, NEW b, HeapOK(b), NEW C, NEW K, NEW n, NEW s, NEW lev, Chain(h, b, C, K, n, s, lev), n > 0,
           NEW q, q = C[K].t, q \in Cells, NEW at \in {"E5", "E6"}, NEW call, call = C[K],
           NEW g, g = UpHeap(h, q, call.p), NEW next, next = UpCall(h, call, q, at)
    PROVE  \E m : UpDone(h, b, C, K, n, s, lev, q, g, next, m)
<1>. DEFINE m == n - 1
            D == [C EXCEPT ![K] = next]
<1>1. n \in Nat /\ K \in Nat /\ C \in [Nat -> CallType] /\ AtTop(h, b, C[K], s[n], Up(b, s, n)) /\ lev[n] = K
      /\ h \in [Cells -> CellType] /\ n \in 1 .. n
  BY DEF Chain
<1>2. call \in CallType /\ call.p = s[n] /\ call.t = Up(b, s, n)
  BY <1>1 DEF AtTop
<1>3. n # 1 /\ b[s[n - 1]].type # "vector" /\ q = s[n - 1]
  BY <1>1, <1>2, Numbers DEF Up
<1>4. m \in Nat /\ m > 0 /\ n = m + 1 /\ q = s[m] /\ m \in 1 .. n /\ m < n
  BY <1>1, <1>3
<1>. HIDE DEF m
<1>5. Turned(h, b, q, Up(b, s, m), s[n]) /\ lev[m] = K
  <2>1. Behind(h, b, C, s, lev, m)
    BY <1>4 DEF Chain
  <2>2. b[s[m]].type # "vector"
    BY <1>3, <1>4
  <2>. QED
    BY <1>1, <1>4, <2>1, <2>2 DEF Behind, Waits
<1>6. b[q] \in CellType /\ h[q] \in CellType /\ b[q].atom = FALSE /\ b[q].type \in {"pair", "block"} /\ s[n] \in Cells
  <2>1. CellOK(b, q) /\ b[q] \in CellType /\ h[q] \in CellType /\ b[q].type \in {"pair", "block"} /\ s[n] \in Cells
    BY <1>1, <1>5 DEF HeapOK, Turned, Chain
  <2>. QED
    BY <2>1 DEF CellOK
<1>7. \/ h[q].atom = TRUE /\ h[q] = [b[q] EXCEPT !.mark = TRUE, !.atom = TRUE, !.car = Up(b, s, m)] /\ b[q].car = s[n]
      \/ h[q].atom = FALSE /\ h[q] = [b[q] EXCEPT !.mark = TRUE, !.cdr = Up(b, s, m)] /\ b[q].cdr = s[n]
  BY <1>5, <1>6, ZenonT(60) DEF Turned, CellType
<1>8. g \in [Cells -> CellType] /\ (\A c \in Cells : c # q => g[c] = h[c]) /\ g[q] = [b[q] EXCEPT !.mark = TRUE]
  <2>1. CASE h[q].atom = TRUE
    <3>1. g = [h EXCEPT ![q].car = s[n], ![q].atom = FALSE]
      BY <1>2, <2>1 DEF CarBack, UpHeap
    <3>2. g \in [Cells -> CellType] /\ (\A c \in Cells : c # q => g[c] = h[c])
          /\ g[q] = [h[q] EXCEPT !.car = s[n], !.atom = FALSE]
      <4>. DEFINE f == [h EXCEPT ![q].car = s[n]]
      <4>1. f \in [Cells -> CellType] /\ (\A c \in Cells : c # q => f[c] = h[c]) /\ f[q] = [h[q] EXCEPT !.car = s[n]]
        BY <1>1, <1>6 DEF CellType, Pointers
      <4>2. g = [f EXCEPT ![q].atom = FALSE]
        BY <3>1
      <4>. HIDE DEF f
      <4>3. f[q] \in CellType /\ [f[q] EXCEPT !.atom = FALSE] \in CellType
        <5>1. f[q] \in CellType
          BY <4>1
        <5>. QED
          BY <5>1 DEF CellType
      <4>4. g \in [Cells -> CellType] /\ (\A c \in Cells : c # q => g[c] = f[c]) /\ g[q] = [f[q] EXCEPT !.atom = FALSE]
        BY <4>1, <4>2, <4>3
      <4>5. g[q] = [h[q] EXCEPT !.car = s[n], !.atom = FALSE]
        BY <1>6, <4>1, <4>4 DEF CellType
      <4>. QED
        BY <4>1, <4>4, <4>5
    <3>3. h[q] = [b[q] EXCEPT !.mark = TRUE, !.atom = TRUE, !.car = Up(b, s, m)] /\ b[q].car = s[n]
      BY <1>7, <2>1
    <3>4. g[q] = [b[q] EXCEPT !.mark = TRUE]
      <4>. DEFINE w == [b[q] EXCEPT !.mark = TRUE]
      <4>1. w \in CellType /\ g[q] \in CellType
        BY <1>6, <3>2, ZenonT(60) DEF CellType
      <4>2. /\ h[q].type = b[q].type /\ h[q].mark = TRUE /\ h[q].len = b[q].len /\ h[q].cdr = b[q].cdr
        BY <1>6, <3>3 DEF CellType
      <4>3. /\ g[q].type = h[q].type /\ g[q].mark = h[q].mark /\ g[q].len = h[q].len /\ g[q].cdr = h[q].cdr
            /\ g[q].car = s[n] /\ g[q].atom = FALSE
        BY <1>6, <3>2 DEF CellType
      <4>4. /\ w.type = b[q].type /\ w.mark = TRUE /\ w.len = b[q].len /\ w.cdr = b[q].cdr
            /\ w.car = b[q].car /\ w.atom = b[q].atom
        BY <1>6 DEF CellType
      <4>. HIDE DEF w
      <4>5. g[q].type = w.type /\ g[q].atom = w.atom /\ g[q].mark = w.mark /\ g[q].len = w.len
            /\ g[q].car = w.car /\ g[q].cdr = w.cdr
        BY <1>6, <3>3, <4>2, <4>3, <4>4, ZenonT(60)
      <4>6. g[q] = w
        BY <4>1, <4>5, SameFields
      <4>. QED
        BY <4>6 DEF w
    <3>. QED
      BY <3>2, <3>4
  <2>2. CASE h[q].atom = FALSE
    <3>1. g = [h EXCEPT ![q].cdr = s[n]]
      BY <1>2, <2>2 DEF CdrBack, UpHeap
    <3>2. g \in [Cells -> CellType] /\ (\A c \in Cells : c # q => g[c] = h[c])
          /\ g[q] = [h[q] EXCEPT !.cdr = s[n]]
      BY <1>1, <1>6, <3>1 DEF CellType, Pointers
    <3>3. h[q] = [b[q] EXCEPT !.mark = TRUE, !.cdr = Up(b, s, m)] /\ b[q].cdr = s[n]
      BY <1>7, <2>2
    <3>4. g[q] = [b[q] EXCEPT !.mark = TRUE]
      <4>. DEFINE w == [b[q] EXCEPT !.mark = TRUE]
      <4>1. w \in CellType /\ g[q] \in CellType
        BY <1>6, <3>2, ZenonT(60) DEF CellType
      <4>2. /\ h[q].type = b[q].type /\ h[q].mark = TRUE /\ h[q].len = b[q].len /\ h[q].car = b[q].car
            /\ h[q].atom = b[q].atom
        BY <1>6, <3>3 DEF CellType
      <4>3. /\ g[q].type = h[q].type /\ g[q].mark = h[q].mark /\ g[q].len = h[q].len /\ g[q].car = h[q].car
            /\ g[q].cdr = s[n] /\ g[q].atom = h[q].atom
        BY <1>6, <3>2 DEF CellType
      <4>4. /\ w.type = b[q].type /\ w.mark = TRUE /\ w.len = b[q].len /\ w.cdr = b[q].cdr
            /\ w.car = b[q].car /\ w.atom = b[q].atom
        BY <1>6 DEF CellType
      <4>. HIDE DEF w
      <4>5. g[q].type = w.type /\ g[q].atom = w.atom /\ g[q].mark = w.mark /\ g[q].len = w.len
            /\ g[q].car = w.car /\ g[q].cdr = w.cdr
        BY <3>3, <4>2, <4>3, <4>4, Zenon
      <4>6. g[q] = w
        BY <4>1, <4>5, SameFields
      <4>. QED
        BY <4>6 DEF w
    <3>. QED
      BY <3>2, <3>4
  <2>. QED
    BY <1>7, <2>1, <2>2
<1>9. next.t = Up(b, s, m) /\ next.p = q /\ next.at = at
  <2>1. next.t = (IF h[q].atom THEN h[q].car ELSE h[q].cdr) /\ next.p = q /\ next.at = at
    BY <1>2 DEF CallType, UpCall
  <2>2. CASE h[q].atom = TRUE
    <3>1. h[q].car = Up(b, s, m)
      BY <1>6, <1>7, <2>2 DEF CellType
    <3>. QED
      BY <2>1, <2>2, <3>1
  <2>3. CASE h[q].atom = FALSE
    <3>1. h[q].cdr = Up(b, s, m)
      BY <1>6, <1>7, <2>3 DEF CellType
    <3>. QED
      BY <2>1, <2>3, <3>1
  <2>. QED
    BY <1>7, <2>1, <2>2, <2>3
<1>10. next \in CallType
  <2>1. Up(b, s, m) \in Cells \union {Null}
    <3>1. m = 1 \/ m - 1 \in 1 .. n
      BY <1>1, <1>4
    <3>. QED
      BY <3>1 DEF Up, Chain
  <2>2. next = [call EXCEPT !.t = Up(b, s, m), !.p = q, !.at = at]
    <3>. DEFINE u == IF h[q].atom THEN h[q].car ELSE h[q].cdr
    <3>1. next = [call EXCEPT !.t = u, !.p = q, !.at = at]
      BY DEF UpCall
    <3>. HIDE DEF u
    <3>2. next.t = u
      BY <1>2, <3>1 DEF CallType
    <3>. QED
      BY <1>9, <3>1, <3>2
  <2>. QED
    BY <1>2, <2>1, <2>2 DEF CallType
<1>11. D \in [Nat -> CallType] /\ D[K] = next /\ \A k \in Nat : k < K => D[k] = C[k]
  BY <1>1, <1>10
<1>12. Same(g, b, s[m]) /\ AtTop(g, b, next, s[m], Up(b, s, m))
  <2>1. g[q].mark = TRUE
    BY <1>6, <1>8 DEF CellType
  <2>2. Same(g, b, q)
    BY <1>8, <2>1 DEF Same
  <2>3. AtTop(g, b, next, q, Up(b, s, m))
    BY <1>6, <1>9, <2>1 DEF AtTop
  <2>. QED
    BY <1>4, <2>2, <2>3
<1>. HIDE DEF D
<1>13. Drops(g, b, C, D, K, m, s)
  BY <1>11, <1>12 DEF Drops
<1>14. Chain(g, b, D, K, m, s, lev)
  <2>1. \A c \in Cells : c # s[m] => g[c] = h[c]
    BY <1>4, <1>8
  <2>. QED
    BY <1>4, <1>5, <1>8, <1>13, <2>1, ChainShrinks
<1>15. (h[q].atom = TRUE => b[q].car = s[n]) /\ (h[q].atom = FALSE => b[q].cdr = s[n])
       /\ h[q].atom \in BOOLEAN
  BY <1>7
<1>16. g[q].mark = TRUE
  BY <1>6, <1>8 DEF CellType
<1>. QED
  BY <1>4, <1>6, <1>8, <1>14, <1>15, <1>16 DEF D, UpDone

\* E6, where there is none: the call returns, and the one before goes on with its
\* vector.
LEMMA ChainReturns ==
    ASSUME NEW h, NEW b, HeapOK(b), NEW C, NEW K, NEW n, NEW s, NEW lev, Chain(h, b, C, K, n, s, lev), n > 0,
           C[K].t \notin Cells
    PROVE  \E m \in Nat : /\ n = m + 1
                          /\ m > 0 => b[s[m]].type = "vector"
                          /\ Chain(h, b, C, K - 1, m, s, lev)
<1>. DEFINE m == n - 1
<1>1. n \in Nat /\ K \in Nat /\ AtTop(h, b, C[K], s[n], Up(b, s, n)) /\ lev[n] = K /\ lev[1] = 1
      /\ s \in [Nat -> Nat] /\ lev \in [Nat -> Nat] /\ C \in [Nat -> CallType] /\ h \in [Cells -> CellType]
  BY DEF Chain
<1>2. m \in Nat /\ n = m + 1
  BY <1>1
<1>3. C[K].t = Up(b, s, n)
  BY <1>1 DEF AtTop
<1>4. CASE n = 1
  <2>1. m = 0 /\ K - 1 = 0 /\ K = 1
    BY <1>1, <1>4
  <2>2. \A c \in Cells : Same(h, b, c)
    <3>1. \A j \in 1 .. n : ~ (j < n)
      BY <1>4
    <3>. QED
      BY <3>1 DEF Chain
  <2>3. Chain(h, b, C, 0, 0, s, lev)
    <3>1. 1 .. 0 = {} /\ ~ (0 > 0) /\ 0 \in Nat
      OBVIOUS
    <3>. QED
      BY <1>1, <2>2, <3>1 DEF Chain
  <2>. QED
    BY <1>4, <2>1, <2>3
<1>5. CASE n # 1
  <2>1. m > 0 /\ m \in 1 .. n /\ m < n /\ n - 1 = m
    BY <1>1, <1>5
  <2>. HIDE DEF m
  <2>2. b[s[m]].type = "vector"
    <3>1. s[m] \in Cells
      BY <2>1 DEF Chain
    <3>. QED
      BY <1>3, <1>5, <2>1, <3>1 DEF Up
  <2>3. Waits(h, b, C[lev[m]], s[m], Up(b, s, m)) /\ lev[n] = lev[m] + 1
    <3>1. Behind(h, b, C, s, lev, m)
      BY <2>1 DEF Chain
    <3>. QED
      BY <1>2, <2>2, <3>1 DEF Behind, Turned
  <2>4. lev[m] = K - 1 /\ lev[m] \in Nat
    BY <1>1, <1>2, <2>3
  <2>5. Drops(h, b, C, C, lev[m], m, s)
    <3>1. b[s[m]] \in CellType
      BY <2>1 DEF Chain, HeapOK
    <3>2. h[s[m]].mark = TRUE /\ Same(h, b, s[m])
      BY <2>3, <3>1 DEF Waits, Same, CellType
    <3>3. AtTop(h, b, C[lev[m]], s[m], Up(b, s, m))
      <4>1. C[lev[m]].i <= Blocks(b[s[m]].len)
        BY <2>3 DEF Waits
      <4>. QED
        BY <2>2, <2>3, <3>2, <4>1 DEF AtTop, Waits
    <3>. QED
      BY <1>1, <3>2, <3>3 DEF Drops
  <2>6. Chain(h, b, C, lev[m], m, s, lev)
    BY <1>1, <1>2, <2>1, <2>5, ChainShrinks, ZenonT(60)
  <2>. QED
    BY <1>2, <2>2, <2>4, <2>6
<1>. QED
  BY <1>4, <1>5

-----------------------------------------------------------------------------
(* What mark has seen, and what it has still to see.                       *)

Seen(h, n, s) == {c \in Cells : h[c].mark = TRUE \/ (n > 0 /\ c = s[n])}
\* The links that a call has not yet followed, from the cell where it is.
Left(b, call, x) == \/ call.at \in {"E2", "E4"}
                    \/ call.at = "E5" /\ x = b[call.p].cdr
                    \/ call.at = "E3" /\ call.p + call.i < x
\* Those it will come back to.
LeftBehind(h, b, call, c, x) == IF b[c].type = "vector" THEN c + call.i < x
                                ELSE h[c].atom = TRUE /\ x = b[c].cdr
LeftAt(h, b, C, K, n, s, lev, j, x) ==
    IF j = n THEN Left(b, C[K], x) ELSE LeftBehind(h, b, C[lev[j]], s[j], x)
Followed(h, b, C, K, n, s, lev, c, x) ==
    x \in Seen(h, n, s) \/ \E j \in 1 .. n : s[j] = c /\ LeftAt(h, b, C, K, n, s, lev, j, x)
Colour(h, b, C, K, n, s, lev, L) ==
    /\ Seen(h, n, s) \subseteq L
    /\ \A c \in Seen(h, n, s) : \A x \in Links(b, c) : Followed(h, b, C, K, n, s, lev, c, x)

\* What the innermost call has left.
LEMMA ColourTop ==
    ASSUME NEW h, NEW b, NEW C, NEW K, NEW n, NEW s, NEW lev, NEW L, Chain(h, b, C, K, n, s, lev), n > 0,
           Colour(h, b, C, K, n, s, lev, L)
    PROVE  /\ s[n] \in L /\ s[n] \in Cells
           /\ \A x \in Links(b, s[n]) : x \in Seen(h, n, s) \/ Left(b, C[K], x)
<1>1. n \in Nat /\ n \in 1 .. n /\ s[n] \in Cells /\ s[n] \in Seen(h, n, s)
  <2>1. n \in Nat /\ n \in 1 .. n
    BY DEF Chain
  <2>. QED
    BY <2>1 DEF Chain, Seen
<1>2. \A j \in 1 .. n : s[j] = s[n] => j = n
  <2>. SUFFICES ASSUME NEW j \in 1 .. n, s[j] = s[n], j # n PROVE FALSE
    OBVIOUS
  <2>1. j < n
    BY <1>1
  <2>. QED
    BY <1>1, <2>1 DEF Chain, InOrder
<1>3. ASSUME NEW x \in Links(b, s[n]) PROVE x \in Seen(h, n, s) \/ Left(b, C[K], x)
  <2>1. Followed(h, b, C, K, n, s, lev, s[n], x)
    BY <1>1 DEF Colour
  <2>. QED
    BY <1>2, <2>1 DEF Followed, LeftAt
<1>. QED
  BY <1>1, <1>3 DEF Colour

\* mark changes what is left of the last cell only.
LEMMA ColourStays ==
    ASSUME NEW h, NEW b, HeapOK(b), NEW C, NEW K, NEW n, NEW s, NEW lev, NEW L, Chain(h, b, C, K, n, s, lev), n > 0,
           Colour(h, b, C, K, n, s, lev, L),
           NEW g, \A c \in Cells : c # s[n] => g[c] = h[c],
           NEW D, \A k \in Nat : k < K => D[k] = C[k],
           \A x \in Links(b, s[n]) : x \in Seen(h, n, s) \/ Left(b, D[K], x)
    PROVE  Colour(g, b, D, K, n, s, lev, L) /\ Seen(g, n, s) = Seen(h, n, s)
<1>1. n \in Nat /\ n \in 1 .. n /\ K \in Nat /\ lev \in [Nat -> Nat]
  BY DEF Chain
<1>2. Seen(g, n, s) = Seen(h, n, s)
  BY DEF Seen
<1>3. ASSUME NEW c \in Seen(h, n, s), NEW x \in Links(b, c) PROVE Followed(g, b, D, K, n, s, lev, c, x)
  <2>1. CASE c = s[n]
    <3>1. x \in Seen(h, n, s) \/ Left(b, D[K], x)
      BY <2>1
    <3>. QED
      BY <1>1, <1>2, <2>1, <3>1 DEF Followed, LeftAt
  <2>2. CASE c # s[n]
    <3>1. Followed(h, b, C, K, n, s, lev, c, x)
      BY DEF Colour
    <3>2. ASSUME NEW j \in 1 .. n, s[j] = c, LeftAt(h, b, C, K, n, s, lev, j, x)
          PROVE  LeftAt(g, b, D, K, n, s, lev, j, x)
      <4>1. j # n /\ j < n /\ c \in Cells
        <5>1. j # n /\ c \in Cells
          BY <2>2, <3>2 DEF Seen
        <5>. QED
          BY <1>1, <5>1
      <4>2. lev[j] \in 1 .. K /\ (b[s[j]].type = "vector" => lev[j] < K)
        BY <4>1, BehindMarked
      <4>3. b[s[j]].type = "vector" => D[lev[j]] = C[lev[j]]
        BY <1>1, <4>2
      <4>4. g[c] = h[c]
        BY <2>2, <4>1
      <4>. QED
        BY <3>2, <4>1, <4>3, <4>4 DEF LeftAt, LeftBehind
    <3>. QED
      BY <1>2, <3>1, <3>2 DEF Followed
  <2>. QED
    BY <2>1, <2>2
<1>4. Seen(h, n, s) \subseteq L
  BY DEF Colour
<1>. QED
  BY <1>2, <1>3, <1>4 DEF Colour

\* Of the links of the cell that was the last, y has been followed.
FollowsTo(h, g, b, D, K, n, s, y) ==
    /\ \A c \in Cells : c # s[n] => g[c] = h[c]
    /\ h[s[n]].mark = TRUE /\ g[s[n]].mark = TRUE /\ y \in Cells
    /\ \A x \in Links(b, s[n]) : x \in Seen(h, n, s) \/ x = y \/ LeftBehind(g, b, D[K], s[n], x)
Grows(h, g, b, C, D, K, L, n, s, r, lev, lv, M, y) ==
    /\ HeapOK(b) /\ Chain(h, b, C, K, n, s, lev) /\ n > 0 /\ Colour(h, b, C, K, n, s, lev, M)
    /\ y \in M /\ Pushes(g, b, C, D, K, L, n, s, y)
    /\ Longer(n, s, r, y) /\ Longer(n, lev, lv, L) /\ FollowsTo(h, g, b, D, K, n, s, y)

\* A marked cell is put at the end of the chain.
LEMMA ColourGrows ==
    ASSUME NEW h, NEW g, NEW b, NEW C, NEW D, NEW K, NEW L, NEW n, NEW s, NEW r, NEW lev, NEW lv, NEW M, NEW y,
           Grows(h, g, b, C, D, K, L, n, s, r, lev, lv, M, y)
    PROVE  Colour(g, b, D, L, n + 1, r, lv, M) /\ Seen(g, n + 1, r) = Seen(h, n, s) \union {y}
<1>. /\ HeapOK(b) /\ Chain(h, b, C, K, n, s, lev) /\ n > 0 /\ Colour(h, b, C, K, n, s, lev, M)
     /\ y \in M /\ Pushes(g, b, C, D, K, L, n, s, y)
     /\ Longer(n, s, r, y) /\ Longer(n, lev, lv, L) /\ FollowsTo(h, g, b, D, K, n, s, y)
  BY DEF Grows
<1>0. /\ \A c \in Cells : c # s[n] => g[c] = h[c]
      /\ h[s[n]].mark = TRUE /\ g[s[n]].mark = TRUE /\ y \in Cells
      /\ \A x \in Links(b, s[n]) : x \in Seen(h, n, s) \/ x = y \/ LeftBehind(g, b, D[K], s[n], x)
  BY DEF FollowsTo
<1>1. n \in Nat /\ n > 0 /\ n + 1 \in 1 .. n + 1 /\ n + 1 # n /\ \A j \in 1 .. n : j \in 1 .. n + 1 /\ j # n + 1
  BY DEF Chain
<1>2. /\ K \in Nat /\ lev[n] = K /\ s[n] \in Cells
      /\ r[n + 1] = y /\ lv[n + 1] = L /\ \A j \in 1 .. n : r[j] = s[j] /\ lv[j] = lev[j]
  BY <1>1, SMTT(30) DEF Chain, Longer
<1>3. Seen(g, n + 1, r) = Seen(h, n, s) \union {y}
  <2>1. n + 1 > 0
    BY <1>1
  <2>2. ASSUME NEW c \in Cells PROVE c \in Seen(g, n + 1, r) <=> c \in Seen(h, n, s) \/ c = y
    BY <1>0, <1>2, <2>1 DEF Seen
  <2>3. Seen(g, n + 1, r) \subseteq Cells /\ Seen(h, n, s) \subseteq Cells
    BY DEF Seen
  <2>. QED
    BY <1>0, <2>2, <2>3
<1>4. Seen(g, n + 1, r) \subseteq M
  BY <1>3 DEF Colour
<1>5. ASSUME NEW c \in Seen(g, n + 1, r), NEW x \in Links(b, c) PROVE Followed(g, b, D, L, n + 1, r, lv, c, x)
  <2>1. CASE c = y
    <3>1. D[L].at = "E2"
      BY DEF Pushes
    <3>2. LeftAt(g, b, D, L, n + 1, r, lv, n + 1, x)
      BY <3>1 DEF LeftAt, Left
    <3>. QED
      BY <1>1, <1>2, <2>1, <3>2 DEF Followed
  <2>2. CASE c = s[n]
    <3>1. x \in Seen(h, n, s) \/ x = y \/ LeftBehind(g, b, D[K], s[n], x)
      BY <1>0, <2>2
    <3>2. ASSUME LeftBehind(g, b, D[K], s[n], x) PROVE Followed(g, b, D, L, n + 1, r, lv, c, x)
      <4>1. n \in 1 .. n + 1 /\ r[n] = s[n] /\ lv[n] = K /\ n # n + 1
        BY <1>1, <1>2
      <4>2. LeftAt(g, b, D, L, n + 1, r, lv, n, x)
        BY <3>2, <4>1 DEF LeftAt
      <4>. QED
        BY <2>2, <4>1, <4>2 DEF Followed
    <3>. QED
      BY <1>3, <3>1, <3>2 DEF Followed
  <2>3. CASE c # y /\ c # s[n]
    <3>0. c \in Seen(h, n, s)
      BY <1>3, <2>3
    <3>1. Followed(h, b, C, K, n, s, lev, c, x)
      BY <3>0 DEF Colour
    <3>2. ASSUME NEW j \in 1 .. n, s[j] = c, LeftAt(h, b, C, K, n, s, lev, j, x)
          PROVE  LeftAt(g, b, D, L, n + 1, r, lv, j, x) /\ r[j] = c /\ j \in 1 .. n + 1
      <4>1. j # n /\ j < n /\ c \in Cells
        <5>1. j # n /\ c \in Cells
          BY <2>3, <3>0, <3>2 DEF Seen
        <5>. QED
          BY <1>1, <5>1
      <4>2. lev[j] \in 1 .. K /\ (b[s[j]].type = "vector" => lev[j] < K)
        BY <4>1, BehindMarked
      <4>3. b[s[j]].type = "vector" => D[lev[j]] = C[lev[j]]
        <5>1. \A k \in Nat : k < K => D[k] = C[k]
          BY DEF Pushes
        <5>. QED
          BY <1>2, <4>2, <5>1
      <4>4. g[c] = h[c] /\ r[j] = s[j] /\ lv[j] = lev[j] /\ j # n + 1 /\ j \in 1 .. n + 1
        BY <1>0, <1>1, <1>2, <2>3, <4>1
      <4>5. LeftBehind(h, b, C[lev[j]], c, x)
        BY <3>2, <4>1 DEF LeftAt
      <4>6. LeftBehind(g, b, D[lv[j]], r[j], x)
        BY <3>2, <4>3, <4>4, <4>5 DEF LeftBehind
      <4>. QED
        BY <3>2, <4>4, <4>6 DEF LeftAt
    <3>. QED
      BY <1>3, <3>1, <3>2 DEF Followed
  <2>. QED
    BY <2>1, <2>2, <2>3
<1>. QED
  BY <1>3, <1>4, <1>5 DEF Colour

Shrinks(h, g, b, C, D, K, n, m, s, lev, M) ==
    /\ HeapOK(b) /\ Chain(h, b, C, K, n, s, lev) /\ Colour(h, b, C, K, n, s, lev, M) /\ C[K].at = "E6"
    /\ m \in Nat /\ m > 0 /\ n = m + 1
    /\ (\A c \in Cells : c # s[m] => g[c] = h[c]) /\ g[s[m]].mark = TRUE
    /\ \A k \in Nat : k < lev[m] => D[k] = C[k]
    /\ \A x \in Links(b, s[m]) : LeftBehind(h, b, C[lev[m]], s[m], x)
                                => x \in Seen(h, n, s) \/ Left(b, D[lev[m]], x)

\* The last cell has nothing left to follow: it may go.
LEMMA ColourShrinks ==
    ASSUME NEW h, NEW g, NEW b, NEW C, NEW D, NEW K, NEW n, NEW m, NEW s, NEW lev, NEW M,
           Shrinks(h, g, b, C, D, K, n, m, s, lev, M)
    PROVE  Colour(g, b, D, lev[m], m, s, lev, M) /\ Seen(g, m, s) = Seen(h, n, s)
<1>. /\ HeapOK(b) /\ Chain(h, b, C, K, n, s, lev) /\ Colour(h, b, C, K, n, s, lev, M) /\ C[K].at = "E6"
     /\ m \in Nat /\ m > 0 /\ n = m + 1
     /\ (\A c \in Cells : c # s[m] => g[c] = h[c]) /\ g[s[m]].mark = TRUE
     /\ \A k \in Nat : k < lev[m] => D[k] = C[k]
     /\ \A x \in Links(b, s[m]) : LeftBehind(h, b, C[lev[m]], s[m], x)
                                 => x \in Seen(h, n, s) \/ Left(b, D[lev[m]], x)
  BY DEF Shrinks
<1>1. n \in Nat /\ n > 0 /\ m \in 1 .. n /\ m \in 1 .. m /\ m < n /\ m # n /\ n \in 1 .. n
      /\ \A j \in 1 .. n : j = n \/ j \in 1 .. m
  OBVIOUS
<1>2. s[n] \in Cells /\ s[m] \in Cells /\ lev \in [Nat -> Nat]
  BY <1>1 DEF Chain
<1>3. h[s[n]].mark = TRUE /\ h[s[m]].mark = TRUE
  <2>1. AtTop(h, b, C[K], s[n], Up(b, s, n))
    BY <1>1 DEF Chain
  <2>2. h[s[m]].mark = TRUE
    BY <1>1, BehindMarked
  <2>. QED
    BY <2>1, <2>2 DEF AtTop
<1>4. Seen(g, m, s) = Seen(h, n, s)
  <2>1. ASSUME NEW c \in Cells PROVE c \in Seen(g, m, s) <=> c \in Seen(h, n, s)
    BY <1>2, <1>3 DEF Seen
  <2>2. Seen(g, m, s) \subseteq Cells /\ Seen(h, n, s) \subseteq Cells
    BY DEF Seen
  <2>. QED
    BY <2>1, <2>2
<1>5. ASSUME NEW c \in Seen(h, n, s), NEW x \in Links(b, c) PROVE Followed(g, b, D, lev[m], m, s, lev, c, x)
  <2>1. PICK j \in 1 .. n : x \in Seen(h, n, s) \/ (s[j] = c /\ LeftAt(h, b, C, K, n, s, lev, j, x))
    <3>1. Followed(h, b, C, K, n, s, lev, c, x)
      BY DEF Colour
    <3>. QED
      BY <1>1, <3>1 DEF Followed
  <2>2. CASE x \in Seen(h, n, s)
    BY <1>4, <2>2 DEF Followed
  <2>3. CASE x \notin Seen(h, n, s)
    <3>1. s[j] = c /\ LeftAt(h, b, C, K, n, s, lev, j, x)
      BY <2>1, <2>3
    <3>2. j # n
      BY <3>1 DEF LeftAt, Left
    <3>3. j \in 1 .. m /\ j < n /\ LeftBehind(h, b, C[lev[j]], s[j], x)
      BY <1>1, <3>1, <3>2 DEF LeftAt
    <3>4. CASE j = m
      <4>1. Left(b, D[lev[m]], x)
        BY <2>3, <3>1, <3>3, <3>4
      <4>2. LeftAt(g, b, D, lev[m], m, s, lev, m, x)
        BY <4>1 DEF LeftAt
      <4>. QED
        BY <1>1, <3>1, <3>4, <4>2 DEF Followed
    <3>5. CASE j # m
      <4>1. j < m
        BY <3>3, <3>5
      <4>2. InOrder(b, s, lev, j, m)
        BY <1>1, <4>1 DEF Chain
      <4>3. s[j] # s[m] /\ (b[s[j]].type = "vector" => D[lev[j]] = C[lev[j]])
        BY <1>2, <4>2 DEF InOrder
      <4>4. c \in Cells
        BY DEF Seen
      <4>5. g[c] = h[c]
        BY <3>1, <4>3, <4>4
      <4>6. LeftBehind(g, b, D[lev[j]], s[j], x)
        BY <3>1, <3>3, <4>3, <4>5 DEF LeftBehind
      <4>7. LeftAt(g, b, D, lev[m], m, s, lev, j, x)
        BY <3>5, <4>6 DEF LeftAt
      <4>. QED
        BY <3>1, <3>3, <4>7 DEF Followed
    <3>. QED
      BY <3>4, <3>5
  <2>. QED
    BY <2>2, <2>3
<1>6. Seen(h, n, s) \subseteq M
  BY DEF Colour
<1>. QED
  BY <1>4, <1>5, <1>6 DEF Colour

\* The outermost call returns: no link is left.
LEMMA ColourEnds ==
    ASSUME NEW h, NEW b, NEW C, NEW K, NEW s, NEW lev, NEW M, Chain(h, b, C, K, 1, s, lev),
           Colour(h, b, C, K, 1, s, lev, M), C[K].at = "E6"
    PROVE  Colour(h, b, C, 0, 0, s, lev, M) /\ Seen(h, 0, s) = Seen(h, 1, s)
<1>1. h[s[1]].mark = TRUE
  <2>1. AtTop(h, b, C[K], s[1], Up(b, s, 1))
    BY DEF Chain
  <2>. QED
    BY <2>1 DEF AtTop
<1>2. Seen(h, 0, s) = Seen(h, 1, s)
  BY <1>1 DEF Seen
<1>3. ASSUME NEW c \in Seen(h, 0, s), NEW x \in Links(b, c) PROVE Followed(h, b, C, 0, 0, s, lev, c, x)
  <2>1. Followed(h, b, C, K, 1, s, lev, c, x)
    BY <1>2, <1>3 DEF Colour
  <2>2. \A j \in 1 .. 1 : ~ LeftAt(h, b, C, K, 1, s, lev, j, x)
    BY DEF LeftAt, Left
  <2>. QED
    BY <1>2, <2>1, <2>2 DEF Followed
<1>. QED
  BY <1>2, <1>3 DEF Colour

\* A root is marked next.
Begins(h, b, C, D, s, r, lev, lv, M, y) ==
    /\ Colour(h, b, C, 0, 0, s, lev, M) /\ y \in Cells /\ y \in M /\ D[1].at = "E2" /\ r[1] = y /\ lv[1] = 1

\* gc calls mark for a root.
LEMMA ColourBegins ==
    ASSUME NEW h, NEW b, NEW C, NEW D, NEW s, NEW r, NEW lev, NEW lv, NEW M, NEW y,
           Begins(h, b, C, D, s, r, lev, lv, M, y)
    PROVE  Colour(h, b, D, 1, 1, r, lv, M) /\ Seen(h, 1, r) = Seen(h, 0, s) \union {y}
<1>. Colour(h, b, C, 0, 0, s, lev, M) /\ y \in Cells /\ y \in M /\ D[1].at = "E2" /\ r[1] = y
  BY DEF Begins
<1>1. Seen(h, 1, r) = Seen(h, 0, s) \union {y}
  <2>1. ASSUME NEW c \in Cells PROVE c \in Seen(h, 1, r) <=> c \in Seen(h, 0, s) \/ c = y
    BY DEF Seen
  <2>2. Seen(h, 1, r) \subseteq Cells /\ Seen(h, 0, s) \subseteq Cells
    BY DEF Seen
  <2>. QED
    BY <2>1, <2>2
<1>2. ASSUME NEW c \in Seen(h, 1, r), NEW x \in Links(b, c) PROVE Followed(h, b, D, 1, 1, r, lv, c, x)
  <2>1. CASE c = y
    <3>1. 1 \in 1 .. 1 /\ LeftAt(h, b, D, 1, 1, r, lv, 1, x)
      BY DEF LeftAt, Left
    <3>. QED
      BY <2>1, <3>1 DEF Followed
  <2>2. CASE c # y
    <3>1. Followed(h, b, C, 0, 0, s, lev, c, x)
      BY <1>1, <2>2 DEF Colour
    <3>2. 1 .. 0 = {}
      OBVIOUS
    <3>. QED
      BY <1>1, <3>1, <3>2 DEF Followed
  <2>. QED
    BY <2>1, <2>2
<1>. QED
  BY <1>1, <1>2 DEF Colour

-----------------------------------------------------------------------------
(* The steps of mark.                                                      *)

\* The cell of the innermost call is as it was.
TopIs(h, b, C, K, n, s) ==
    /\ n \in Nat /\ K \in Nat /\ K > 0 /\ n \in 1 .. n /\ s[n] \in Cells /\ s[n] \in Nat
    /\ C[K] \in CallType /\ C \in [Nat -> CallType] /\ C[K].p = s[n] /\ C[K].t = Up(b, s, n)
    /\ h \in [Cells -> CellType] /\ h[s[n]] \in CellType /\ b[s[n]] \in CellType /\ CellOK(b, s[n])
    /\ h[s[n]] = [b[s[n]] EXCEPT !.mark = h[s[n]].mark]
    /\ h[s[n]].type = b[s[n]].type /\ h[s[n]].atom = b[s[n]].atom /\ h[s[n]].len = b[s[n]].len
    /\ h[s[n]].car = b[s[n]].car /\ h[s[n]].cdr = b[s[n]].cdr
    /\ b[s[n]].type # "none"

\* What the last cell of the chain looks like.
LEMMA TopSame ==
    ASSUME NEW h, NEW b, HeapOK(b), NEW C, NEW K, NEW n, NEW s, NEW lev, Chain(h, b, C, K, n, s, lev), n > 0
    PROVE  TopIs(h, b, C, K, n, s)
<1>1. n \in Nat /\ K \in Nat /\ K # 0 /\ C \in [Nat -> CallType] /\ s \in [Nat -> Nat]
      /\ h \in [Cells -> CellType] /\ AtTop(h, b, C[K], s[n], Up(b, s, n))
  BY DEF Chain
<1>2. n \in 1 .. n /\ K > 0
  BY <1>1
<1>3. s[n] \in Cells /\ b[s[n]].type # "none"
  BY <1>2 DEF Chain
<1>4. Same(h, b, s[n])
  <2>1. ASSUME NEW j \in 1 .. n, j < n PROVE s[j] # s[n]
    BY <1>2, <2>1 DEF Chain, InOrder
  <2>. QED
    BY <1>3, <2>1 DEF Chain
<1>5. h[s[n]] \in CellType /\ b[s[n]] \in CellType /\ CellOK(b, s[n]) /\ h[s[n]] = [b[s[n]] EXCEPT !.mark = h[s[n]].mark]
  BY <1>1, <1>3, <1>4 DEF Same, HeapOK
<1>6. /\ h[s[n]].type = b[s[n]].type /\ h[s[n]].atom = b[s[n]].atom /\ h[s[n]].len = b[s[n]].len
      /\ h[s[n]].car = b[s[n]].car /\ h[s[n]].cdr = b[s[n]].cdr
  BY <1>5 DEF CellType
<1>7. C[K] \in CallType /\ C[K].p = s[n] /\ C[K].t = Up(b, s, n)
  BY <1>1 DEF AtTop
<1>. QED
  BY <1>1, <1>2, <1>3, <1>5, <1>6, <1>7 DEF TopIs

\* The cells that are seen are those that were before, or y too.
Marks(h, b, C, K, n, s, lev, L) ==
    Chain(h, b, C, K, n, s, lev) /\ Colour(h, b, C, K, n, s, lev, L)

MarkedAt(h, g, p) == g = h \/ g = [h EXCEPT ![p].mark = TRUE]

\* E2: the cell is marked.  E3, E4 and E5 where they lead nowhere.
Stays(h, b, C, K, n, s, lev, L, g, call, D) ==
    /\ HeapOK(b) /\ Marks(h, b, C, K, n, s, lev, L) /\ n > 0 /\ D = [C EXCEPT ![K] = call]
    /\ MarkedAt(h, g, s[n]) /\ g[s[n]].mark = TRUE
    /\ call \in CallType /\ call.p = s[n] /\ call.t = C[K].t /\ call.at # "E2"
    /\ call.at = "E3" => b[s[n]].type = "vector" /\ call.i <= Blocks(b[s[n]].len)
    /\ call.at \in {"E4", "E5"} => b[s[n]].type \in {"pair", "block"}
    /\ \A x \in Links(b, s[n]) : x \in Seen(h, n, s) \/ Left(b, call, x)

\* A step of mark that goes neither down nor up keeps the invariant.
LEMMA MarkStays ==
    ASSUME NEW h, NEW b, NEW C, NEW K, NEW n, NEW s, NEW lev, NEW L, NEW g, NEW call, NEW D,
           Stays(h, b, C, K, n, s, lev, L, g, call, D)
    PROVE  Marks(g, b, D, K, n, s, lev, L) /\ Seen(g, n, s) = Seen(h, n, s)
<1>0. /\ HeapOK(b) /\ n > 0 /\ D = [C EXCEPT ![K] = call]
      /\ MarkedAt(h, g, s[n]) /\ g[s[n]].mark = TRUE
      /\ call \in CallType /\ call.p = s[n] /\ call.t = C[K].t /\ call.at # "E2"
      /\ call.at = "E3" => b[s[n]].type = "vector" /\ call.i <= Blocks(b[s[n]].len)
      /\ call.at \in {"E4", "E5"} => b[s[n]].type \in {"pair", "block"}
      /\ \A x \in Links(b, s[n]) : x \in Seen(h, n, s) \/ Left(b, call, x)
  BY DEF Stays
<1>1. Chain(h, b, C, K, n, s, lev) /\ Colour(h, b, C, K, n, s, lev, L)
  BY DEF Marks, Stays
<1>2. /\ K \in Nat /\ s[n] \in Cells /\ C \in [Nat -> CallType] /\ C[K].t = Up(b, s, n) /\ h \in [Cells -> CellType]
      /\ h[s[n]] \in CellType /\ b[s[n]] \in CellType /\ h[s[n]] = [b[s[n]] EXCEPT !.mark = h[s[n]].mark]
  <2>1. TopIs(h, b, C, K, n, s)
    BY <1>0, <1>1, TopSame
  <2>. QED
    BY <2>1 DEF TopIs
<1>3. g \in [Cells -> CellType] /\ (\A c \in Cells : c # s[n] => g[c] = h[c]) /\ Same(g, b, s[n])
  <2>1. CASE g = h
    BY <1>2, <2>1 DEF Same
  <2>2. CASE g = [h EXCEPT ![s[n]].mark = TRUE]
    <3>1. [h[s[n]] EXCEPT !.mark = TRUE] \in CellType
      BY <1>2 DEF CellType
    <3>2. g \in [Cells -> CellType] /\ (\A c \in Cells : c # s[n] => g[c] = h[c])
          /\ g[s[n]] = [h[s[n]] EXCEPT !.mark = TRUE]
      BY <1>2, <2>2, <3>1
    <3>3. Same(g, b, s[n])
      BY <1>2, <3>2 DEF Same, CellType
    <3>. QED
      BY <3>2, <3>3
  <2>. QED
    BY <1>0, <2>1, <2>2 DEF MarkedAt
<1>4. AtTop(g, b, call, s[n], Up(b, s, n))
  BY <1>0, <1>2 DEF AtTop
<1>5. Chain(g, b, [C EXCEPT ![K] = call], K, n, s, lev)
  BY <1>0, <1>1, <1>3, <1>4, ChainStays
<1>6. D[K] = call /\ \A k \in Nat : k < K => D[k] = C[k]
  BY <1>0, <1>2
<1>7. \A x \in Links(b, s[n]) : x \in Seen(h, n, s) \/ Left(b, D[K], x)
  BY <1>0, <1>6
<1>8. Colour(g, b, D, K, n, s, lev, L) /\ Seen(g, n, s) = Seen(h, n, s)
  <2>1. HeapOK(b) /\ n > 0 /\ (\A c \in Cells : c # s[n] => g[c] = h[c]) /\ \A k \in Nat : k < K => D[k] = C[k]
    BY <1>0, <1>3, <1>6
  <2>. QED
    BY <1>1, <1>7, <2>1, ColourStays
<1>. QED
  BY <1>0, <1>5, <1>8 DEF Marks

\* A sequence can be made longer by one.
LEMMA LongerIs ==
    ASSUME NEW s \in [Nat -> Nat], NEW n \in Nat, NEW x \in Nat
    PROVE  Longer(n, s, [s EXCEPT ![n + 1] = x], x)
<1>1. n + 1 \in Nat /\ \A j \in 1 .. n : j \in Nat /\ j # n + 1
  OBVIOUS
<1>. QED
  BY <1>1 DEF Longer

\* E4 and E5: a link is turned and followed.
DownHeap(h, call, p) == IF call.at = "E4" THEN CarTurned(h, p, call.t) ELSE [h EXCEPT ![p].cdr = call.t]
DownCall(call, p, y) == [call EXCEPT !.t = p, !.p = y, !.at = "E2"]
Downs(h, b, C, K, n, s, lev, L, call, y, g, next) ==
    /\ HeapOK(b) /\ Marks(h, b, C, K, n, s, lev, L) /\ n > 0
    /\ \A c \in L : Links(b, c) \subseteq L
    /\ call = C[K] /\ call.at \in {"E4", "E5"}
    /\ y = IF call.at = "E4" THEN h[s[n]].car ELSE h[s[n]].cdr
    /\ y \notin {Nil, Null} /\ h[y].mark = FALSE
    /\ g = DownHeap(h, call, s[n]) /\ next = DownCall(call, s[n], y)
MarksOn(h, b, C, K, n, s, L, g, next) ==
    \E m, r, lv : /\ Marks(g, b, [C EXCEPT ![K] = next], K, m, r, lv, L)
                  /\ Seen(h, n, s) \subseteq Seen(g, m, r)

\* A step down a link keeps the invariant.
LEMMA MarkDown ==
    ASSUME NEW h, NEW b, NEW C, NEW K, NEW n, NEW s, NEW lev, NEW L, NEW call, NEW y, NEW g, NEW next,
           Downs(h, b, C, K, n, s, lev, L, call, y, g, next)
    PROVE  MarksOn(h, b, C, K, n, s, L, g, next)
<1>. SUFFICES ASSUME HeapOK(b), Marks(h, b, C, K, n, s, lev, L), n > 0, \A c \in L : Links(b, c) \subseteq L,
                     call = C[K], call.at \in {"E4", "E5"},
                     y = IF call.at = "E4" THEN h[s[n]].car ELSE h[s[n]].cdr,
                     y \notin {Nil, Null}, h[y].mark = FALSE,
                     g = DownHeap(h, call, s[n]), next = DownCall(call, s[n], y)
              PROVE  \E m, r, lv : /\ Marks(g, b, [C EXCEPT ![K] = next], K, m, r, lv, L)
                                   /\ Seen(h, n, s) \subseteq Seen(g, m, r)
  BY Zenon DEF Downs, MarksOn
<1>. DEFINE D == [C EXCEPT ![K] = next]
            r == [s EXCEPT ![n + 1] = y]
            lv == [lev EXCEPT ![n + 1] = K]
            p == s[n]
<1>1. Chain(h, b, C, K, n, s, lev) /\ Colour(h, b, C, K, n, s, lev, L)
  BY DEF Marks
<1>2. /\ n \in Nat /\ K \in Nat /\ p \in Cells /\ C \in [Nat -> CallType] /\ C[K].p = p /\ C[K].t = Up(b, s, n)
      /\ call \in CallType /\ h \in [Cells -> CellType]
      /\ h[p] \in CellType /\ b[p] \in CellType /\ CellOK(b, p) /\ h[p] = [b[p] EXCEPT !.mark = h[p].mark]
      /\ h[p].car = b[p].car /\ h[p].cdr = b[p].cdr
  <2>1. TopIs(h, b, C, K, n, s)
    BY <1>1, TopSame
  <2>. QED
    BY <2>1 DEF TopIs
<1>3. s \in [Nat -> Nat] /\ lev \in [Nat -> Nat] /\ AtTop(h, b, call, p, Up(b, s, n))
  BY <1>1 DEF Chain
<1>4. b[p].type \in {"pair", "block"} /\ h[p].mark = TRUE /\ h[p] = [b[p] EXCEPT !.mark = TRUE]
  BY <1>2, <1>3, SMTT(30) DEF AtTop
<1>5. IsObject(b, y) /\ y \in Links(b, p) /\ y \in Cells /\ y \in Nat /\ y = (IF call.at = "E4" THEN b[p].car ELSE b[p].cdr)
      /\ Links(b, p) = {b[p].car, b[p].cdr} \ {Nil} /\ b[p].atom = FALSE
  <2>1. IsPointer(b, b[p].car) /\ IsPointer(b, b[p].cdr) /\ b[p].atom = FALSE
    BY <1>2, <1>4 DEF CellOK
  <2>2. Links(b, p) = {b[p].car, b[p].cdr} \ {Nil}
    BY <1>4, <2>1 DEF Links
  <2>3. y = IF call.at = "E4" THEN b[p].car ELSE b[p].cdr
    BY <1>2
  <2>4. IsObject(b, y)
    BY <2>1, <2>3 DEF IsPointer
  <2>. QED
    BY <2>1, <2>2, <2>3, <2>4, CellsAre DEF IsObject
<1>6. \A j \in 1 .. n : s[j] # y
  <2>. SUFFICES ASSUME NEW j \in 1 .. n, s[j] = y PROVE FALSE
    OBVIOUS
  <2>1. j # n
    BY <1>4
  <2>2. j < n
    BY <1>2, <2>1
  <2>3. h[s[j]].mark = TRUE
    BY <1>1, <2>2, BehindMarked
  <2>. QED
    BY <2>3
<1>7. call.t \in Cells \union {Null}
  BY <1>2 DEF CallType
<1>8. /\ g \in [Cells -> CellType] /\ \A c \in Cells : c # p => g[c] = h[c]
      /\ g[p] = IF call.at = "E4" THEN [h[p] EXCEPT !.car = call.t, !.atom = TRUE] ELSE [h[p] EXCEPT !.cdr = call.t]
  <2>1. CASE call.at = "E4"
    <3>. DEFINE f == [h EXCEPT ![p].car = call.t]
    <3>1. [h[p] EXCEPT !.car = call.t] \in CellType
      BY <1>2, <1>7 DEF CellType, Pointers
    <3>2. f \in [Cells -> CellType] /\ (\A c \in Cells : c # p => f[c] = h[c]) /\ f[p] = [h[p] EXCEPT !.car = call.t]
      BY <1>2, <3>1
    <3>3. g = [f EXCEPT ![p].atom = TRUE]
      BY <2>1 DEF CarTurned, DownHeap
    <3>. HIDE DEF f
    <3>4. [f[p] EXCEPT !.atom = TRUE] \in CellType
      <4>1. f[p] \in CellType
        BY <1>2, <3>2
      <4>. QED
        BY <4>1 DEF CellType
    <3>5. g \in [Cells -> CellType] /\ (\A c \in Cells : c # p => g[c] = f[c]) /\ g[p] = [f[p] EXCEPT !.atom = TRUE]
      BY <1>2, <3>2, <3>3, <3>4, ZenonT(60)
    <3>6. g[p] = [h[p] EXCEPT !.car = call.t, !.atom = TRUE]
      BY <1>2, <3>2, <3>5 DEF CellType
    <3>. QED
      BY <2>1, <3>2, <3>5, <3>6
  <2>2. CASE call.at = "E5"
    <3>1. [h[p] EXCEPT !.cdr = call.t] \in CellType
      BY <1>2, <1>7 DEF CellType, Pointers
    <3>2. g = [h EXCEPT ![p].cdr = call.t] /\ call.at # "E4"
      BY <2>2, SMTT(30) DEF DownHeap
    <3>. QED
      BY <1>2, <3>1, <3>2
  <2>. QED
    BY <2>1, <2>2
<1>9. next \in CallType /\ next.p = y /\ next.at = "E2" /\ next.t = p
  BY <1>2, <1>5 DEF CallType, DownCall
<1>10. D \in [Nat -> CallType] /\ D[K] = next /\ \A k \in Nat : k < K => D[k] = C[k]
  BY <1>2, <1>9
<1>11. Longer(n, s, r, y) /\ Longer(n, lev, lv, K)
  BY <1>2, <1>3, <1>5, LongerIs
<1>12. Turned(g, b, p, Up(b, s, n), y)
  <2>1. CASE call.at = "E4"
    <3>1. g[p] = [h[p] EXCEPT !.car = call.t, !.atom = TRUE] /\ b[p].car = y
      BY <1>5, <1>8, <2>1
    <3>2. g[p] = [b[p] EXCEPT !.mark = TRUE, !.atom = TRUE, !.car = call.t]
      BY <1>2, <1>4, <3>1, ZenonT(60) DEF CellType
    <3>. QED
      BY <1>2, <1>4, <3>1, <3>2 DEF Turned
  <2>2. CASE call.at = "E5"
    <3>1. g[p] = [h[p] EXCEPT !.cdr = call.t] /\ b[p].cdr = y
      BY <1>5, <1>8, <2>2
    <3>2. g[p] = [b[p] EXCEPT !.mark = TRUE, !.cdr = call.t]
      BY <1>2, <1>4, <3>1 DEF CellType
    <3>. QED
      BY <1>2, <1>4, <3>1, <3>2 DEF Turned
  <2>. QED
    BY <2>1, <2>2
<1>13. g[p].mark = TRUE /\ (call.at = "E4" => g[p].atom = TRUE)
  BY <1>2, <1>4, <1>8 DEF CellType
<1>14. y \in L
  <2>1. s[n] \in L
    BY <1>1, ColourTop
  <2>. QED
    BY <1>5, <2>1
<1>15. ASSUME NEW x \in Links(b, p) PROVE x \in Seen(h, n, s) \/ x = y \/ LeftBehind(g, b, D[K], p, x)
  <2>1. x \in Seen(h, n, s) \/ Left(b, call, x)
    BY <1>1, ColourTop
  <2>2. b[p].type # "vector"
    BY <1>4
  <2>3. CASE call.at = "E4"
    BY <1>5, <1>13, <2>2, <2>3 DEF LeftBehind
  <2>4. CASE call.at = "E5"
    BY <1>2, <1>5, <2>1, <2>4, SMTT(30) DEF Left
  <2>. QED
    BY <2>3, <2>4
<1>16. Pushes(g, b, C, D, K, K, n, s, y)
  <2>1. b[y].type \in {"pair", "number", "vector"}
    BY <1>5, SMTT(30) DEF IsObject
  <2>2. D[K].t = IF b[s[n]].type = "vector" THEN Null ELSE s[n]
    BY <1>4, <1>9, <1>10, ZenonT(60)
  <2>. HIDE DEF D
  <2>. QED
    BY <1>2, <1>9, <1>10, <1>12, <2>1, <2>2, ZenonT(60) DEF Pushes
<1>. HIDE DEF D, r, lv, p
<1>17. Chain(g, b, D, K, n + 1, r, lv)
  <2>1. g \in [Cells -> CellType] /\ \A c \in Cells : c # s[n] => g[c] = h[c]
    BY <1>8 DEF p
  <2>2. y \in Cells /\ \A j \in 1 .. n : s[j] # y
    BY <1>5, <1>6
  <2>. QED
    BY <1>1, <1>11, <1>16, <2>1, <2>2, ChainGrows, SMTT(30)
<1>18. Colour(g, b, D, K, n + 1, r, lv, L) /\ Seen(g, n + 1, r) = Seen(h, n, s) \union {y}
  <2>1. /\ \A c \in Cells : c # s[n] => g[c] = h[c]
        /\ \A x \in Links(b, s[n]) : x \in Seen(h, n, s) \/ x = y \/ LeftBehind(g, b, D[K], s[n], x)
    BY <1>8, <1>15 DEF p
  <2>2. h[s[n]].mark = TRUE /\ g[s[n]].mark = TRUE /\ y \in Cells
    BY <1>4, <1>5, <1>13 DEF p
  <2>3. FollowsTo(h, g, b, D, K, n, s, y)
    BY <2>1, <2>2 DEF FollowsTo
  <2>4. Grows(h, g, b, C, D, K, K, n, s, r, lev, lv, L, y)
    BY <1>1, <1>11, <1>14, <1>16, <2>3 DEF Grows
  <2>. QED
    BY <2>4, ColourGrows
<1>. QED
  BY <1>17, <1>18 DEF Marks, D

NextCell(call) == [call EXCEPT !.i = @ + 1]

\* E3: the call waits for that of a cell of its vector.
LEMMA MarkCell ==
    ASSUME NEW h, NEW b, HeapOK(b), NEW C, NEW K, NEW n, NEW s, NEW lev, NEW L, Marks(h, b, C, K, n, s, lev, L), n > 0,
           \A c \in L : Links(b, c) \subseteq L,
           NEW call, call = C[K], call.at = "E3", call.i < Blocks(h[s[n]].len),
           NEW y, y = s[n] + 1 + call.i,
           NEW next, next = NextCell(call)
    PROVE  y \in Cells /\ \E m, r, lv : /\ Marks(h, b, [C EXCEPT ![K] = next, ![K + 1] = Call(y)], K + 1, m, r, lv, L)
                                        /\ Seen(h, n, s) \subseteq Seen(h, m, r)
<1>. DEFINE D == [C EXCEPT ![K] = next, ![K + 1] = Call(y)]
            r == [s EXCEPT ![n + 1] = y]
            lv == [lev EXCEPT ![n + 1] = K + 1]
            p == s[n]
<1>1. Chain(h, b, C, K, n, s, lev) /\ Colour(h, b, C, K, n, s, lev, L)
  BY DEF Marks
<1>2. /\ n \in Nat /\ K \in Nat /\ p \in Cells /\ p \in Nat /\ C \in [Nat -> CallType] /\ C[K].p = p /\ C[K].t = Up(b, s, n)
      /\ call \in CallType /\ h \in [Cells -> CellType]
      /\ h[p] \in CellType /\ b[p] \in CellType /\ CellOK(b, p) /\ h[p] = [b[p] EXCEPT !.mark = h[p].mark]
      /\ h[p].len = b[p].len /\ n \in 1 .. n
  <2>1. TopIs(h, b, C, K, n, s)
    BY <1>1, TopSame
  <2>. QED
    BY <2>1 DEF TopIs
<1>3. s \in [Nat -> Nat] /\ lev \in [Nat -> Nat] /\ AtTop(h, b, call, p, Up(b, s, n))
  BY <1>1 DEF Chain
<1>4. b[p].type = "vector" /\ h[p].mark = TRUE /\ h[p] = [b[p] EXCEPT !.mark = TRUE]
  BY <1>2, <1>3 DEF AtTop
<1>5. call.i \in Nat /\ Blocks(b[p].len) \in Nat /\ call.i + 1 \in 1 .. Blocks(b[p].len) /\ y = p + (call.i + 1)
  <2>1. call.i \in Nat /\ b[p].len \in Nat
    BY <1>2, SMTT(30) DEF CallType, CellType
  <2>2. Blocks(b[p].len) \in Nat
    BY <2>1 DEF Blocks
  <2>3. call.i < Blocks(b[p].len)
    BY <1>2
  <2>. QED
    BY <1>2, <2>1, <2>2, <2>3
<1>6. y \in Cells /\ b[y].type = "block" /\ y \in Nat
  <2>1. y \in Cells /\ b[y].type = "block"
    BY <1>2, <1>4, <1>5 DEF CellOK
  <2>. QED
    BY <2>1, CellsAre
<1>7. y \in Links(b, p) /\ Links(b, p) = p + 1 .. p + Blocks(b[p].len)
  BY <1>2, <1>4, <1>5 DEF Links
<1>8. \A j \in 1 .. n : s[j] # y
  <2>. SUFFICES ASSUME NEW j \in 1 .. n, s[j] = y PROVE FALSE
    OBVIOUS
  <2>1. BlockAt(b, C, s, lev, j)
    BY <1>1 DEF Chain
  <2>2. j > 1 /\ b[s[j - 1]].type = "vector" /\ y = s[j - 1] + C[lev[j - 1]].i
    BY <1>6, <2>1 DEF BlockAt
  <2>3. j - 1 \in 1 .. n /\ j - 1 < n /\ j - 1 # n
    BY <1>2, <2>2
  <2>4. Behind(h, b, C, s, lev, j - 1) /\ s[j - 1] \in Cells
    BY <1>1, <2>3 DEF Chain
  <2>5. C[lev[j - 1]].i \in 1 .. Blocks(b[s[j - 1]].len)
    BY <2>2, <2>4 DEF Behind, Waits, Turned
  <2>6. s[j - 1] = p
    <3>. HIDE DEF p
    <3>1. p + (call.i + 1) = s[j - 1] + C[lev[j - 1]].i
      BY <1>5, <2>2
    <3>. QED
      BY <1>2, <1>4, <1>5, <2>2, <2>4, <2>5, <3>1, VectorOf
  <2>7. InOrder(b, s, lev, j - 1, n)
    BY <1>1, <1>2, <2>3 DEF Chain
  <2>. QED
    BY <2>6, <2>7 DEF InOrder
<1>9. next \in CallType /\ next.p = p /\ next.at = "E3" /\ next.t = call.t /\ next.i = call.i + 1
  <2>1. call \in CallType /\ call.p = p /\ call.at = "E3" /\ call.i + 1 \in Nat
    BY <1>2, <1>5
  <2>. HIDE DEF p
  <2>2. next = [call EXCEPT !.i = call.i + 1]
    BY DEF NextCell
  <2>. QED
    BY <2>1, <2>2 DEF CallType
<1>10. Call(y) \in CallType /\ Call(y).p = y /\ Call(y).at = "E2" /\ Call(y).t = Null
  BY <1>6 DEF Call, CallType
<1>11. D \in [Nat -> CallType] /\ D[K] = next /\ D[K + 1] = Call(y) /\ \A k \in Nat : k < K => D[k] = C[k]
  <2>1. K + 1 \in Nat /\ K + 1 # K /\ \A k \in Nat : k < K => k # K /\ k # K + 1
    BY <1>2
  <2>2. \A k \in Nat : D[k] = IF k = K + 1 THEN Call(y) ELSE IF k = K THEN next ELSE C[k]
    BY <1>2, <2>1
  <2>3. D \in [Nat -> CallType]
    BY <1>2, <1>9, <1>10, <2>1
  <2>. HIDE DEF D
  <2>. QED
    BY <1>2, <2>1, <2>2, <2>3
<1>12. Longer(n, s, r, y) /\ Longer(n, lev, lv, K + 1)
  <2>1. K + 1 \in Nat
    BY <1>2
  <2>. QED
    BY <1>2, <1>3, <1>6, <2>1, LongerIs
<1>. HIDE DEF D, r, lv, p
<1>13. Waits(h, b, D[K], p, Up(b, s, n))
  BY <1>2, <1>4, <1>5, <1>9, <1>11 DEF Waits
<1>14. y \in L
  <2>1. s[n] \in L
    BY <1>1, ColourTop
  <2>. QED
    BY <1>7, <2>1 DEF p
<1>15. ASSUME NEW x \in Links(b, p) PROVE x \in Seen(h, n, s) \/ x = y \/ LeftBehind(h, b, D[K], p, x)
  <2>1. x \in Seen(h, n, s) \/ Left(b, call, x)
    BY <1>1, ColourTop DEF p
  <2>2. CASE Left(b, call, x)
    <3>1. p + call.i < x
      BY <1>2, <2>2 DEF Left
    <3>2. x \in Nat
      BY <1>2, <1>5, <1>7
    <3>3. x = y \/ p + (call.i + 1) < x
      BY <1>2, <1>5, <3>1, <3>2
    <3>. QED
      BY <1>4, <1>9, <1>11, <3>3 DEF LeftBehind
  <2>. QED
    BY <2>1, <2>2
<1>16. Pushes(h, b, C, D, K, K + 1, n, s, y)
  <2>1. y = s[n] + D[K].i
    BY <1>5, <1>9, <1>11 DEF p
  <2>2. Waits(h, b, D[K], s[n], Up(b, s, n)) /\ b[s[n]].type = "vector"
    BY <1>4, <1>13 DEF p
  <2>3. K + 1 \in Nat
    BY <1>2
  <2>. QED
    BY <1>6, <1>10, <1>11, <2>1, <2>2, <2>3 DEF Pushes
<1>17. Chain(h, b, D, K + 1, n + 1, r, lv)
  BY <1>1, <1>2, <1>6, <1>8, <1>12, <1>16, ChainGrows
<1>18. Colour(h, b, D, K + 1, n + 1, r, lv, L) /\ Seen(h, n + 1, r) = Seen(h, n, s) \union {y}
  <2>1. h[s[n]].mark = TRUE
    BY <1>4 DEF p
  <2>2. \A x \in Links(b, s[n]) : x \in Seen(h, n, s) \/ x = y \/ LeftBehind(h, b, D[K], s[n], x)
    BY <1>15 DEF p
  <2>3. \A c \in Cells : c # s[n] => h[c] = h[c]
    OBVIOUS
  <2>4. y \in Cells
    BY <1>6
  <2>5. FollowsTo(h, h, b, D, K, n, s, y)
    BY <2>1, <2>2, <2>3, <2>4 DEF FollowsTo
  <2>6. Grows(h, h, b, C, D, K, K + 1, n, s, r, lev, lv, L, y)
    BY <1>1, <1>12, <1>14, <1>16, <2>5 DEF Grows
  <2>. QED
    BY <2>6, ColourGrows
<1>. QED
  BY <1>6, <1>17, <1>18 DEF Marks, D

\* E6: a link is turned back.
LEMMA MarkUp ==
    ASSUME NEW h, NEW b, HeapOK(b), NEW C, NEW K, NEW n, NEW s, NEW lev, NEW L, Marks(h, b, C, K, n, s, lev, L), n > 0,
           NEW call, call = C[K], call.at = "E6", NEW q, q = call.t, q \in Cells,
           NEW g, g = UpHeap(h, q, call.p),
           NEW next, next = UpCall(h, call, q, IF h[q].atom THEN "E5" ELSE "E6")
    PROVE  \E m : /\ Marks(g, b, [C EXCEPT ![K] = next], K, m, s, lev, L)
                  /\ Seen(g, m, s) = Seen(h, n, s)
<1>. DEFINE D == [C EXCEPT ![K] = next]
            at == IF h[q].atom THEN "E5" ELSE "E6"
<1>1. Chain(h, b, C, K, n, s, lev) /\ Colour(h, b, C, K, n, s, lev, L)
  BY DEF Marks
<1>2. at \in {"E5", "E6"}
  OBVIOUS
<1>. HIDE DEF at
<1>3. PICK m : UpDone(h, b, C, K, n, s, lev, q, g, next, m)
  <2>1. next = UpCall(h, call, q, at)
    BY DEF at
  <2>2. q = C[K].t
    OBVIOUS
  <2>. QED
    BY <1>1, <1>2, <2>1, <2>2, ChainUp
<1>4. /\ m \in Nat /\ n = m + 1 /\ m > 0 /\ q = s[m] /\ b[q].type \in {"pair", "block"}
      /\ h[q].atom \in BOOLEAN
      /\ g[q].mark = TRUE /\ \A c \in Cells : c # q => g[c] = h[c]
  BY <1>3 DEF UpDone
<1>5. Chain(g, b, D, K, m, s, lev)
  BY <1>3 DEF UpDone
<1>6. TopIs(h, b, C, K, n, s)
  BY <1>1, TopSame
<1>7. C \in [Nat -> CallType] /\ K \in Nat /\ call \in CallType
  BY <1>6 DEF TopIs
<1>8. D[K] = next /\ (\A k \in Nat : k < K => D[k] = C[k])
  BY <1>7
<1>9. next.p = q /\ next.at = IF h[q].atom = TRUE THEN "E5" ELSE "E6"
  BY <1>4, <1>7 DEF UpCall, CallType
<1>. HIDE DEF D
<1>10. lev[m] = K
  BY <1>4, <1>5 DEF Chain
<1>11. Shrinks(h, g, b, C, D, K, n, m, s, lev, L)
  <2>1. ASSUME NEW x \in Links(b, s[m]), LeftBehind(h, b, C[lev[m]], s[m], x) PROVE Left(b, D[lev[m]], x)
    <3>1. h[q].atom = TRUE /\ x = b[q].cdr
      BY <1>4, <2>1 DEF LeftBehind
    <3>. QED
      BY <1>8, <1>9, <1>10, <3>1 DEF Left
  <2>2. C[K].at = "E6" /\ g[s[m]].mark = TRUE /\ (\A c \in Cells : c # s[m] => g[c] = h[c])
    BY <1>4
  <2>3. \A k \in Nat : k < lev[m] => D[k] = C[k]
    BY <1>8, <1>10
  <2>. QED
    BY <1>1, <1>4, <2>1, <2>2, <2>3 DEF Shrinks
<1>12. Colour(g, b, D, lev[m], m, s, lev, L) /\ Seen(g, m, s) = Seen(h, n, s)
  BY <1>11, ColourShrinks
<1>. QED
  BY <1>5, <1>10, <1>12 DEF Marks, D

\* E6: the call returns.
LEMMA MarkReturns ==
    ASSUME NEW h, NEW b, HeapOK(b), NEW C, NEW K, NEW n, NEW s, NEW lev, NEW L, Marks(h, b, C, K, n, s, lev, L), n > 0,
           C[K].at = "E6", C[K].t \notin Cells
    PROVE  \E m : /\ Marks(h, b, C, K - 1, m, s, lev, L)
                  /\ Seen(h, m, s) = Seen(h, n, s)
<1>1. Chain(h, b, C, K, n, s, lev) /\ Colour(h, b, C, K, n, s, lev, L)
  BY DEF Marks
<1>2. PICK m \in Nat : /\ n = m + 1
                       /\ m > 0 => b[s[m]].type = "vector"
                       /\ Chain(h, b, C, K - 1, m, s, lev)
  BY <1>1, ChainReturns
<1>3. CASE m = 0
  <2>1. n = 1 /\ K - 1 = 0
    BY <1>2, <1>3 DEF Chain
  <2>2. Colour(h, b, C, 0, 0, s, lev, L) /\ Seen(h, 0, s) = Seen(h, 1, s)
    BY <1>1, <2>1, ColourEnds
  <2>. QED
    BY <1>2, <1>3, <2>1, <2>2 DEF Marks
<1>4. CASE m # 0
  <2>1. m > 0 /\ b[s[m]].type = "vector" /\ m \in 1 .. n /\ m < n
    BY <1>2, <1>4
  <2>2. lev[m] = K - 1 /\ AtTop(h, b, C[K - 1], s[m], Up(b, s, m))
    BY <1>2, <2>1 DEF Chain
  <2>3. Behind(h, b, C, s, lev, m) /\ s[m] \in Cells
    BY <1>1, <2>1 DEF Chain
  <2>4. C[lev[m]].p = s[m] /\ C[lev[m]].at = "E3"
    BY <2>1, <2>3 DEF Behind, Waits, Turned
  <2>5. h[s[m]].mark = TRUE
    BY <1>1, <2>1, BehindMarked
  <2>6. Shrinks(h, h, b, C, C, K, n, m, s, lev, L)
    <3>1. ASSUME NEW x \in Links(b, s[m]), LeftBehind(h, b, C[lev[m]], s[m], x) PROVE Left(b, C[lev[m]], x)
      BY <2>1, <2>4, <3>1 DEF LeftBehind, Left
    <3>2. \A k \in Nat : k < lev[m] => C[k] = C[k]
      OBVIOUS
    <3>3. \A c \in Cells : c # s[m] => h[c] = h[c]
      OBVIOUS
    <3>. QED
      BY <1>1, <1>2, <2>1, <2>5, <3>1, <3>2, <3>3 DEF Shrinks
  <2>7. Colour(h, b, C, lev[m], m, s, lev, L) /\ Seen(h, m, s) = Seen(h, n, s)
    BY <2>6, ColourShrinks
  <2>. QED
    BY <1>2, <2>2, <2>7 DEF Marks
<1>. QED
  BY <1>3, <1>4

\* mark of a root begins.
LEMMA MarkBegins ==
    ASSUME NEW h, NEW b, HeapOK(b), NEW C, NEW n, NEW s, NEW lev, NEW L, Marks(h, b, C, 0, n, s, lev, L),
           NEW y \in L, IsObject(b, y)
    PROVE  \E r, lv : /\ Marks(h, b, [C EXCEPT ![1] = Call(y)], 1, 1, r, lv, L)
                      /\ Seen(h, 1, r) = Seen(h, n, s) \union {y}
<1>. DEFINE D == [C EXCEPT ![1] = Call(y)]
            r == [s EXCEPT ![1] = y]
            lv == [lev EXCEPT ![1] = 1]
<1>1. Chain(h, b, C, 0, n, s, lev) /\ Colour(h, b, C, 0, n, s, lev, L)
  BY DEF Marks
<1>2. n = 0
  BY <1>1 DEF Chain
<1>3. y \in Cells /\ y \in Nat /\ b[y].type \in {"pair", "number", "vector"}
  BY CellsAre DEF IsObject
<1>4. Call(y) \in CallType /\ Call(y).p = y /\ Call(y).at = "E2" /\ Call(y).t = Null
  BY <1>3 DEF Call, CallType
<1>5. C \in [Nat -> CallType] /\ s \in [Nat -> Nat] /\ lev \in [Nat -> Nat] /\ h \in [Cells -> CellType]
  BY <1>1 DEF Chain
<1>6. D \in [Nat -> CallType] /\ D[1] = Call(y) /\ r \in [Nat -> Nat] /\ r[1] = y /\ lv \in [Nat -> Nat] /\ lv[1] = 1
  BY <1>3, <1>4, <1>5
<1>. HIDE DEF D, r, lv
<1>7. \A c \in Cells : Same(h, b, c)
  <2>1. 1 .. 0 = {}
    OBVIOUS
  <2>. QED
    BY <1>1, <1>2, <2>1 DEF Chain
<1>8. Chain(h, b, D, 1, 1, r, lv)
  <2>1. 1 .. 1 = {1} /\ ~ (1 < 1) /\ ~ (1 > 1) /\ 1 \in Nat /\ 1 # 0
    OBVIOUS
  <2>2. AtTop(h, b, D[1], r[1], Up(b, r, 1))
    BY <1>4, <1>6 DEF AtTop, Up
  <2>3. BlockAt(b, D, r, lv, 1)
    BY <1>3, <1>6 DEF BlockAt
  <2>. QED
    BY <1>3, <1>5, <1>6, <1>7, <2>1, <2>2, <2>3 DEF Chain
<1>9. Colour(h, b, D, 1, 1, r, lv, L) /\ Seen(h, 1, r) = Seen(h, 0, s) \union {y}
  <2>1. Colour(h, b, C, 0, 0, s, lev, L) /\ D[1].at = "E2"
    BY <1>1, <1>2, <1>4, <1>6
  <2>2. Begins(h, b, C, D, s, r, lev, lv, L, y)
    BY <1>3, <1>6, <2>1 DEF Begins
  <2>. QED
    BY <2>2, ColourBegins
<1>. QED
  BY <1>2, <1>8, <1>9 DEF Marks, D

-----------------------------------------------------------------------------
(* The calls as gc.calls holds them, the innermost first.                  *)

Stacked(calls, C, K) == /\ calls \in Seq(CallType) /\ K = Len(calls)
                        /\ \A l, j \in 1 .. K : l + j = K + 1 => calls[j] = C[l]

\* The first of gc.calls is the innermost.
LEMMA StackTop ==
    ASSUME NEW calls, NEW C, NEW K, Stacked(calls, C, K), calls # <<>>
    PROVE  K \in Nat /\ K > 0 /\ Head(calls) = C[K] /\ Head(calls) \in CallType
<1>1. calls \in Seq(CallType) /\ K = Len(calls) /\ K \in Nat /\ K > 0
  BY DEF Stacked
<1>2. Head(calls) = calls[1] /\ 1 \in 1 .. K /\ K \in 1 .. K /\ K + 1 = K + 1
  BY <1>1
<1>3. calls[1] = C[K]
  BY <1>1, <1>2 DEF Stacked
<1>. QED
  BY <1>1, <1>2, <1>3

\* The innermost call goes on.
LEMMA StackGoes ==
    ASSUME NEW calls, NEW C, C \in [Nat -> CallType], NEW K, Stacked(calls, C, K), calls # <<>>, NEW call \in CallType
    PROVE  Stacked(<<call>> \o Tail(calls), [C EXCEPT ![K] = call], K)
<1>. DEFINE D == [C EXCEPT ![K] = call]
            new == <<call>> \o Tail(calls)
<1>1. calls \in Seq(CallType) /\ K = Len(calls) /\ K \in Nat /\ K > 0
  BY DEF Stacked
<1>2. new \in Seq(CallType) /\ Len(new) = K /\ new[1] = call /\ \A j \in 2 .. K : new[j] = calls[j]
  BY <1>1
<1>3. D[K] = call /\ \A l \in Nat : l # K => D[l] = C[l]
  BY <1>1
<1>. HIDE DEF D, new
<1>4. ASSUME NEW l \in 1 .. K, NEW j \in 1 .. K, l + j = K + 1 PROVE new[j] = D[l]
  <2>1. CASE j = 1
    BY <1>1, <1>2, <1>3, <1>4, <2>1
  <2>2. CASE j # 1
    <3>1. j \in 2 .. K /\ l # K /\ l \in Nat
      BY <1>1, <1>4, <2>2
    <3>2. calls[j] = C[l]
      BY <1>4 DEF Stacked
    <3>. QED
      BY <1>2, <1>3, <3>1, <3>2
  <2>. QED
    BY <2>1, <2>2
<1>5. Stacked(new, D, K)
  BY <1>2, <1>4 DEF Stacked
<1>. QED
  BY <1>5 DEF D, new

\* mark calls itself.
LEMMA StackCalls ==
    ASSUME NEW calls, NEW C, C \in [Nat -> CallType], NEW K, Stacked(calls, C, K), calls # <<>>,
           NEW call \in CallType, NEW inner \in CallType
    PROVE  Stacked(<<inner, call>> \o Tail(calls), [C EXCEPT ![K] = call, ![K + 1] = inner], K + 1)
<1>. DEFINE D == [C EXCEPT ![K] = call, ![K + 1] = inner]
            new == <<inner, call>> \o Tail(calls)
<1>1. calls \in Seq(CallType) /\ K = Len(calls) /\ K \in Nat /\ K > 0
  BY DEF Stacked
<1>2. new \in Seq(CallType) /\ Len(new) = K + 1 /\ new[1] = inner /\ new[2] = call
      /\ \A j \in 3 .. K + 1 : new[j] = calls[j - 1]
  BY <1>1
<1>3. D[K + 1] = inner /\ D[K] = call /\ \A l \in Nat : l # K /\ l # K + 1 => D[l] = C[l]
  <2>1. K + 1 \in Nat /\ K + 1 # K
    BY <1>1
  <2>. QED
    BY <1>1, <2>1
<1>. HIDE DEF D, new
<1>4. ASSUME NEW l \in 1 .. K + 1, NEW j \in 1 .. K + 1, l + j = (K + 1) + 1 PROVE new[j] = D[l]
  <2>1. CASE j = 1
    <3>1. l = K + 1
      BY <1>1, <1>4, <2>1
    <3>. QED
      BY <1>2, <1>3, <2>1, <3>1
  <2>2. CASE j = 2
    <3>1. l = K
      BY <1>1, <1>4, <2>2
    <3>. QED
      BY <1>2, <1>3, <2>2, <3>1
  <2>3. CASE j # 1 /\ j # 2
    <3>1. j \in 3 .. K + 1 /\ l # K /\ l # K + 1 /\ l \in Nat /\ j - 1 \in 1 .. K /\ l \in 1 .. K /\ l + (j - 1) = K + 1
      BY <1>1, <1>4, <2>3
    <3>2. calls[j - 1] = C[l]
      BY <3>1 DEF Stacked
    <3>. QED
      BY <1>2, <1>3, <3>1, <3>2
  <2>. QED
    BY <2>1, <2>2, <2>3
<1>5. Stacked(new, D, K + 1)
  BY <1>2, <1>4 DEF Stacked
<1>. QED
  BY <1>5 DEF D, new

\* The innermost call returns.
LEMMA StackPops ==
    ASSUME NEW calls, NEW C, NEW K, Stacked(calls, C, K), calls # <<>>
    PROVE  Stacked(Tail(calls), C, K - 1)
<1>. DEFINE new == Tail(calls)
<1>1. calls \in Seq(CallType) /\ K = Len(calls) /\ K \in Nat /\ K > 0
  BY DEF Stacked
<1>2. new \in Seq(CallType) /\ Len(new) = K - 1 /\ \A j \in 1 .. K - 1 : new[j] = calls[j + 1]
  BY <1>1
<1>. HIDE DEF new
<1>4. ASSUME NEW l \in 1 .. K - 1, NEW j \in 1 .. K - 1, l + j = (K - 1) + 1 PROVE new[j] = C[l]
  <2>1. l \in 1 .. K /\ j + 1 \in 1 .. K /\ l + (j + 1) = K + 1
    BY <1>1, <1>4
  <2>2. calls[j + 1] = C[l]
    BY <2>1 DEF Stacked
  <2>. QED
    BY <1>2, <2>2
<1>5. Stacked(new, C, K - 1)
  BY <1>2, <1>4 DEF Stacked
<1>. QED
  BY <1>5 DEF new

\* gc calls mark.
LEMMA StackBegins ==
    ASSUME NEW C, C \in [Nat -> CallType], NEW call \in CallType
    PROVE  Stacked(<<call>>, [C EXCEPT ![1] = call], 1)
<1>1. <<call>> \in Seq(CallType) /\ Len(<<call>>) = 1 /\ <<call>>[1] = call /\ 1 .. 1 = {1}
  OBVIOUS
<1>2. [C EXCEPT ![1] = call][1] = call
  OBVIOUS
<1>. QED
  BY <1>1, <1>2 DEF Stacked

-----------------------------------------------------------------------------
(* The steps of mark keep its invariant.  R are the roots.                 *)

GcType == [pc : {"off", "mark", "sweep", "swept", "grown"}, todo : Seq(Cells), calls : Seq(CallType),
           scan : Cells \union {0}]
RootsSeen(h, b, g, R, n, s) ==
    /\ \A x \in R : x = Nil \/ x \in Seen(h, n, s) \/ \E i \in 1 .. Len(g.todo) : g.todo[i] = x
    /\ \A i \in 1 .. Len(g.todo) : IsObject(b, g.todo[i]) /\ g.todo[i] \in Reach(b, R)
MarkGhost(h, b, g, R, C, K, n, s, lev) ==
    /\ Stacked(g.calls, C, K) /\ Marks(h, b, C, K, n, s, lev, Reach(b, R))
    /\ RootsSeen(h, b, g, R, n, s)
MarkOK(h, b, g, R) == \E C, K, n, s, lev : MarkGhost(h, b, g, R, C, K, n, s, lev)
\* gc is marking, and what it marks is in place.
MarkNow(R, C, K, n, s, lev) ==
    /\ gc.pc = "mark" /\ gc \in GcType /\ HeapOK(before) /\ MarkGhost(cell, before, gc, R, C, K, n, s, lev)
    /\ \A c \in Reach(before, R) : Links(before, c) \subseteq Reach(before, R)
MarkNext(R) == /\ gc' \in GcType /\ gc'.pc = "mark" /\ cell' \in [Cells -> CellType] /\ before' = before
               /\ MarkOK(cell', before, gc', R)

\* Nothing else of gc changes.
LEMMA GcCalls ==
    ASSUME NEW g \in GcType, NEW calls \in Seq(CallType), NEW f, f = [g EXCEPT !.calls = calls]
    PROVE  f \in GcType /\ f.pc = g.pc /\ f.todo = g.todo /\ f.calls = calls
  BY DEF GcType

\* The calls and the heap have changed, and no cell is unseen that was seen.
Changes(h, b, g, R, C, K, n, s, lev, h2, calls, D, K2, m, r, lv) ==
    /\ MarkGhost(h, b, g, R, C, K, n, s, lev)
    /\ Stacked(calls, D, K2) /\ Marks(h2, b, D, K2, m, r, lv, Reach(b, R))
    /\ Seen(h, n, s) \subseteq Seen(h2, m, r)

\* A step that keeps the invariant of the heap and of the calls keeps that of gc.
LEMMA MarkChanges ==
    ASSUME NEW h, NEW b, NEW g \in GcType, NEW R, NEW C, NEW K, NEW n, NEW s, NEW lev,
           NEW h2, NEW calls, NEW D, NEW K2, NEW m, NEW r, NEW lv,
           Changes(h, b, g, R, C, K, n, s, lev, h2, calls, D, K2, m, r, lv)
    PROVE  LET f == [g EXCEPT !.calls = calls]
           IN  f \in GcType /\ f.pc = g.pc /\ h2 \in [Cells -> CellType] /\ MarkOK(h2, b, f, R)
<1>. DEFINE f == [g EXCEPT !.calls = calls]
<1>1. /\ Stacked(g.calls, C, K) /\ RootsSeen(h, b, g, R, n, s)
      /\ Stacked(calls, D, K2) /\ Marks(h2, b, D, K2, m, r, lv, Reach(b, R))
      /\ Seen(h, n, s) \subseteq Seen(h2, m, r)
  BY DEF Changes, MarkGhost
<1>2. calls \in Seq(CallType)
  BY <1>1 DEF Stacked
<1>3. f \in GcType /\ f.pc = g.pc /\ f.todo = g.todo /\ f.calls = calls
  BY <1>2, GcCalls
<1>. HIDE DEF f
<1>4. RootsSeen(h2, b, f, R, m, r)
  BY <1>1, <1>3 DEF RootsSeen
<1>5. MarkGhost(h2, b, f, R, D, K2, m, r, lv)
  BY <1>1, <1>3, <1>4 DEF MarkGhost
<1>6. MarkOK(h2, b, f, R)
  BY <1>5 DEF MarkOK
<1>7. h2 \in [Cells -> CellType]
  BY <1>1 DEF Marks, Chain
<1>. QED
  BY <1>3, <1>6, <1>7 DEF f

\* The innermost call.
LEMMA TopNow ==
    ASSUME NEW R, NEW C, NEW K, NEW n, NEW s, NEW lev, MarkNow(R, C, K, n, s, lev), gc.calls # <<>>
    PROVE  /\ TopIs(cell, before, C, K, n, s) /\ n > 0 /\ Top = C[K] /\ Stacked(gc.calls, C, K)
           /\ Marks(cell, before, C, K, n, s, lev, Reach(before, R))
<1>1. /\ gc \in GcType /\ HeapOK(before) /\ Stacked(gc.calls, C, K)
      /\ Marks(cell, before, C, K, n, s, lev, Reach(before, R))
  BY DEF MarkNow, MarkGhost
<1>2. K \in Nat /\ K > 0 /\ Head(gc.calls) = C[K]
  BY <1>1, StackTop
<1>3. Chain(cell, before, C, K, n, s, lev)
  BY <1>1 DEF Marks
<1>4. n > 0
  BY <1>2, <1>3 DEF Chain
<1>5. TopIs(cell, before, C, K, n, s)
  BY <1>1, <1>3, <1>4, TopSame
<1>. QED
  BY <1>1, <1>2, <1>4, <1>5 DEF Top

\* The innermost call stays where it is.
StaysWith(R, C, K, n, s, call, g) ==
    /\ MarkedAt(cell, g, s[n]) /\ g[s[n]].mark = TRUE
    /\ call \in CallType /\ call.p = s[n] /\ call.t = C[K].t /\ call.at # "E2"
    /\ call.at = "E3" => before[s[n]].type = "vector" /\ call.i <= Blocks(before[s[n]].len)
    /\ call.at \in {"E4", "E5"} => before[s[n]].type \in {"pair", "block"}
    /\ \A x \in Links(before, s[n]) : x \in Seen(cell, n, s) \/ Left(before, call, x)

\* The innermost call goes on, and the chain is the same.
LEMMA StayNow ==
    ASSUME NEW R, NEW C, NEW K, NEW n, NEW s, NEW lev, MarkNow(R, C, K, n, s, lev), gc.calls # <<>>,
           NEW call, NEW g, StaysWith(R, C, K, n, s, call, g), gc' = Goes(call), cell' = g, before' = before
    PROVE  MarkNext(R)
<1>. DEFINE D == [C EXCEPT ![K] = call]
            L == Reach(before, R)
            calls == <<call>> \o Tail(gc.calls)
<1>1. /\ TopIs(cell, before, C, K, n, s) /\ n > 0 /\ Stacked(gc.calls, C, K)
      /\ Marks(cell, before, C, K, n, s, lev, L)
  BY TopNow
<1>2. /\ MarkedAt(cell, g, s[n]) /\ g[s[n]].mark = TRUE
      /\ call \in CallType /\ call.p = s[n] /\ call.t = C[K].t /\ call.at # "E2"
      /\ call.at = "E3" => before[s[n]].type = "vector" /\ call.i <= Blocks(before[s[n]].len)
      /\ call.at \in {"E4", "E5"} => before[s[n]].type \in {"pair", "block"}
      /\ \A x \in Links(before, s[n]) : x \in Seen(cell, n, s) \/ Left(before, call, x)
  BY DEF StaysWith
<1>3. HeapOK(before) /\ gc \in GcType /\ gc.pc = "mark" /\ MarkGhost(cell, before, gc, R, C, K, n, s, lev)
  BY DEF MarkNow
<1>. HIDE DEF L
<1>4. Marks(g, before, D, K, n, s, lev, L) /\ Seen(g, n, s) = Seen(cell, n, s)
  <2>1. Stays(cell, before, C, K, n, s, lev, L, g, call, D)
    BY <1>1, <1>2, <1>3 DEF Stays
  <2>. HIDE DEF D
  <2>. QED
    BY <2>1, MarkStays
<1>5. C \in [Nat -> CallType]
  BY <1>1 DEF TopIs
<1>6. Stacked(calls, D, K)
  BY <1>1, <1>2, <1>5, StackGoes
<1>7. gc' = [gc EXCEPT !.calls = calls]
  BY DEF Goes
<1>. HIDE DEF D, calls
<1>8. Changes(cell, before, gc, R, C, K, n, s, lev, g, calls, D, K, n, s, lev)
  BY <1>3, <1>4, <1>6 DEF Changes, L
<1>9. LET f == [gc EXCEPT !.calls = calls]
      IN  f \in GcType /\ f.pc = gc.pc /\ g \in [Cells -> CellType] /\ MarkOK(g, before, f, R)
  BY <1>3, <1>8, MarkChanges
<1>. QED
  BY <1>3, <1>7, <1>9 DEF MarkNext

\* E2 sets the mark.
LEMMA E2Next ==
    ASSUME NEW R, NEW C, NEW K, NEW n, NEW s, NEW lev, MarkNow(R, C, K, n, s, lev), E2
    PROVE  MarkNext(R)
<1>. DEFINE p == s[n]
            call == [Top EXCEPT !.i = 0, !.at = IF cell[Top.p].type = "vector" THEN "E3"
                                                ELSE IF cell[Top.p].atom THEN "E6" ELSE "E4"]
<1>1. gc.calls # <<>> /\ Top.at = "E2" /\ cell' = [cell EXCEPT ![Top.p].mark = TRUE] /\ before' = before
      /\ gc' = Goes(call)
  BY DEF E2, In, MarkUnchanged
<1>2. TopIs(cell, before, C, K, n, s) /\ Top = C[K]
  BY <1>1, TopNow
<1>3. /\ p \in Cells /\ p \in Nat /\ cell \in [Cells -> CellType] /\ cell[p] \in CellType
      /\ before[p] \in CellType /\ CellOK(before, p) /\ Top \in CallType /\ Top.p = p
      /\ cell[p].type = before[p].type /\ cell[p].atom = before[p].atom /\ before[p].type # "none"
  BY <1>2 DEF TopIs
<1>4. \/ before[p].type = "vector"
      \/ before[p].type = "number" /\ before[p].atom = TRUE
      \/ before[p].type \in {"pair", "block"} /\ before[p].atom = FALSE
  <2>1. before[p].type \in {"pair", "number", "vector", "block"}
    BY <1>3 DEF CellType
  <2>2. before[p].type \in {"pair", "block"} => before[p].atom = FALSE
    BY <1>3 DEF CellOK
  <2>3. before[p].type = "number" => before[p].atom = TRUE
    BY <1>3 DEF CellOK
  <2>. QED
    BY <2>1, <2>2, <2>3
<1>5. /\ call \in CallType /\ call.p = p /\ call.t = C[K].t /\ call.i = 0
      /\ call.at = IF before[p].type = "vector" THEN "E3" ELSE IF before[p].atom THEN "E6" ELSE "E4"
  BY <1>2, <1>3 DEF CallType
<1>. HIDE DEF call
<1>6. ASSUME NEW x \in Links(before, p) PROVE Left(before, call, x)
  <2>1. CASE before[p].type = "vector"
    <3>1. x \in p + 1 .. p + Blocks(before[p].len)
      BY <2>1 DEF Links
    <3>2. before[p].len \in Nat
      BY <1>3 DEF CellType
    <3>3. Blocks(before[p].len) \in Nat
      BY <3>2 DEF Blocks
    <3>4. p + 0 < x
      BY <1>3, <3>1, <3>3
    <3>. QED
      BY <1>5, <2>1, <3>4 DEF Left
  <2>2. CASE before[p].type # "vector"
    <3>1. before[p].atom = FALSE
      BY <1>4, <2>2 DEF Links
    <3>. QED
      BY <1>5, <2>2, <3>1 DEF Left
  <2>. QED
    BY <2>1, <2>2
<1>7. cell'[p].mark = TRUE /\ MarkedAt(cell, cell', p)
  <2>1. cell' = [cell EXCEPT ![p].mark = TRUE]
    BY <1>1, <1>3
  <2>2. cell'[p].mark = TRUE
    BY <1>3, <2>1 DEF CellType
  <2>. QED
    BY <2>1, <2>2 DEF MarkedAt
<1>8. call.at = "E3" => 0 <= Blocks(before[p].len)
  <2>1. before[p].len \in Nat
    BY <1>3 DEF CellType
  <2>. QED
    BY <2>1 DEF Blocks
<1>9. StaysWith(R, C, K, n, s, call, cell')
  BY <1>4, <1>5, <1>6, <1>7, <1>8 DEF StaysWith
<1>. QED
  BY <1>1, <1>9, StayNow

\* E3 calls mark for a cell of a vector, or is done with them.
LEMMA E3Next ==
    ASSUME NEW R, NEW C, NEW K, NEW n, NEW s, NEW lev, MarkNow(R, C, K, n, s, lev), E3
    PROVE  MarkNext(R)
<1>. DEFINE p == s[n]
            L == Reach(before, R)
<1>1. gc.calls # <<>> /\ Top.at = "E3" /\ cell' = cell /\ before' = before
      /\ gc' = IF Top.i < Blocks(cell[Top.p].len)
               THEN Calls([Top EXCEPT !.i = @ + 1], Top.p + 1 + Top.i)
               ELSE Goes([Top EXCEPT !.at = "E6"])
  BY DEF E3, In, MarkUnchanged
<1>2. /\ TopIs(cell, before, C, K, n, s) /\ Top = C[K] /\ n > 0 /\ Stacked(gc.calls, C, K)
      /\ Marks(cell, before, C, K, n, s, lev, L)
  BY <1>1, TopNow
<1>3. /\ p \in Cells /\ p \in Nat /\ cell \in [Cells -> CellType] /\ cell[p] \in CellType
      /\ before[p] \in CellType /\ CellOK(before, p) /\ Top \in CallType /\ Top.p = p
      /\ cell[p].len = before[p].len /\ C \in [Nat -> CallType]
  BY <1>2 DEF TopIs
<1>4. Chain(cell, before, C, K, n, s, lev) /\ Colour(cell, before, C, K, n, s, lev, L)
  BY <1>2 DEF Marks
<1>5. before[p].type = "vector" /\ Top.i <= Blocks(before[p].len) /\ cell[p].mark = TRUE
  <2>1. AtTop(cell, before, C[K], s[n], Up(before, s, n))
    BY <1>2, <1>4 DEF Chain
  <2>. QED
    BY <1>1, <1>2, <2>1 DEF AtTop
<1>6. HeapOK(before) /\ gc \in GcType /\ gc.pc = "mark" /\ MarkGhost(cell, before, gc, R, C, K, n, s, lev)
      /\ \A c \in L : Links(before, c) \subseteq L
  BY DEF MarkNow
<1>. HIDE DEF L
<1>7. CASE Top.i < Blocks(cell[Top.p].len)
  <2>. DEFINE next == NextCell(Top)
              y == p + 1 + Top.i
              D == [C EXCEPT ![K] = next, ![K + 1] = Call(y)]
              calls == <<Call(y), next>> \o Tail(gc.calls)
  <2>1. gc' = [gc EXCEPT !.calls = calls]
    BY <1>1, <1>3, <1>7 DEF Calls, NextCell
  <2>2. PICK m, r, lv : /\ Marks(cell, before, D, K + 1, m, r, lv, L)
                        /\ Seen(cell, n, s) \subseteq Seen(cell, m, r)
    <3>1. Top.i < Blocks(cell[s[n]].len)
      BY <1>3, <1>7
    <3>. HIDE DEF next
    <3>. QED
      BY <1>1, <1>2, <1>6, <3>1, MarkCell DEF next
  <2>3. y \in Cells
    <3>1. Top.i < Blocks(cell[s[n]].len)
      BY <1>3, <1>7
    <3>. QED
      BY <1>1, <1>2, <1>6, <3>1, MarkCell
  <2>4. next \in CallType /\ Call(y) \in CallType
    <3>1. Top.i + 1 \in Nat
      BY <1>3 DEF CallType
    <3>2. next \in CallType
      BY <1>3, <3>1 DEF NextCell, CallType
    <3>3. Call(y) \in CallType
      <4>. HIDE DEF y
      <4>. QED
        BY <2>3 DEF Call, CallType
    <3>. QED
      BY <3>2, <3>3
  <2>5. Stacked(calls, D, K + 1)
    <3>. HIDE DEF next
    <3>. QED
      BY <1>1, <1>2, <1>3, <2>4, StackCalls
  <2>. HIDE DEF D, calls
  <2>6. Changes(cell, before, gc, R, C, K, n, s, lev, cell, calls, D, K + 1, m, r, lv)
    BY <1>6, <2>2, <2>5 DEF Changes, L
  <2>7. LET f == [gc EXCEPT !.calls = calls]
        IN  f \in GcType /\ f.pc = gc.pc /\ cell \in [Cells -> CellType] /\ MarkOK(cell, before, f, R)
    BY <1>6, <2>6, MarkChanges
  <2>. QED
    BY <1>1, <1>6, <2>1, <2>7 DEF MarkNext
<1>8. CASE ~ (Top.i < Blocks(cell[Top.p].len))
  <2>. DEFINE call == [Top EXCEPT !.at = "E6"]
  <2>1. gc' = Goes(call)
    BY <1>1, <1>8
  <2>2. call \in CallType /\ call.p = p /\ call.t = C[K].t /\ call.at = "E6"
    BY <1>2, <1>3 DEF CallType
  <2>. HIDE DEF call
  <2>3. ASSUME NEW x \in Links(before, s[n]) PROVE x \in Seen(cell, n, s)
    <3>1. x \in Seen(cell, n, s) \/ Left(before, C[K], x)
      BY <1>2, <1>4, ColourTop
    <3>2. x \in p + 1 .. p + Blocks(before[p].len)
      BY <1>5 DEF Links
    <3>3. before[p].len \in Nat /\ Top.i \in Nat
      BY <1>3 DEF CellType, CallType
    <3>4. Blocks(before[p].len) \in Nat
      BY <3>3 DEF Blocks
    <3>5. Top.i = Blocks(before[p].len)
      BY <1>3, <1>5, <1>8, <3>3, <3>4
    <3>6. ~ (p + Top.i < x)
      BY <1>3, <3>2, <3>4, <3>5
    <3>7. ~ Left(before, C[K], x)
      BY <1>1, <1>2, <1>3, <3>6 DEF Left
    <3>. QED
      BY <3>1, <3>7
  <2>4. MarkedAt(cell, cell, s[n])
    BY DEF MarkedAt
  <2>5. StaysWith(R, C, K, n, s, call, cell)
    BY <1>5, <2>2, <2>3, <2>4 DEF StaysWith
  <2>. QED
    BY <1>1, <2>1, <2>5, StayNow
<1>. QED
  BY <1>7, <1>8

\* E4 and E5 where the link is followed.
DownNow(R, C, K, n, s, lev, y, next) ==
    /\ MarkNow(R, C, K, n, s, lev) /\ gc.calls # <<>> /\ Top.at \in {"E4", "E5"}
    /\ y = (IF Top.at = "E4" THEN cell[s[n]].car ELSE cell[s[n]].cdr) /\ ToMark(y)
    /\ next = DownCall(Top, s[n], y) /\ gc' = Goes(next)
    /\ cell' = DownHeap(cell, Top, s[n]) /\ before' = before

\* The innermost call turns a link and goes down.
LEMMA DownNext ==
    ASSUME NEW R, NEW C, NEW K, NEW n, NEW s, NEW lev, NEW y, NEW next, DownNow(R, C, K, n, s, lev, y, next)
    PROVE  MarkNext(R)
<1>. DEFINE L == Reach(before, R)
            D == [C EXCEPT ![K] = next]
            calls == <<next>> \o Tail(gc.calls)
            g == DownHeap(cell, Top, s[n])
<1>0. /\ gc.calls # <<>> /\ Top.at \in {"E4", "E5"} /\ before' = before /\ cell' = g
      /\ y = (IF Top.at = "E4" THEN cell[s[n]].car ELSE cell[s[n]].cdr) /\ ToMark(y)
      /\ next = DownCall(Top, s[n], y) /\ gc' = Goes(next)
  BY DEF DownNow
<1>1. MarkNow(R, C, K, n, s, lev)
  BY DEF DownNow
<1>2. /\ TopIs(cell, before, C, K, n, s) /\ Top = C[K] /\ n > 0 /\ Stacked(gc.calls, C, K)
      /\ Marks(cell, before, C, K, n, s, lev, L)
  BY <1>0, <1>1, TopNow
<1>3. HeapOK(before) /\ gc \in GcType /\ gc.pc = "mark" /\ MarkGhost(cell, before, gc, R, C, K, n, s, lev)
      /\ \A c \in L : Links(before, c) \subseteq L
  BY <1>1 DEF MarkNow
<1>4. y \notin {Nil, Null} /\ cell[y].mark = FALSE
  <2>1. cell[s[n]] \in CellType /\ cell \in [Cells -> CellType]
    BY <1>2 DEF TopIs
  <2>2. y \in Cells \union {Nil, Null} /\ y \notin {Nil, Null} /\ ~ cell[y].mark
    BY <1>0, <2>1 DEF ToMark, CellType, Pointers
  <2>3. cell[y].mark \in BOOLEAN
    BY <2>1, <2>2 DEF CellType
  <2>. QED
    BY <2>2, <2>3
<1>. HIDE DEF L, g
<1>5. PICK m, r, lv : /\ Marks(g, before, D, K, m, r, lv, L)
                      /\ Seen(cell, n, s) \subseteq Seen(g, m, r)
  <2>1. g = DownHeap(cell, C[K], s[n]) /\ next = DownCall(C[K], s[n], y) /\ C[K].at \in {"E4", "E5"}
        /\ y = IF C[K].at = "E4" THEN cell[s[n]].car ELSE cell[s[n]].cdr
    BY <1>0, <1>2 DEF g
  <2>2. Downs(cell, before, C, K, n, s, lev, L, C[K], y, g, next)
    BY <1>2, <1>3, <1>4, <2>1 DEF Downs
  <2>. HIDE DEF D
  <2>3. \E m, r, lv : /\ Marks(g, before, [C EXCEPT ![K] = next], K, m, r, lv, L)
                      /\ Seen(cell, n, s) \subseteq Seen(g, m, r)
    <3>1. MarksOn(cell, before, C, K, n, s, L, g, next)
      BY <2>2, MarkDown
    <3>. QED
      BY <3>1, Zenon DEF MarksOn
  <2>. QED
    BY <2>3 DEF D
<1>6. C \in [Nat -> CallType] /\ K \in Nat
  BY <1>2 DEF TopIs
<1>7. next \in CallType
  <2>1. D \in [Nat -> CallType]
    BY <1>5 DEF Marks, Chain
  <2>. QED
    BY <1>6, <2>1
<1>8. Stacked(calls, D, K)
  BY <1>0, <1>2, <1>6, <1>7, StackGoes
<1>9. gc' = [gc EXCEPT !.calls = calls]
  BY <1>0 DEF Goes
<1>. HIDE DEF D, calls
<1>10. Changes(cell, before, gc, R, C, K, n, s, lev, g, calls, D, K, m, r, lv)
  BY <1>3, <1>5, <1>8 DEF Changes, L
<1>11. LET f == [gc EXCEPT !.calls = calls]
       IN  f \in GcType /\ f.pc = gc.pc /\ g \in [Cells -> CellType] /\ MarkOK(g, before, f, R)
  BY <1>3, <1>10, MarkChanges
<1>. QED
  BY <1>0, <1>3, <1>9, <1>11 DEF MarkNext

\* E4 and E5 where it is not.
SkipNow(R, C, K, n, s, lev, y, call) ==
    /\ MarkNow(R, C, K, n, s, lev) /\ gc.calls # <<>> /\ Top.at \in {"E4", "E5"}
    /\ y = (IF Top.at = "E4" THEN cell[s[n]].car ELSE cell[s[n]].cdr) /\ ~ ToMark(y)
    /\ call = [Top EXCEPT !.at = IF Top.at = "E4" THEN "E5" ELSE "E6"] /\ gc' = Goes(call)
    /\ cell' = cell /\ before' = before

\* The innermost call leaves out a link, which leads nowhere or to a marked cell.
LEMMA SkipNext ==
    ASSUME NEW R, NEW C, NEW K, NEW n, NEW s, NEW lev, NEW y, NEW call, SkipNow(R, C, K, n, s, lev, y, call)
    PROVE  MarkNext(R)
<1>. DEFINE p == s[n]
<1>0. /\ gc.calls # <<>> /\ Top.at \in {"E4", "E5"} /\ before' = before /\ cell' = cell
      /\ y = (IF Top.at = "E4" THEN cell[p].car ELSE cell[p].cdr) /\ ~ ToMark(y)
      /\ call = [Top EXCEPT !.at = IF Top.at = "E4" THEN "E5" ELSE "E6"] /\ gc' = Goes(call)
  BY DEF SkipNow
<1>1. MarkNow(R, C, K, n, s, lev)
  BY DEF SkipNow
<1>2. /\ TopIs(cell, before, C, K, n, s) /\ Top = C[K] /\ n > 0
      /\ Marks(cell, before, C, K, n, s, lev, Reach(before, R))
  BY <1>0, <1>1, TopNow
<1>3. /\ p \in Cells /\ cell \in [Cells -> CellType] /\ Top \in CallType /\ Top.p = p /\ CellOK(before, p)
      /\ cell[p].car = before[p].car /\ cell[p].cdr = before[p].cdr
  BY <1>2 DEF TopIs
<1>4. /\ Chain(cell, before, C, K, n, s, lev) /\ Colour(cell, before, C, K, n, s, lev, Reach(before, R))
  BY <1>2 DEF Marks
<1>5. before[p].type \in {"pair", "block"} /\ cell[p].mark = TRUE
  <2>1. AtTop(cell, before, C[K], s[n], Up(before, s, n))
    BY <1>2, <1>4 DEF Chain
  <2>. QED
    BY <1>0, <1>2, <2>1 DEF AtTop
<1>6. before[p].atom = FALSE /\ IsPointer(before, before[p].car) /\ IsPointer(before, before[p].cdr)
  BY <1>3, <1>5 DEF CellOK
<1>7. /\ call \in CallType /\ call.p = p /\ call.t = C[K].t
      /\ call.at = IF Top.at = "E4" THEN "E5" ELSE "E6"
  BY <1>0, <1>2, <1>3 DEF CallType
<1>8. y # Nil => y \in Seen(cell, n, s)
  <2>1. IsPointer(before, y)
    BY <1>0, <1>3, <1>6
  <2>2. ASSUME y # Nil PROVE y \in Cells /\ y # Null
    BY <2>1, <2>2, Numbers DEF IsPointer, IsObject
  <2>3. ASSUME y # Nil PROVE cell[y].mark = TRUE
    <3>1. cell[y].mark
      BY <1>0, <2>2, <2>3 DEF ToMark
    <3>2. cell[y].mark \in BOOLEAN
      BY <1>3, <2>2, <2>3 DEF CellType
    <3>. QED
      BY <3>1, <3>2
  <2>. QED
    BY <2>2, <2>3 DEF Seen
<1>9. ASSUME NEW x \in Links(before, p) PROVE x \in Seen(cell, n, s) \/ Left(before, call, x)
  <2>1. x \in {before[p].car, before[p].cdr} /\ x # Nil
    BY <1>5, <1>6 DEF Links
  <2>2. x \in Seen(cell, n, s) \/ Left(before, C[K], x)
    BY <1>2, <1>4, ColourTop
  <2>3. CASE Top.at = "E4"
    BY <1>0, <1>3, <1>7, <1>8, <2>1, <2>3 DEF Left
  <2>4. CASE Top.at = "E5"
    BY <1>0, <1>2, <1>3, <1>7, <1>8, <2>1, <2>2, <2>4 DEF Left
  <2>. QED
    BY <1>0, <2>3, <2>4
<1>10. MarkedAt(cell, cell, p)
  BY DEF MarkedAt
<1>11. StaysWith(R, C, K, n, s, call, cell)
  BY <1>0, <1>5, <1>7, <1>9, <1>10 DEF StaysWith
<1>. QED
  BY <1>0, <1>1, <1>11, StayNow

\* E4 goes down the car or leaves it out.
LEMMA E4Next ==
    ASSUME NEW R, NEW C, NEW K, NEW n, NEW s, NEW lev, MarkNow(R, C, K, n, s, lev), E4
    PROVE  MarkNext(R)
<1>. DEFINE y == cell[Top.p].car
<1>1. gc.calls # <<>> /\ Top.at = "E4" /\ before' = before
  BY DEF E4, In, MarkUnchanged
<1>2. TopIs(cell, before, C, K, n, s) /\ Top = C[K]
  BY <1>1, TopNow
<1>3. Top.p = s[n]
  BY <1>2 DEF TopIs
<1>4. CASE ToMark(y)
  <2>1. cell' = CarTurned(cell, Top.p, Top.t) /\ gc' = Goes([Top EXCEPT !.t = Top.p, !.p = y, !.at = "E2"])
    BY <1>4 DEF E4
  <2>2. cell' = DownHeap(cell, Top, s[n]) /\ gc' = Goes(DownCall(Top, s[n], y))
    BY <1>1, <1>3, <2>1 DEF DownHeap, DownCall
  <2>3. DownNow(R, C, K, n, s, lev, y, DownCall(Top, s[n], y))
    BY <1>1, <1>3, <1>4, <2>2, Zenon DEF DownNow
  <2>. QED
    BY <2>3, DownNext
<1>5. CASE ~ ToMark(y)
  <2>1. cell' = cell /\ gc' = Goes([Top EXCEPT !.at = "E5"])
    BY <1>5 DEF E4
  <2>2. SkipNow(R, C, K, n, s, lev, y, [Top EXCEPT !.at = IF Top.at = "E4" THEN "E5" ELSE "E6"])
    BY <1>1, <1>3, <1>5, <2>1, Zenon DEF SkipNow
  <2>. QED
    BY <2>2, SkipNext
<1>. QED
  BY <1>4, <1>5

\* E5 goes down the cdr or leaves it out.
LEMMA E5Next ==
    ASSUME NEW R, NEW C, NEW K, NEW n, NEW s, NEW lev, MarkNow(R, C, K, n, s, lev), E5
    PROVE  MarkNext(R)
<1>. DEFINE y == cell[Top.p].cdr
<1>1. gc.calls # <<>> /\ Top.at = "E5" /\ Top.at # "E4" /\ before' = before
  BY DEF E5, In, MarkUnchanged
<1>2. TopIs(cell, before, C, K, n, s) /\ Top = C[K]
  BY <1>1, TopNow
<1>3. Top.p = s[n]
  BY <1>2 DEF TopIs
<1>4. CASE ToMark(y)
  <2>1. cell' = [cell EXCEPT ![Top.p].cdr = Top.t] /\ gc' = Goes([Top EXCEPT !.t = Top.p, !.p = y, !.at = "E2"])
    BY <1>4 DEF E5
  <2>2. cell' = DownHeap(cell, Top, s[n]) /\ gc' = Goes(DownCall(Top, s[n], y))
    BY <1>1, <1>3, <2>1 DEF DownHeap, DownCall
  <2>3. DownNow(R, C, K, n, s, lev, y, DownCall(Top, s[n], y))
    BY <1>1, <1>3, <1>4, <2>2, Zenon DEF DownNow
  <2>. QED
    BY <2>3, DownNext
<1>5. CASE ~ ToMark(y)
  <2>1. cell' = cell /\ gc' = Goes([Top EXCEPT !.at = "E6"])
    BY <1>5 DEF E5
  <2>2. SkipNow(R, C, K, n, s, lev, y, [Top EXCEPT !.at = IF Top.at = "E4" THEN "E5" ELSE "E6"])
    BY <1>1, <1>3, <1>5, <2>1, Zenon DEF SkipNow
  <2>. QED
    BY <2>2, SkipNext
<1>. QED
  BY <1>4, <1>5

\* E6 goes up one link, or the call returns.
LEMMA E6Next ==
    ASSUME NEW R, NEW C, NEW K, NEW n, NEW s, NEW lev, MarkNow(R, C, K, n, s, lev), E6
    PROVE  MarkNext(R)
<1>. DEFINE L == Reach(before, R)
            q == Top.t
<1>1. gc.calls # <<>> /\ Top.at = "E6" /\ before' = before
  BY DEF E6, In, MarkUnchanged
<1>2. /\ TopIs(cell, before, C, K, n, s) /\ Top = C[K] /\ n > 0 /\ Stacked(gc.calls, C, K)
      /\ Marks(cell, before, C, K, n, s, lev, L)
  BY <1>1, TopNow
<1>3. HeapOK(before) /\ gc \in GcType /\ gc.pc = "mark" /\ MarkGhost(cell, before, gc, R, C, K, n, s, lev)
  BY DEF MarkNow
<1>4. C \in [Nat -> CallType] /\ K \in Nat /\ cell \in [Cells -> CellType]
  BY <1>2 DEF TopIs
<1>. HIDE DEF L
<1>5. CASE q \notin Cells
  <2>1. gc' = [gc EXCEPT !.calls = Tail(gc.calls)] /\ cell' = cell
    BY <1>3, <1>5 DEF E6, GcType
  <2>2. PICK m : /\ Marks(cell, before, C, K - 1, m, s, lev, L)
                 /\ Seen(cell, m, s) = Seen(cell, n, s)
    BY <1>1, <1>2, <1>3, <1>5, MarkReturns
  <2>3. Stacked(Tail(gc.calls), C, K - 1)
    BY <1>1, <1>2, StackPops
  <2>. DEFINE calls == Tail(gc.calls)
  <2>4. Changes(cell, before, gc, R, C, K, n, s, lev, cell, calls, C, K - 1, m, s, lev)
    BY <1>3, <2>2, <2>3 DEF Changes, L
  <2>. HIDE DEF calls
  <2>5. LET f == [gc EXCEPT !.calls = calls]
        IN  f \in GcType /\ f.pc = gc.pc /\ cell \in [Cells -> CellType] /\ MarkOK(cell, before, f, R)
    BY <1>3, <2>4, MarkChanges
  <2>. QED
    BY <1>1, <1>3, <2>1, <2>5 DEF MarkNext, calls
<1>6. CASE q \in Cells
  <2>. DEFINE at == IF cell[q].atom THEN "E5" ELSE "E6"
              g == UpHeap(cell, q, Top.p)
              next == UpCall(cell, Top, q, at)
              D == [C EXCEPT ![K] = next]
              calls == <<next>> \o Tail(gc.calls)
  <2>1. gc' = [gc EXCEPT !.calls = calls] /\ cell' = g
    BY <1>6 DEF E6, UpHeap, UpCall, ReadFirst, Goes
  <2>. HIDE DEF g, next
  <2>2. PICK m : /\ Marks(g, before, D, K, m, s, lev, L)
                 /\ Seen(g, m, s) = Seen(cell, n, s)
    <3>1. C[K].at = "E6" /\ g = UpHeap(cell, q, C[K].p) /\ q = C[K].t
          /\ next = UpCall(cell, C[K], q, IF cell[q].atom THEN "E5" ELSE "E6")
      BY <1>1, <1>2 DEF g, next
    <3>. QED
      BY <1>2, <1>3, <1>6, <3>1, MarkUp
  <2>3. next \in CallType
    <3>1. D \in [Nat -> CallType]
      BY <2>2 DEF Marks, Chain
    <3>. QED
      BY <1>4, <3>1
  <2>4. Stacked(calls, D, K)
    BY <1>1, <1>2, <1>4, <2>3, StackGoes
  <2>. HIDE DEF D, calls
  <2>5. Changes(cell, before, gc, R, C, K, n, s, lev, g, calls, D, K, m, s, lev)
    BY <1>3, <2>2, <2>4 DEF Changes, L
  <2>6. LET f == [gc EXCEPT !.calls = calls]
        IN  f \in GcType /\ f.pc = gc.pc /\ g \in [Cells -> CellType] /\ MarkOK(g, before, f, R)
    BY <1>3, <2>5, MarkChanges
  <2>. QED
    BY <1>1, <1>3, <2>1, <2>6 DEF MarkNext
<1>. QED
  BY <1>5, <1>6

\* gc calls mark for the next root.
LEMMA RootNext ==
    ASSUME NEW R, NEW C, NEW K, NEW n, NEW s, NEW lev, MarkNow(R, C, K, n, s, lev), MarkRoot
    PROVE  MarkNext(R)
<1>. DEFINE L == Reach(before, R)
            y == Head(gc.todo)
            calls == <<Call(y)>>
            todo == Tail(gc.todo)
            D == [C EXCEPT ![1] = Call(y)]
<1>1. gc.calls = <<>> /\ gc.todo # <<>> /\ before' = before /\ cell' = cell
      /\ gc' = [gc EXCEPT !.calls = calls, !.todo = Tail(@)]
  BY DEF MarkRoot, MarkUnchanged
<1>2. HeapOK(before) /\ gc \in GcType /\ gc.pc = "mark" /\ MarkGhost(cell, before, gc, R, C, K, n, s, lev)
  BY DEF MarkNow
<1>3. /\ Stacked(gc.calls, C, K) /\ Marks(cell, before, C, K, n, s, lev, L)
      /\ RootsSeen(cell, before, gc, R, n, s)
  BY <1>2 DEF MarkGhost
<1>4. K = 0
  BY <1>1, <1>3 DEF Stacked
<1>5. C \in [Nat -> CallType] /\ n = 0 /\ cell \in [Cells -> CellType]
  BY <1>3, <1>4 DEF Marks, Chain
<1>6. /\ gc.todo \in Seq(Cells) /\ todo \in Seq(Cells) /\ Len(todo) + 1 = Len(gc.todo) /\ Len(todo) \in Nat
      /\ y = gc.todo[1] /\ \A i \in 1 .. Len(todo) : todo[i] = gc.todo[i + 1]
  BY <1>1, <1>2 DEF GcType
<1>. HIDE DEF todo
<1>7. IsObject(before, y) /\ y \in L /\ y \in Cells
  <2>1. 1 \in 1 .. Len(gc.todo)
    BY <1>6
  <2>2. IsObject(before, gc.todo[1]) /\ gc.todo[1] \in L
    BY <1>3, <2>1 DEF RootsSeen
  <2>. QED
    BY <1>6, <2>2 DEF IsObject
<1>. HIDE DEF y, L
<1>8. PICK r, lv : Marks(cell, before, D, 1, 1, r, lv, L) /\ Seen(cell, 1, r) = Seen(cell, n, s) \union {y}
  BY <1>2, <1>3, <1>4, <1>7, MarkBegins
<1>9. Call(y) \in CallType
  BY <1>7 DEF Call, CallType
<1>10. Stacked(calls, D, 1)
  <2>. HIDE DEF y
  <2>. QED
    BY <1>5, <1>9, StackBegins
<1>11. calls \in Seq(CallType)
  BY <1>10 DEF Stacked
<1>. HIDE DEF calls, D
<1>12. /\ gc' \in GcType /\ gc'.pc = "mark" /\ gc'.calls = calls /\ gc'.todo = todo
  BY <1>1, <1>2, <1>6, <1>11 DEF GcType, todo
<1>13. RootsSeen(cell, before, gc', R, 1, r)
  <2>1. ASSUME NEW x \in R PROVE x = Nil \/ x \in Seen(cell, 1, r) \/ \E i \in 1 .. Len(todo) : todo[i] = x
    <3>1. x = Nil \/ x \in Seen(cell, n, s) \/ \E i \in 1 .. Len(gc.todo) : gc.todo[i] = x
      BY <1>3 DEF RootsSeen
    <3>2. ASSUME NEW i \in 1 .. Len(gc.todo), gc.todo[i] = x, x # y PROVE \E j \in 1 .. Len(todo) : todo[j] = x
      <4>1. i # 1
        BY <1>6, <3>2
      <4>2. i - 1 \in 1 .. Len(todo) /\ (i - 1) + 1 = i
        BY <1>6, <4>1
      <4>3. todo[i - 1] = x
        BY <1>6, <3>2, <4>2
      <4>. QED
        BY <4>2, <4>3
    <3>. QED
      BY <1>8, <3>1, <3>2
  <2>2. ASSUME NEW i \in 1 .. Len(todo) PROVE IsObject(before, todo[i]) /\ todo[i] \in L
    <3>1. i + 1 \in 1 .. Len(gc.todo)
      BY <1>6
    <3>2. IsObject(before, gc.todo[i + 1]) /\ gc.todo[i + 1] \in L
      BY <1>3, <3>1 DEF RootsSeen, L
    <3>. QED
      BY <1>6, <3>2
  <2>. QED
    BY <1>12, <2>1, <2>2 DEF RootsSeen, L
<1>14. MarkGhost(cell, before, gc', R, D, 1, 1, r, lv)
  BY <1>8, <1>10, <1>12, <1>13 DEF MarkGhost, L
<1>15. MarkOK(cell, before, gc', R)
  BY <1>14 DEF MarkOK
<1>. QED
  BY <1>1, <1>5, <1>12, <1>15 DEF MarkNext

Marking(g, h, b, R) ==
    /\ g \in GcType /\ g.pc = "mark" /\ HeapOK(b) /\ (\A x \in R : IsPointer(b, x)) /\ MarkOK(h, b, g, R)

\* Every step of the marker keeps its invariant.
LEMMA MarkStep ==
    ASSUME NEW R, Marking(gc, cell, before, R), Mark
    PROVE  MarkNext(R)
<1>1. /\ gc \in GcType /\ gc.pc = "mark" /\ HeapOK(before) /\ (\A x \in R : IsPointer(before, x))
      /\ MarkOK(cell, before, gc, R)
  BY DEF Marking
<1>2. PICK C, K, n, s, lev : MarkGhost(cell, before, gc, R, C, K, n, s, lev)
  BY <1>1 DEF MarkOK
<1>3. MarkNow(R, C, K, n, s, lev)
  BY <1>1, <1>2, ReachUsed DEF MarkNow
<1>4. CASE MarkRoot
  BY <1>3, <1>4, RootNext
<1>5. CASE E2
  BY <1>3, <1>5, E2Next
<1>6. CASE E3
  BY <1>3, <1>6, E3Next
<1>7. CASE E4
  BY <1>3, <1>7, E4Next
<1>8. CASE E5
  BY <1>3, <1>8, E5Next
<1>9. CASE E6
  BY <1>3, <1>9, E6Next
<1>. QED
  BY <1>4, <1>5, <1>6, <1>7, <1>8, <1>9 DEF Mark

\* When mark is done, it has marked what the roots lead to, and the links are back.
LEMMA MarkDone ==
    ASSUME NEW g, NEW h, NEW b, NEW R, Marking(g, h, b, R), g.calls = <<>>, g.todo = <<>>
    PROVE  /\ h \in [Cells -> CellType] /\ \A c \in Cells : Same(h, b, c)
           /\ {c \in Cells : h[c].mark = TRUE} = Reach(b, R)
<1>. DEFINE L == Reach(b, R)
            M == {c \in Cells : h[c].mark = TRUE}
<1>1. PICK C, K, n, s, lev : MarkGhost(h, b, g, R, C, K, n, s, lev)
  BY DEF Marking, MarkOK
<1>2. /\ Stacked(g.calls, C, K) /\ Chain(h, b, C, K, n, s, lev) /\ Colour(h, b, C, K, n, s, lev, L)
      /\ RootsSeen(h, b, g, R, n, s)
  BY <1>1 DEF MarkGhost, Marks
<1>3. K = 0 /\ n = 0
  <2>1. K = 0
    BY <1>2 DEF Stacked
  <2>. QED
    BY <1>2, <2>1 DEF Chain
<1>4. h \in [Cells -> CellType] /\ \A c \in Cells : Same(h, b, c)
  BY <1>2, <1>3 DEF Chain
<1>5. Seen(h, n, s) = M
  BY <1>3 DEF Seen
<1>. HIDE DEF M, L
<1>6. M \subseteq L
  BY <1>2, <1>5 DEF Colour
<1>7. \A c \in M : Links(b, c) \subseteq M
  <2>1. \A c \in M : \A x \in Links(b, c) : Followed(h, b, C, K, n, s, lev, c, x)
    BY <1>2, <1>5 DEF Colour
  <2>2. 1 .. n = {}
    BY <1>3
  <2>. QED
    BY <1>5, <2>1, <2>2 DEF Followed
<1>8. R \ {Nil} \subseteq M
  <2>1. 1 .. Len(g.todo) = {}
    OBVIOUS
  <2>. QED
    BY <1>2, <1>5, <2>1 DEF RootsSeen
<1>9. L \subseteq M
  BY <1>7, <1>8, ReachLeast DEF L
<1>. QED
  BY <1>4, <1>6, <1>9 DEF M, L

\* What gc begins with.
RootSet == {reg[r] : r \in Reg} \union {sink, req.a, req.b}

\* SetToSeq lists the elements of a set.
LEMMA SeqOfSet ==
    ASSUME NEW S \in SUBSET Cells
    PROVE  /\ SetToSeq(S) \in Seq(Cells)
           /\ \A i \in 1 .. Len(SetToSeq(S)) : SetToSeq(S)[i] \in S
           /\ \A x \in S : \E i \in 1 .. Len(SetToSeq(S)) : SetToSeq(S)[i] = x
<1>. DEFINE k == Cardinality(S)
            f == SetToSeq(S)
<1>1. IsFiniteSet(S)
  BY CellsAre, FS_Subset
<1>2. k \in Nat /\ ExistsBijection(1 .. k, S)
  BY <1>1, FS_CardinalityType
<1>3. \E e \in [1 .. k -> S] : IsInjective(e)
  BY <1>2 DEF ExistsBijection, Bijection, Injection
<1>4. f \in [1 .. k -> S] /\ IsInjective(f)
  <2>1. f = CHOOSE e \in [1 .. k -> S] : IsInjective(e)
    BY DEF SetToSeq
  <2>. HIDE DEF f, k
  <2>. QED
    BY <1>3, <2>1
<1>. HIDE DEF f
<1>5. f \in Injection(1 .. k, S)
  BY <1>4 DEF Injection
<1>6. Cardinality(1 .. k) = k
  <2>. HIDE DEF k
  <2>1. 1 \in Int /\ k \in Int
    BY <1>2
  <2>2. Cardinality(1 .. k) = IF 1 > k THEN 0 ELSE k - 1 + 1
    BY <2>1, FS_Interval
  <2>. QED
    BY <1>2, <2>2
<1>7. f \in Surjection(1 .. k, S)
  BY <1>1, <1>5, <1>6, FS_Injection
<1>8. \A x \in S : \E i \in 1 .. k : f[i] = x
  BY <1>7 DEF Surjection
<1>. HIDE DEF k
<1>9. f \in Seq(Cells) /\ Len(f) = k
  BY <1>2, <1>4
<1>. QED
  BY <1>4, <1>8, <1>9 DEF f

\* gc starts from everything that the evaluator knows, and from nothing else.
LEMMA RootsAre ==
    ASSUME RootSet \subseteq Pointers
    PROVE  /\ Roots \in Seq(Cells)
           /\ \A i \in 1 .. Len(Roots) : Roots[i] \in RootSet \ {Nil}
           /\ \A x \in RootSet : x = Nil \/ \E i \in 1 .. Len(Roots) : Roots[i] = x
<1>. DEFINE S == {reg[r] : r \in Reg} \ {Nil}
            Is(q, T) == /\ q \in Seq(Cells) /\ (\A i \in 1 .. Len(q) : q[i] \in T)
                        /\ \A x \in T : \E i \in 1 .. Len(q) : q[i] = x
<1>1. S \in SUBSET Cells /\ sink \in Pointers /\ req.a \in Pointers /\ req.b \in Pointers
  BY DEF RootSet, Pointers
<1>2. Is(SetToSeq(S), S)
  BY <1>1, SeqOfSet
<1>3. ASSUME NEW x \in Pointers PROVE Is(Root(x), {x} \ {Nil})
  <2>1. CASE x = Nil
    <3>1. Root(x) = <<>>
      BY <2>1 DEF Root
    <3>2. <<>> \in Seq(Cells) /\ 1 .. Len(<<>>) = {}
      OBVIOUS
    <3>. QED
      BY <2>1, <3>1, <3>2
  <2>2. CASE x # Nil
    <3>1. Root(x) = <<x>> /\ x \in Cells
      BY <2>2 DEF Root, Pointers
    <3>. QED
      BY <2>2, <3>1
  <2>. QED
    BY <2>1, <2>2
<1>. HIDE DEF S
<1>4. ASSUME NEW q, NEW e, NEW T, NEW U, Is(q, T), Is(e, U) PROVE Is(q \o e, T \union U)
  <2>1. q \in Seq(Cells) /\ e \in Seq(Cells) /\ q \o e \in Seq(Cells) /\ Len(q \o e) = Len(q) + Len(e)
        /\ Len(q) \in Nat /\ Len(e) \in Nat
    BY <1>4
  <2>2. /\ \A i \in 1 .. Len(q) : (q \o e)[i] = q[i]
        /\ \A i \in 1 .. Len(q) + Len(e) : i > Len(q) => (q \o e)[i] = e[i - Len(q)]
    BY <2>1
  <2>3. ASSUME NEW i \in 1 .. Len(q \o e) PROVE (q \o e)[i] \in T \union U
    <3>1. i \in 1 .. Len(q) \/ (i > Len(q) /\ i - Len(q) \in 1 .. Len(e))
      <4>1. \A a, b \in Nat : \A k \in 1 .. a + b : k \in 1 .. a \/ (k > a /\ k - a \in 1 .. b)
        OBVIOUS
      <4>2. i \in 1 .. Len(q) + Len(e)
        BY <2>1
      <4>. QED
        BY <2>1, <4>1, <4>2
    <3>. QED
      BY <1>4, <2>1, <2>2, <3>1
  <2>4. ASSUME NEW x \in T \union U PROVE \E i \in 1 .. Len(q \o e) : (q \o e)[i] = x
    <3>1. CASE x \in T
      <4>1. PICK i \in 1 .. Len(q) : q[i] = x
        BY <1>4, <3>1
      <4>2. i \in 1 .. Len(q \o e)
        BY <2>1
      <4>. QED
        BY <2>2, <4>1, <4>2
    <3>2. CASE x \in U
      <4>1. PICK i \in 1 .. Len(e) : e[i] = x
        BY <1>4, <3>2
      <4>2. i + Len(q) \in 1 .. Len(q) + Len(e) /\ i + Len(q) > Len(q) /\ (i + Len(q)) - Len(q) = i
        BY <2>1
      <4>3. (q \o e)[i + Len(q)] = x
        BY <2>2, <4>1, <4>2
      <4>. QED
        BY <2>1, <4>2, <4>3
    <3>. QED
      BY <3>1, <3>2
  <2>. QED
    BY <2>1, <2>3, <2>4
<1>. HIDE DEF Is
<1>5. Is(SetToSeq(S) \o Root(sink), S \union ({sink} \ {Nil}))
  BY <1>1, <1>2, <1>3, <1>4
<1>6. Is((SetToSeq(S) \o Root(sink)) \o Root(req.a), (S \union ({sink} \ {Nil})) \union ({req.a} \ {Nil}))
  BY <1>1, <1>5, <1>3, <1>4
<1>7. Is(((SetToSeq(S) \o Root(sink)) \o Root(req.a)) \o Root(req.b),
         ((S \union ({sink} \ {Nil})) \union ({req.a} \ {Nil})) \union ({req.b} \ {Nil}))
  BY <1>1, <1>6, <1>3, <1>4
<1>8. RootSet \ {Nil} = ((S \union ({sink} \ {Nil})) \union ({req.a} \ {Nil})) \union ({req.b} \ {Nil})
  BY DEF RootSet, S
<1>9. Roots = ((SetToSeq(S) \o Root(sink)) \o Root(req.a)) \o Root(req.b)
  BY DEF Roots, S
<1>10. Is(Roots, RootSet \ {Nil})
  BY <1>7, <1>8, <1>9
<1>. QED
  BY <1>10 DEF Is

\* When gc begins, nothing is marked and no link is turned.
LEMMA MarkStarts ==
    ASSUME NEW h, HeapOK(h), NEW R, \A x \in R : IsPointer(h, x), NEW g,
           NEW todo \in Seq(Cells), \A i \in 1 .. Len(todo) : todo[i] \in R \ {Nil},
           \A x \in R : x = Nil \/ \E i \in 1 .. Len(todo) : todo[i] = x,
           g \in GcType, g.pc = "mark", g.todo = todo, g.calls = <<>>
    PROVE  Marking(g, h, h, R)
<1>1. g \in GcType /\ g.pc = "mark" /\ g.todo = todo /\ g.calls = <<>>
  OBVIOUS
<1>2. PICK C : C \in [Nat -> CallType]
  <2>1. 0 \in 0 .. MaxSegs - 1 /\ Base(0) \in CellsOf(0)
    BY CellsAre DEF CellsOf
  <2>2. Base(0) \in Cells
    BY <2>1, CellsAre
  <2>3. Call(Base(0)) \in CallType
    BY <2>2 DEF Call, CallType
  <2>4. [k \in Nat |-> Call(Base(0))] \in [Nat -> CallType]
    BY <2>3
  <2>. QED
    BY <2>4
<1>. DEFINE z == [k \in Nat |-> 0]
<1>3. z \in [Nat -> Nat]
  OBVIOUS
<1>. HIDE DEF z
<1>4. h \in [Cells -> CellType] /\ \A c \in Cells : h[c].mark = FALSE
  BY DEF HeapOK, CellOK
<1>5. \A c \in Cells : Same(h, h, c)
  BY <1>4 DEF Same, CellType
<1>6. 1 .. 0 = {}
  OBVIOUS
<1>7. Chain(h, h, C, 0, 0, z, z)
  <2>1. ~ (0 > 0) /\ 0 \in Nat
    OBVIOUS
  <2>2. \A i \in 1 .. 0 : FALSE
    BY <1>6
  <2>. QED
    BY <1>2, <1>3, <1>4, <1>5, <2>1, <2>2, Zenon DEF Chain
<1>8. Seen(h, 0, z) = {}
  BY <1>4 DEF Seen
<1>9. Colour(h, h, C, 0, 0, z, z, Reach(h, R))
  BY <1>8 DEF Colour
<1>10. Stacked(<<>>, C, 0)
  BY <1>6 DEF Stacked
<1>11. R \ {Nil} \subseteq Reach(h, R)
  BY ReachUsed
<1>12. RootsSeen(h, h, g, R, 0, z)
  <2>1. \A i \in 1 .. Len(todo) : IsObject(h, todo[i]) /\ todo[i] \in Reach(h, R)
    BY <1>11 DEF IsPointer
  <2>. QED
    BY <1>1, <2>1 DEF RootsSeen
<1>13. MarkGhost(h, h, g, R, C, 0, 0, z, z)
  BY <1>1, <1>7, <1>9, <1>10, <1>12 DEF MarkGhost, Marks
<1>14. MarkOK(h, h, g, R)
  BY <1>13 DEF MarkOK
<1>. QED
  BY <1>1, <1>14 DEF Marking

-----------------------------------------------------------------------------
(* The sweep.  b is the heap when gc began, M what was marked, A the cells *)
(* that there are.                                                         *)

Free(h, A) == {c \in A : h[c].type = "none"}
Blank(h, c) == h[c] = [Unused EXCEPT !.cdr = h[c].cdr] /\ h[c].cdr \in Pointers
Sweeping(g, h, b, A, M, fr, n) ==
    /\ g \in GcType /\ g.pc = "sweep" /\ g.scan \in A /\ h \in [Cells -> CellType] /\ A \subseteq Cells /\ M \subseteq A
    /\ \A c \in Cells : c \notin A \/ c <= g.scan => Same(h, b, c) /\ (h[c].mark = TRUE <=> c \in M)
    /\ \A c \in A : g.scan < c => IF c \in M THEN h[c] = b[c] ELSE Blank(h, c)
    /\ ListOK({c \in A : g.scan < c /\ c \notin M}, h, fr, n)
Swept(h, b, A, M, fr, n) ==
    /\ h \in [Cells -> CellType] /\ \A c \in Cells : c \in M \/ c \notin A => h[c] = b[c]
    /\ \A c \in A \ M : Blank(h, c)
    /\ ListOK(A \ M, h, fr, n)

\* The sweep starts at the highest cell, and 0 is no cell.
LEMMA HighestIs ==
    ASSUME NEW S, S \subseteq Cells
    PROVE  /\ Highest(S) \in S \union {0} /\ Highest(S) \in Nat
           /\ \A y \in S : y <= Highest(S)
           /\ Highest(S) = 0 => S = {}
<1>. DEFINE top == Base(MaxSegs) + SegSize
<1>1. top \in Nat /\ S \union {0} \subseteq Nat /\ \A y \in S \union {0} : y <= top
  BY CellsBelow, CellsAre
<1>. HIDE DEF top
<1>2. PICK x \in S \union {0} : \A y \in S \union {0} : y <= x
  BY <1>1, Greatest
<1>3. Highest(S) \in S \union {0} /\ \A y \in S : y <= Highest(S)
  BY <1>2 DEF Highest
<1>4. ASSUME Highest(S) = 0, NEW y \in S PROVE FALSE
  <2>1. y \in Nat /\ y # 0 /\ y <= 0
    BY <1>3, <1>4, CellsAre
  <2>. QED
    BY <2>1
<1>. QED
  BY <1>1, <1>3, <1>4

\* When the marker has ended, the sweep has no cell behind it.
LEMMA SweepBegins ==
    ASSUME NEW R, NEW b, NEW A, A \subseteq Cells, A # {}, HeapOK(b), \A c \in Cells \ A : b[c].type = "none",
           \A x \in R : IsPointer(b, x), NEW M, M = Reach(b, R),
           NEW h, h \in [Cells -> CellType], \A c \in Cells : Same(h, b, c),
           {c \in Cells : h[c].mark = TRUE} = M,
           NEW g \in GcType, g.pc = "sweep", g.scan = Highest(A)
    PROVE  Sweeping(g, h, b, A, M, Nil, 0)
<1>1. M \subseteq A
  <2>1. M \subseteq Cells /\ \A c \in M : b[c].type # "none"
    BY ReachUsed
  <2>. QED
    BY <2>1
<1>2. g.scan \in A /\ g.scan \in Nat /\ \A c \in A : c <= g.scan
  BY HighestIs
<1>3. \A c \in A : ~ (g.scan < c)
  BY <1>2, CellsAre
<1>4. ListOK({c \in A : g.scan < c /\ c \notin M}, h, Nil, 0)
  <2>1. {c \in A : g.scan < c /\ c \notin M} = {}
    BY <1>3
  <2>. QED
    BY <2>1, FS_EmptySet DEF ListOK, NextIn
<1>. QED
  BY <1>1, <1>2, <1>3, <1>4 DEF Sweeping

\* What a cell that is given back looks like.
LEMMA BlankIs ==
    ASSUME NEW fr \in Pointers
    PROVE  [Unused EXCEPT !.cdr = fr] \in CellType /\ [Unused EXCEPT !.cdr = fr].cdr = fr
<1>1. 0 \in 0 .. MaxLen /\ Nil \in Pointers /\ "none" \in {"none", "pair", "number", "vector", "block"}
  BY DEF Pointers
<1>2. Unused \in CellType
  BY <1>1 DEF CellType, Unused
<1>. QED
  BY <1>2 DEF CellType

\* A cell is swept; next is the one that comes before it.
Sweeps(g, h, b, A, M, fr, n, h2, fr2, n2) ==
    /\ Sweeping(g, h, b, A, M, fr, n) /\ HeapOK(b)
    /\ LET c == g.scan IN
       \/ h[c].mark = TRUE /\ h2 = [h EXCEPT ![c].mark = FALSE] /\ fr2 = fr /\ n2 = n
       \/ h[c].mark = FALSE /\ h2 = [h EXCEPT ![c] = [Unused EXCEPT !.cdr = fr]] /\ fr2 = c /\ n2 = n + 1
SweepsTo(c, next, h, b, A, M, h2, fr2, n2) ==
    /\ h2 \in [Cells -> CellType] /\ next \in Nat /\ next < c /\ next \in A \union {0}
    /\ \A d \in A : next < d <=> c <= d
    /\ \A d \in Cells : d # c => h2[d] = h[d]
    /\ IF c \in M THEN h2[c] = b[c] ELSE Blank(h2, c)
    /\ ListOK({d \in A : next < d /\ d \notin M}, h2, fr2, n2)

\* After a cell has been swept, those above the next one are done.
LEMMA SweepGoes ==
    ASSUME NEW g, NEW h, NEW b, NEW A, NEW M, NEW fr, NEW n, NEW h2, NEW fr2, NEW n2,
           Sweeps(g, h, b, A, M, fr, n, h2, fr2, n2), NEW next, next = Highest({d \in A : d < g.scan})
    PROVE  SweepsTo(g.scan, next, h, b, A, M, h2, fr2, n2)
<1>. SUFFICES ASSUME NEW c, c = g.scan, Sweeping(g, h, b, A, M, fr, n), HeapOK(b),
                     \/ h[c].mark = TRUE /\ h2 = [h EXCEPT ![c].mark = FALSE] /\ fr2 = fr /\ n2 = n
                     \/ h[c].mark = FALSE /\ h2 = [h EXCEPT ![c] = [Unused EXCEPT !.cdr = fr]] /\ fr2 = c /\ n2 = n + 1
              PROVE  SweepsTo(c, next, h, b, A, M, h2, fr2, n2)
  BY DEF Sweeps
<1>. DEFINE F == {d \in A : c < d /\ d \notin M}
            S == {d \in A : d < c}
<1>1. /\ c \in A /\ c \in Cells /\ h \in [Cells -> CellType] /\ A \subseteq Cells /\ M \subseteq A
      /\ Same(h, b, c) /\ (h[c].mark = TRUE <=> c \in M)
      /\ ListOK(F, h, fr, n) /\ c \in Nat /\ c > 0
  BY CellsAre DEF Sweeping
<1>2. h[c] \in CellType /\ b[c] \in CellType /\ b[c].mark = FALSE
  BY <1>1 DEF HeapOK, CellOK
<1>3. /\ next \in S \union {0} /\ next \in Nat /\ \A d \in S : d <= next
  <2>1. S \subseteq Cells
    BY <1>1
  <2>. HIDE DEF S
  <2>. QED
    BY <2>1, HighestIs DEF S
<1>4. next < c /\ next \in A \union {0}
  BY <1>1, <1>3
<1>5. ASSUME NEW d \in A PROVE next < d <=> c <= d
  <2>1. d \in Nat /\ d > 0
    BY <1>1, CellsAre
  <2>2. d < c => d <= next
    BY <1>3
  <2>. QED
    BY <1>1, <1>3, <1>4, <2>1, <2>2
<1>6. fr \in F \union {Nil} /\ F \subseteq Cells /\ n = Cardinality(F) /\ IsFiniteSet(F) /\ c \notin F
  <2>1. F \subseteq Cells /\ c \notin F
    BY <1>1
  <2>2. IsFiniteSet(F)
    BY <2>1, CellsAre, FS_Subset
  <2>. HIDE DEF F
  <2>. QED
    BY <1>1, <2>1, <2>2 DEF ListOK, NextIn
<1>7. CASE h[c].mark = TRUE
  <2>1. h2 = [h EXCEPT ![c].mark = FALSE] /\ fr2 = fr /\ n2 = n /\ c \in M
    BY <1>1, <1>7
  <2>2. [h[c] EXCEPT !.mark = FALSE] \in CellType
    BY <1>2 DEF CellType
  <2>3. h2 \in [Cells -> CellType] /\ (\A d \in Cells : d # c => h2[d] = h[d]) /\ h2[c] = [h[c] EXCEPT !.mark = FALSE]
    BY <1>1, <2>1, <2>2
  <2>4. h2[c] = b[c]
    <3>1. h[c] = [b[c] EXCEPT !.mark = h[c].mark]
      BY <1>1 DEF Same
    <3>2. /\ h[c].type = b[c].type /\ h[c].atom = b[c].atom /\ h[c].len = b[c].len
          /\ h[c].car = b[c].car /\ h[c].cdr = b[c].cdr
      BY <1>2, <3>1 DEF CellType
    <3>3. /\ h2[c].type = h[c].type /\ h2[c].atom = h[c].atom /\ h2[c].len = h[c].len
          /\ h2[c].car = h[c].car /\ h2[c].cdr = h[c].cdr /\ h2[c].mark = FALSE /\ h2[c] \in CellType
      BY <1>2, <2>2, <2>3 DEF CellType
    <3>4. /\ h2[c].type = b[c].type /\ h2[c].atom = b[c].atom /\ h2[c].mark = b[c].mark /\ h2[c].len = b[c].len
          /\ h2[c].car = b[c].car /\ h2[c].cdr = b[c].cdr /\ h2[c] \in CellType /\ b[c] \in CellType
      BY <1>2, <3>2, <3>3
    <3>. QED
      BY <3>4, SameFields
  <2>5. {d \in A : next < d /\ d \notin M} = F
    <3>1. \A d \in A : next < d /\ d \notin M <=> c < d /\ d \notin M
      <4>. SUFFICES ASSUME NEW d \in A PROVE next < d /\ d \notin M <=> c < d /\ d \notin M
        OBVIOUS
      <4>1. d \in Nat /\ (next < d <=> c <= d)
        BY <1>1, <1>5, CellsAre
      <4>. QED
        BY <1>1, <2>1, <4>1
    <3>. QED
      BY <3>1
  <2>6. ListOK(F, h2, fr2, n2)
    <3>1. \A d \in F : h2[d] = h[d]
      BY <1>6, <2>3
    <3>. HIDE DEF F
    <3>. QED
      BY <1>1, <2>1, <3>1 DEF ListOK
  <2>. HIDE DEF F, S
  <2>. QED
    BY <1>3, <1>4, <1>5, <2>1, <2>3, <2>4, <2>5, <2>6 DEF SweepsTo
<1>8. CASE h[c].mark = FALSE
  <2>1. h2 = [h EXCEPT ![c] = [Unused EXCEPT !.cdr = fr]] /\ fr2 = c /\ n2 = n + 1 /\ c \notin M
    BY <1>1, <1>8
  <2>2. fr \in Pointers
    BY <1>6 DEF Pointers
  <2>3. [Unused EXCEPT !.cdr = fr] \in CellType /\ [Unused EXCEPT !.cdr = fr].cdr = fr
    BY <2>2, BlankIs
  <2>4. h2 \in [Cells -> CellType] /\ (\A d \in Cells : d # c => h2[d] = h[d]) /\ h2[c] = [Unused EXCEPT !.cdr = fr]
    BY <1>1, <2>1, <2>3
  <2>5. Blank(h2, c)
    BY <2>2, <2>3, <2>4 DEF Blank
  <2>6. {d \in A : next < d /\ d \notin M} = F \union {c}
    <3>1. \A d \in A : next < d /\ d \notin M <=> (c < d /\ d \notin M) \/ d = c
      <4>. SUFFICES ASSUME NEW d \in A PROVE next < d /\ d \notin M <=> (c < d /\ d \notin M) \/ d = c
        OBVIOUS
      <4>1. d \in Nat /\ (next < d <=> c <= d)
        BY <1>1, <1>5, CellsAre
      <4>. QED
        BY <1>1, <2>1, <4>1
    <3>. QED
      BY <1>1, <3>1
  <2>7. \A d \in F : c < d /\ d \in Nat /\ h2[d] = h[d]
    BY <1>6, <2>4, CellsAre
  <2>. HIDE DEF F, S
  <2>8. ListOK(F \union {c}, h2, c, n + 1)
    <3>1. F \union {c} \subseteq Cells
      BY <1>1, <1>6
    <3>2. Cardinality(F \union {c}) = n + 1
      BY <1>6, FS_AddElement
    <3>3. NextIn(F \union {c}, 0, c)
      <4>1. \A d \in F : c <= d
        BY <1>1, <2>7
      <4>. QED
        BY <1>1, <4>1 DEF NextIn
    <3>4. NextIn(F \union {c}, c, h2[c].cdr)
      <4>1. h2[c].cdr = fr
        BY <2>3, <2>4
      <4>2. NextIn(F, 0, fr)
        BY <1>1 DEF ListOK
      <4>3. CASE fr = Nil /\ \A x \in F : x <= 0
        <5>1. F = {}
          BY <1>1, <2>7, <4>3
        <5>. QED
          BY <1>1, <4>1, <4>3, <5>1 DEF NextIn
      <4>4. CASE fr \in F /\ \A x \in F : 0 < x => fr <= x
        <5>1. \A x \in F : 0 < x
          BY <1>1, <2>7
        <5>. QED
          BY <1>1, <2>7, <4>1, <4>4, <5>1 DEF NextIn
      <4>. QED
        BY <4>2, <4>3, <4>4 DEF NextIn
    <3>5. ASSUME NEW d \in F PROVE NextIn(F \union {c}, d, h2[d].cdr)
      <4>1. NextIn(F, d, h[d].cdr) /\ c < d /\ d \in Nat /\ h2[d] = h[d]
        BY <1>1, <2>7 DEF ListOK
      <4>. QED
        BY <1>1, <4>1 DEF NextIn
    <3>. QED
      BY <3>1, <3>2, <3>3, <3>4, <3>5 DEF ListOK
  <2>. QED
    BY <1>3, <1>4, <1>5, <2>1, <2>4, <2>5, <2>6, <2>8 DEF SweepsTo
<1>. QED
  BY <1>2, <1>7, <1>8 DEF CellType

\* After the lowest cell all are done.
LEMMA SweepOver ==
    ASSUME NEW g, NEW h, NEW b, NEW A, NEW M, NEW fr, NEW n, Sweeping(g, h, b, A, M, fr, n), HeapOK(b),
           NEW h2, NEW fr2, NEW n2, SweepsTo(g.scan, 0, h, b, A, M, h2, fr2, n2)
    PROVE  Swept(h2, b, A, M, fr2, n2)
<1>. DEFINE c == g.scan
<1>0. /\ h2 \in [Cells -> CellType]
      /\ \A d \in A : 0 < d <=> c <= d
      /\ \A d \in Cells : d # c => h2[d] = h[d]
      /\ IF c \in M THEN h2[c] = b[c] ELSE Blank(h2, c)
      /\ ListOK({d \in A : 0 < d /\ d \notin M}, h2, fr2, n2)
  BY DEF SweepsTo
<1>1. /\ c \in A /\ A \subseteq Cells /\ M \subseteq A /\ h \in [Cells -> CellType]
      /\ \A d \in Cells : d \notin A => Same(h, b, d) /\ (h[d].mark = TRUE <=> d \in M)
      /\ \A d \in A : c < d => IF d \in M THEN h[d] = b[d] ELSE Blank(h, d)
  BY DEF Sweeping
<1>2. \A d \in A : d \in Nat /\ 0 < d /\ c <= d /\ (d # c => c < d)
  <2>1. \A d \in A : d \in Nat /\ d # 0
    BY <1>1, CellsAre
  <2>. QED
    BY <1>0, <1>1, <2>1
<1>3. ASSUME NEW d \in Cells, d \notin A PROVE h2[d] = b[d]
  <2>1. d # c /\ d \notin M /\ Same(h, b, d) /\ h[d].mark # TRUE /\ h2[d] = h[d]
    BY <1>0, <1>1, <1>3
  <2>2. h[d] \in CellType /\ b[d] \in CellType /\ b[d].mark = FALSE
    BY <1>1 DEF HeapOK, CellOK
  <2>3. h[d].mark = FALSE
    BY <2>1, <2>2 DEF CellType
  <2>4. h[d] = [b[d] EXCEPT !.mark = FALSE]
    BY <2>1, <2>3 DEF Same
  <2>5. h[d].type = b[d].type /\ h[d].atom = b[d].atom /\ h[d].len = b[d].len /\ h[d].car = b[d].car
        /\ h[d].cdr = b[d].cdr /\ h[d].mark = b[d].mark
    BY <2>2, <2>3, <2>4 DEF CellType
  <2>6. h[d] = b[d]
    BY <2>2, <2>5, SameFields
  <2>. QED
    BY <2>1, <2>6
<1>4. ASSUME NEW d \in A PROVE IF d \in M THEN h2[d] = b[d] ELSE Blank(h2, d)
  <2>1. CASE d = c
    BY <1>0, <2>1
  <2>2. CASE d # c
    <3>1. h2[d] = h[d] /\ IF d \in M THEN h[d] = b[d] ELSE Blank(h, d)
      BY <1>0, <1>1, <1>2, <2>2
    <3>. QED
      BY <3>1 DEF Blank
  <2>. QED
    BY <2>1, <2>2
<1>5. {d \in A : 0 < d /\ d \notin M} = A \ M
  BY <1>2
<1>6. ListOK(A \ M, h2, fr2, n2)
  BY <1>0, <1>5
<1>. HIDE DEF c
<1>7. \A d \in Cells : d \in M \/ d \notin A => h2[d] = b[d]
  BY <1>1, <1>3, <1>4
<1>8. \A d \in A \ M : Blank(h2, d)
  BY <1>4
<1>. QED
  BY <1>0, <1>6, <1>7, <1>8 DEF Swept

\* A step of the sweep either keeps its invariant or ends it.
LEMMA SweepStep ==
    ASSUME NEW g, NEW h, NEW b, NEW A, NEW M, NEW fr, NEW n, NEW h2, NEW fr2, NEW n2,
           Sweeps(g, h, b, A, M, fr, n, h2, fr2, n2), NEW next, next = Highest({d \in A : d < g.scan})
    PROVE  /\ next \in Cells \union {0}
           /\ next = 0 => Swept(h2, b, A, M, fr2, n2)
           /\ next # 0 => \A f \in GcType : f.pc = "sweep" /\ f.scan = next => Sweeping(f, h2, b, A, M, fr2, n2)
<1>. DEFINE c == g.scan
<1>0. Sweeping(g, h, b, A, M, fr, n) /\ HeapOK(b) /\ SweepsTo(c, next, h, b, A, M, h2, fr2, n2)
  BY SweepGoes DEF Sweeps
<1>1. /\ h2 \in [Cells -> CellType] /\ next \in Nat /\ next < c /\ next \in A \union {0}
      /\ \A d \in A : next < d <=> c <= d
      /\ \A d \in Cells : d # c => h2[d] = h[d]
      /\ IF c \in M THEN h2[c] = b[c] ELSE Blank(h2, c)
      /\ ListOK({d \in A : next < d /\ d \notin M}, h2, fr2, n2)
  BY <1>0 DEF SweepsTo
<1>2. /\ c \in A /\ A \subseteq Cells /\ M \subseteq A /\ h \in [Cells -> CellType]
      /\ \A d \in Cells : d \notin A \/ d <= c => Same(h, b, d) /\ (h[d].mark = TRUE <=> d \in M)
      /\ \A d \in A : c < d => IF d \in M THEN h[d] = b[d] ELSE Blank(h, d)
  BY <1>0 DEF Sweeping
<1>3. c \in Nat /\ \A d \in Cells : d \in Nat
  BY <1>2, CellsAre
<1>4. ASSUME next = 0 PROVE Swept(h2, b, A, M, fr2, n2)
  BY <1>0, <1>4, SweepOver
<1>5. ASSUME next # 0, NEW f \in GcType, f.pc = "sweep", f.scan = next PROVE Sweeping(f, h2, b, A, M, fr2, n2)
  <2>1. \A d \in Cells : d \notin A \/ d <= next => d # c /\ (d \notin A \/ d <= c)
    BY <1>1, <1>2, <1>3
  <2>2. \A d \in Cells : d \notin A \/ d <= next => Same(h2, b, d) /\ (h2[d].mark = TRUE <=> d \in M)
    BY <1>1, <1>2, <2>1 DEF Same
  <2>3. ASSUME NEW d \in A, next < d PROVE IF d \in M THEN h2[d] = b[d] ELSE Blank(h2, d)
    <3>1. CASE d = c
      BY <1>1, <3>1
    <3>2. CASE d # c
      <4>1. c < d /\ d \in Cells
        <5>1. c <= d /\ d \in Nat
          BY <1>1, <1>2, <1>3, <2>3
        <5>. QED
          BY <1>2, <1>3, <3>2, <5>1
      <4>2. h2[d] = h[d] /\ IF d \in M THEN h[d] = b[d] ELSE Blank(h, d)
        BY <1>1, <1>2, <3>2, <4>1
      <4>. QED
        BY <4>2 DEF Blank
    <3>. QED
      BY <3>1, <3>2
  <2>. HIDE DEF c
  <2>. QED
    BY <1>1, <1>2, <1>5, <2>2, <2>3 DEF Sweeping
<1>. QED
  BY <1>1, <1>2, <1>4, <1>5

-----------------------------------------------------------------------------
(* The heap between two steps of the evaluator.  A are the cells that      *)
(* there are, R the registers and the arguments of the request, loc what   *)
(* the opcode has been given, sk the list of recent allocations and H its  *)
(* cells, the holders.                                                     *)

Held(h, H, loc, sk) ==
    /\ H \subseteq Cells /\ sk \in H \union {Nil}
    /\ \A c \in H : h[c].type = "pair" /\ h[c].cdr \in H \union {Nil}
    /\ \A x \in loc : \E c \in H : h[c].car = x
    /\ \A M \in SUBSET Cells : sk \in M \union {Nil} /\ (\A c \in H \intersect M : h[c].cdr \in M \union {Nil}) => H \subseteq M
\* The evaluator does not have the holders.
Hidden(h, H, c) == h[c].type \in {"pair", "block"} => h[c].car \notin H /\ h[c].cdr \notin H
Sound(h, A, R, loc, sk, H) ==
    /\ HeapOK(h) /\ A \subseteq Cells /\ Held(h, H, loc, sk)
    /\ \A c \in Cells \ A : h[c].type = "none"
    /\ \A x \in R : IsPointer(h, x) /\ x \notin H
    /\ \A x \in loc : IsObject(h, x) /\ x \notin H
    /\ \A c \in Cells \ H : Hidden(h, H, c)

\* What the evaluator may do to the heap, and what get_cell and alloc_cellseg do.
Mutates(h, g, A, B, H) ==
    /\ g \in [Cells -> CellType] /\ A \subseteq B /\ B \subseteq Cells
    /\ \A c \in Cells : /\ h[c].type \in {"pair", "number", "vector"}
                             => g[c].type \in {"pair", "number", "vector"}
                        /\ h[c].type = "block" => g[c].type = "block"
                        /\ g[c] = h[c] \/ (c \in B \ H /\ CellOK(g, c) /\ Hidden(g, H, c))

\* A change of the heap that spares the holders leaves it sound.
LEMMA SoundMutates ==
    ASSUME NEW h, NEW A, NEW R, NEW loc, NEW sk, NEW H, Sound(h, A, R, loc, sk, H), NEW g, NEW B, Mutates(h, g, A, B, H)
    PROVE  Sound(g, B, R, loc, sk, H)
<1>1. /\ HeapOK(h) /\ A \subseteq Cells /\ Held(h, H, loc, sk)
      /\ \A c \in Cells \ A : h[c].type = "none"
      /\ \A x \in R : IsPointer(h, x) /\ x \notin H
      /\ \A x \in loc : IsObject(h, x) /\ x \notin H
      /\ \A c \in Cells \ H : Hidden(h, H, c)
  BY DEF Sound
<1>2. /\ g \in [Cells -> CellType] /\ A \subseteq B /\ B \subseteq Cells
      /\ \A c \in Cells : /\ h[c].type \in {"pair", "number", "vector"}
                               => g[c].type \in {"pair", "number", "vector"}
                          /\ h[c].type = "block" => g[c].type = "block"
                          /\ g[c] = h[c] \/ (c \in B \ H /\ CellOK(g, c) /\ Hidden(g, H, c))
  BY DEF Mutates
<1>3. HeapOK(g)
  BY <1>1, <1>2, HeapChanged
<1>4. H \subseteq Cells /\ \A c \in H : g[c] = h[c]
  BY <1>1, <1>2 DEF Held
<1>5. Held(g, H, loc, sk)
  <2>1. ASSUME NEW M \in SUBSET Cells, sk \in M \union {Nil}, \A c \in H \intersect M : g[c].cdr \in M \union {Nil}
        PROVE  H \subseteq M
    BY <1>1, <1>4, <2>1 DEF Held
  <2>. QED
    BY <1>1, <1>4, <2>1 DEF Held
<1>6. \A x : IsObject(h, x) => IsObject(g, x)
  BY <1>2 DEF IsObject
<1>7. \A c \in Cells \ B : g[c].type = "none"
  BY <1>1, <1>2
<1>8. \A c \in Cells \ H : Hidden(g, H, c)
  BY <1>1, <1>2 DEF Hidden
<1>. QED
  BY <1>1, <1>2, <1>3, <1>5, <1>6, <1>7, <1>8 DEF Sound, IsPointer

\* A cell is remembered.
LEMMA SoundHolder ==
    ASSUME NEW h, NEW A, NEW R, NEW loc, NEW sk, NEW H, Sound(h, A, R, loc, sk, H),
           NEW f \in A, h[f].type = "none", NEW x \in R, x # Nil,
           NEW g \in [Cells -> CellType], \A c \in Cells : c # f => g[c] = h[c],
           g[f].type = "pair", CellOK(g, f), g[f].car = x, g[f].cdr = sk
    PROVE  Sound(g, A, R, loc \union {x}, f, H \union {f})
<1>1. /\ HeapOK(h) /\ A \subseteq Cells /\ Held(h, H, loc, sk)
      /\ \A c \in Cells \ A : h[c].type = "none"
      /\ \A y \in R : IsPointer(h, y) /\ y \notin H
      /\ \A y \in loc : IsObject(h, y) /\ y \notin H
      /\ \A c \in Cells \ H : Hidden(h, H, c)
  BY DEF Sound
<1>2. HeapOK(g)
  BY <1>1, HeapChanged
<1>3. f \in Cells /\ f \notin H /\ H \subseteq Cells /\ (\A c \in H : g[c] = h[c]) /\ sk \in H \union {Nil} /\ f # Nil
  BY <1>1, Numbers DEF Held
<1>4. Held(g, H \union {f}, loc \union {x}, f)
  <2>1. ASSUME NEW M \in SUBSET Cells, f \in M \union {Nil}, \A c \in (H \union {f}) \intersect M : g[c].cdr \in M \union {Nil}
        PROVE  H \union {f} \subseteq M
    <3>1. f \in M
      BY <1>3, <2>1
    <3>2. sk \in M \union {Nil}
      BY <2>1, <3>1
    <3>3. \A c \in H \intersect M : h[c].cdr \in M \union {Nil}
      BY <1>3, <2>1
    <3>4. H \subseteq M
      BY <1>1, <3>2, <3>3 DEF Held
    <3>. QED
      BY <3>1, <3>4
  <2>2. \A c \in H \union {f} : g[c].type = "pair" /\ g[c].cdr \in (H \union {f}) \union {Nil}
    BY <1>1, <1>3 DEF Held
  <2>3. \A y \in loc \union {x} : \E c \in H \union {f} : g[c].car = y
    BY <1>1, <1>3 DEF Held
  <2>4. H \union {f} \subseteq Cells
    BY <1>3
  <2>. QED
    BY <2>1, <2>2, <2>3, <2>4 DEF Held
<1>5. \A y : IsObject(h, y) => IsObject(g, y) /\ y # f
  BY DEF IsObject
<1>6. IsObject(h, x)
  BY <1>1 DEF IsPointer
<1>7. \A c \in Cells \ A : g[c].type = "none"
  BY <1>1
<1>8. ASSUME NEW c \in Cells \ (H \union {f}) PROVE Hidden(g, H \union {f}, c)
  <2>1. g[c] = h[c] /\ Hidden(h, H, c) /\ CellOK(h, c)
    BY <1>1, <1>3 DEF HeapOK
  <2>2. h[c].type \in {"pair", "block"} => h[c].car # f /\ h[c].cdr # f
    BY <1>3, <1>5, <2>1 DEF CellOK, IsPointer
  <2>. QED
    BY <2>1, <2>2 DEF Hidden
<1>9. \A y \in R : IsPointer(g, y) /\ y \notin H \union {f}
  BY <1>1, <1>3, <1>5 DEF IsPointer
<1>10. \A y \in loc \union {x} : IsObject(g, y) /\ y \notin H \union {f}
  BY <1>1, <1>5, <1>6
<1>. QED
  BY <1>1, <1>2, <1>4, <1>7, <1>8, <1>9, <1>10 DEF Sound

\* What gc keeps has what the evaluator knows.
Keeps(h, b, A, R, loc, sk, H, M) ==
    /\ Sound(h, A, R, loc, sk, H)
    /\ M \subseteq Cells /\ R \ {Nil} \subseteq M /\ sk \in M \union {Nil}
    /\ \A c \in M : h[c] = b[c] /\ Links(b, c) \subseteq M

\* What the evaluator may use, and what holds it, is marked.
LEMMA KnownIn ==
    ASSUME NEW h, NEW b, NEW A, NEW R, NEW loc, NEW sk, NEW H, NEW M, Keeps(h, b, A, R, loc, sk, H, M)
    PROVE  H \subseteq M /\ loc \subseteq M
<1>. SUFFICES ASSUME Sound(h, A, R, loc, sk, H), M \in SUBSET Cells, R \ {Nil} \subseteq M, sk \in M \union {Nil},
                     \A c \in M : h[c] = b[c] /\ Links(b, c) \subseteq M
              PROVE  H \subseteq M /\ loc \subseteq M
  BY DEF Keeps
<1>1. HeapOK(h) /\ Held(h, H, loc, sk) /\ \A x \in loc : IsObject(h, x)
  BY DEF Sound
<1>2. ASSUME NEW c \in H \intersect M PROVE h[c].car \in M \union {Nil} /\ h[c].cdr \in M \union {Nil}
  <2>1. c \in Cells /\ h[c] = b[c] /\ h[c].type = "pair" /\ CellOK(h, c)
    BY <1>1 DEF Held, HeapOK
  <2>2. Links(b, c) = {h[c].car, h[c].cdr} \ {Nil}
    BY <2>1 DEF Links, CellOK
  <2>. QED
    BY <2>2
<1>3. H \subseteq M
  BY <1>1, <1>2 DEF Held
<1>4. ASSUME NEW x \in loc PROVE x \in M
  <2>1. PICK c \in H : h[c].car = x
    BY <1>1 DEF Held
  <2>2. x # Nil
    BY <1>1, Numbers DEF IsObject
  <2>. QED
    BY <1>2, <1>3, <2>1, <2>2
<1>. QED
  BY <1>3, <1>4

\* It is kept: the heap after gc.
SweptTo(b, h, A, R, loc, sk, H, M, fr, n) ==
    /\ Sound(h, A, R, loc, sk, H)
    /\ ListOK(Free(h, A), h, fr, n)
    /\ \A c \in M : c \in Cells /\ h[c] = b[c]
    /\ \A c \in A \ M : h[c].type = "none"

\* A collection leaves the heap sound.
LEMMA SoundSwept ==
    ASSUME NEW b, NEW A, NEW R, NEW loc, NEW sk, NEW H, Sound(b, A, R, loc, sk, H),
           NEW h, NEW M, M = Reach(b, R \union {sk}), NEW fr, NEW n, Swept(h, b, A, M, fr, n)
    PROVE  SweptTo(b, h, A, R, loc, sk, H, M, fr, n)
<1>. SUFFICES /\ Sound(h, A, R, loc, sk, H)
              /\ ListOK(Free(h, A), h, fr, n)
              /\ \A c \in M : c \in Cells /\ h[c] = b[c]
              /\ \A c \in A \ M : h[c].type = "none"
  BY DEF SweptTo
<1>1. /\ HeapOK(b) /\ A \subseteq Cells /\ Held(b, H, loc, sk)
      /\ \A c \in Cells \ A : b[c].type = "none"
      /\ \A x \in R : IsPointer(b, x) /\ x \notin H
      /\ \A x \in loc : IsObject(b, x) /\ x \notin H
      /\ \A c \in Cells \ H : Hidden(b, H, c)
  BY DEF Sound
<1>2. /\ h \in [Cells -> CellType] /\ \A c \in Cells : c \in M \/ c \notin A => h[c] = b[c]
      /\ \A c \in A \ M : Blank(h, c)
      /\ ListOK(A \ M, h, fr, n)
  BY DEF Swept
<1>3. IsPointer(b, sk)
  BY <1>1 DEF Held, IsPointer, IsObject
<1>4. /\ (R \union {sk}) \ {Nil} \subseteq M /\ M \subseteq Cells
      /\ \A c \in M : b[c].type # "none" /\ Links(b, c) \subseteq M
  <2>. DEFINE S == R \union {sk}
  <2>1. \A x \in S : IsPointer(b, x)
    BY <1>1, <1>3
  <2>. HIDE DEF S
  <2>2. /\ S \ {Nil} \subseteq Reach(b, S) /\ Reach(b, S) \subseteq Cells
        /\ \A c \in Reach(b, S) : b[c].type # "none" /\ Links(b, c) \subseteq Reach(b, S)
    BY <1>1, <2>1, ReachUsed
  <2>. QED
    BY <2>2 DEF S
<1>5. \A c \in M : h[c] = b[c] /\ b[c] = b[c]
  BY <1>2, <1>4
<1>6. H \subseteq M /\ loc \subseteq M
  <2>1. Keeps(b, b, A, R, loc, sk, H, M)
    BY <1>4 DEF Keeps
  <2>. QED
    BY <2>1, KnownIn
<1>7. ASSUME NEW c \in A \ M PROVE h[c].type = "none" /\ h[c].atom = FALSE /\ h[c].mark = FALSE /\ h[c].len = 0 /\ h[c].car = Nil
                                   /\ h[c].cdr \in Pointers
  <2>1. h[c] = [Unused EXCEPT !.cdr = h[c].cdr] /\ h[c].cdr \in Pointers
    BY <1>2 DEF Blank
  <2>. QED
    BY <2>1 DEF Unused
<1>8. \A x \in M : IsObject(b, x) => IsObject(h, x)
  BY <1>5 DEF IsObject
<1>9. ASSUME NEW c \in M PROVE CellOK(h, c)
  <2>1. CellOK(b, c) /\ h[c] = b[c] /\ Links(b, c) \subseteq M /\ b[c] \in CellType
    BY <1>1, <1>4, <1>5 DEF HeapOK
  <2>2. b[c].type \in {"pair", "block"} => b[c].car \in M \union {Nil} /\ b[c].cdr \in M \union {Nil}
    BY <2>1 DEF Links, CellOK
  <2>3. b[c].type \in {"pair", "block"} => IsPointer(h, b[c].car) /\ IsPointer(h, b[c].cdr)
    BY <1>8, <2>1, <2>2, Numbers DEF CellOK, IsPointer
  <2>4. ASSUME b[c].type = "vector", NEW j \in 1 .. Blocks(b[c].len) PROVE c + j \in Cells /\ h[c + j].type = "block"
    <3>1. c \in Nat /\ b[c].len \in Nat
      <4>1. c \in Cells /\ b[c] \in CellType
        BY <1>4, <2>1
      <4>. QED
        BY <4>1, CellsAre DEF CellType
    <3>2. Blocks(b[c].len) \in Nat
      BY <3>1 DEF Blocks
    <3>3. c + j \in c + 1 .. c + Blocks(b[c].len)
      BY <3>1, <3>2
    <3>4. c + j \in M
      BY <2>1, <2>4, <3>3 DEF Links
    <3>5. c + j \in Cells /\ b[c + j].type = "block"
      BY <2>1, <2>4 DEF CellOK
    <3>. QED
      BY <1>5, <3>4, <3>5
  <2>. QED
    BY <2>1, <2>3, <2>4 DEF CellOK
<1>10. ASSUME NEW c \in Cells PROVE CellOK(h, c) /\ (c \notin M => h[c].type = "none")
  <2>1. CASE c \in M
    BY <1>9, <2>1
  <2>2. CASE c \in A \ M
    BY <1>7, <2>2 DEF CellOK
  <2>3. CASE c \in Cells \ A
    <3>1. h[c] = b[c] /\ b[c].type = "none" /\ CellOK(b, c)
      BY <1>1, <1>2, <2>3 DEF HeapOK
    <3>. QED
      BY <3>1 DEF CellOK
  <2>. QED
    BY <2>1, <2>2, <2>3
<1>11. HeapOK(h)
  BY <1>2, <1>10 DEF HeapOK
<1>12. Held(h, H, loc, sk)
  <2>1. \A c \in H : h[c] = b[c]
    BY <1>5, <1>6
  <2>2. ASSUME NEW Q \in SUBSET Cells, sk \in Q \union {Nil}, \A c \in H \intersect Q : h[c].cdr \in Q \union {Nil}
        PROVE  H \subseteq Q
    BY <1>1, <2>1, <2>2 DEF Held
  <2>. QED
    BY <1>1, <2>1, <2>2 DEF Held
<1>13. ASSUME NEW c \in Cells \ H PROVE Hidden(h, H, c)
  <2>1. CASE c \in M
    BY <1>1, <1>5, <2>1 DEF Hidden
  <2>2. CASE c \notin M
    BY <1>10, <2>2 DEF Hidden
  <2>. QED
    BY <2>1, <2>2
<1>14. \A x \in R : IsPointer(h, x)
  BY <1>1, <1>4, <1>8 DEF IsPointer
<1>15. \A x \in loc : IsObject(h, x)
  BY <1>1, <1>6, <1>8
<1>16. \A c \in Cells \ A : h[c].type = "none"
  BY <1>1, <1>2
<1>17. Free(h, A) = A \ M
  <2>1. \A c \in A : h[c].type = "none" <=> c \notin M
    BY <1>1, <1>4, <1>5, <1>10
  <2>. QED
    BY <2>1 DEF Free
<1>. QED
  BY <1>1, <1>2, <1>4, <1>5, <1>7, <1>11, <1>12, <1>13, <1>14, <1>15, <1>16, <1>17 DEF Sound

-----------------------------------------------------------------------------
(* The invariant.                                                          *)

ReqType == [kind : {"none", "cell", "holder", "vector", "reserve"}, a : Pointers, b : Pointers, n : Nat, atom : BOOLEAN]
Typed ==
    /\ segs \subseteq 0 .. MaxSegs - 1 /\ segs # {} /\ cell \in [Cells -> CellType]
    /\ free_cell \in Pointers /\ fcells \in 0 .. Cardinality(Cells)
    /\ reg \in [Reg -> Pointers] /\ no_memory \in BOOLEAN /\ req \in ReqType /\ gc \in GcType /\ ops \in 0 .. MaxOps
    /\ req.kind = "vector" => req.n <= MaxLen
    /\ req.kind = "holder" => req.a # Nil
Asked == {reg[r] : r \in Reg} \union {req.a, req.b}
Live  == Reach(before, Asked \union {sink})
\* No marker is at the heap.
Quiet == /\ \E H : Sound(cell, Allocated, Asked, locals, sink, H)
         /\ ListOK(Free(cell, Allocated), cell, free_cell, fcells)
Waiting == \E H : Sound(before, Allocated, Asked, locals, sink, H)
Kept == /\ HeapOK(before) /\ \A x \in Asked \union {sink} : IsPointer(before, x)
        /\ \A c \in Live : cell[c] = before[c]
Phase ==
    /\ gc.pc \in {"off", "swept", "grown"} => Quiet
    /\ gc.pc \in {"mark", "sweep"} => Waiting
    /\ gc.pc = "mark" => Marking(gc, cell, before, Asked \union {sink})
    /\ gc.pc = "sweep" => Sweeping(gc, cell, before, Allocated, Live, free_cell, fcells)
    /\ gc.pc \in {"swept", "grown"} => Kept
    /\ gc.pc = "swept" => \A c \in Allocated \ Live : cell[c].type = "none"
Inv == Typed /\ Phase

\* There is a segment.
LEMMA AllocatedAre ==
    ASSUME Typed
    PROVE  Allocated \subseteq Cells /\ Allocated # {}
<1>1. Allocated \subseteq Cells
  BY DEF Allocated, Cells, Typed
<1>2. PICK k \in segs : TRUE
  BY DEF Typed
<1>3. k \in 0 .. MaxSegs - 1
  BY DEF Typed
<1>4. Base(k) \in Nat
  BY <1>3, CellsAre
<1>. HIDE DEF Base
<1>5. Base(k) \in CellsOf(k)
  BY <1>4 DEF CellsOf
<1>. QED
  BY <1>1, <1>5 DEF Allocated

\* The first free cell and their number are what TypeOK says.
LEMMA ListTypes ==
    ASSUME NEW F, NEW h, NEW fr, NEW n, ListOK(F, h, fr, n)
    PROVE  fr \in Pointers /\ n \in 0 .. Cardinality(Cells)
<1>1. F \subseteq Cells /\ n = Cardinality(F) /\ NextIn(F, 0, fr)
  BY DEF ListOK
<1>2. IsFiniteSet(F) /\ Cardinality(F) <= Cardinality(Cells)
  BY <1>1, CellsAre, FS_Subset
<1>3. Cardinality(F) \in Nat
  BY <1>2, FS_CardinalityType
<1>4. fr \in Pointers
  BY <1>1 DEF NextIn, Pointers
<1>5. n \in 0 .. Cardinality(Cells)
  BY <1>1, <1>2, <1>3, CellsAre
<1>. QED
  BY <1>4, <1>5

\* The evaluator asks for something else that it may use.
LEMMA SoundAsks ==
    ASSUME NEW h, NEW A, NEW R, NEW loc, NEW sk, NEW H, Sound(h, A, R, loc, sk, H),
           NEW Q, \A x \in Q : IsPointer(h, x) /\ x \notin H
    PROVE  Sound(h, A, Q, loc, sk, H)
  BY DEF Sound

\* NIL is no holder.
LEMMA NilHidden ==
    ASSUME NEW h, NEW A, NEW R, NEW loc, NEW sk, NEW H, Sound(h, A, R, loc, sk, H)
    PROVE  Nil \notin H /\ IsPointer(h, Nil) /\ H \subseteq Cells
  BY Numbers DEF Sound, Held, IsPointer

\* An operand is something the evaluator may use, and no holder.
LEMMA OperandsOK ==
    ASSUME NEW H, Sound(cell, Allocated, Asked, locals, sink, H), NEW x \in Operands
    PROVE  IsPointer(cell, x) /\ x \notin H
<1>1. (\A y \in Asked : IsPointer(cell, y) /\ y \notin H) /\ (\A y \in locals : IsObject(cell, y) /\ y \notin H)
  BY DEF Sound
<1>2. Nil \notin H /\ IsPointer(cell, Nil)
  BY NilHidden
<1>. QED
  BY <1>1, <1>2 DEF Operands, Asked, IsPointer

\* No request, no collection.
LEMMA NoRequestIs ==
    /\ NoRequest \in ReqType /\ NoRequest.kind = "none" /\ NoRequest.a = Nil /\ NoRequest.b = Nil
    /\ NoGc \in GcType /\ NoGc.pc = "off"
<1>1. Nil \in Pointers /\ 0 \in Nat /\ <<>> \in Seq(Cells) /\ <<>> \in Seq(CallType)
  BY DEF Pointers
<1>. QED
  BY <1>1 DEF NoRequest, ReqType, NoGc, GcType

\* The evaluator is at it.
LEMMA RunningIs ==
    ASSUME Inv, Running
    PROVE  Typed /\ Quiet /\ gc.pc = "off" /\ req = NoRequest /\ Asked = {reg[r] : r \in Reg} \union {Nil}
  BY NoRequestIs DEF Inv, Phase, Running, Asked

\* An opcode asks for cells.
LEMMA RequestStep ==
    ASSUME Inv, Request
    PROVE  Inv'
<1>1. Typed /\ Quiet /\ gc.pc = "off" /\ req = NoRequest
  BY RunningIs DEF Request
<1>2. UNCHANGED <<segs, cell, free_cell, fcells, sink, reg, no_memory, gc, locals, before>> /\ Counted
  BY DEF Request, heap
<1>3. PICK H : Sound(cell, Allocated, Asked, locals, sink, H)
  BY <1>1 DEF Quiet
<1>4. \A x \in Operands : x \in Pointers
  BY <1>3, OperandsOK DEF IsPointer, IsObject, Pointers
<1>5. /\ req' \in ReqType /\ (req'.kind = "vector" => req'.n <= MaxLen) /\ req'.kind # "holder"
      /\ req'.a \in Operands \union {Nil} /\ req'.b \in Operands \union {Nil}
  <2>1. CASE \E a, b \in Operands : req' = [NoRequest EXCEPT !.kind = "cell", !.a = a, !.b = b]
    <3>1. PICK a, b \in Operands : req' = [NoRequest EXCEPT !.kind = "cell", !.a = a, !.b = b]
      BY <2>1
    <3>. QED
      BY <1>4, <3>1, NoRequestIs DEF ReqType
  <2>2. CASE req' = [NoRequest EXCEPT !.kind = "cell", !.atom = TRUE]
    BY <2>2, NoRequestIs DEF ReqType
  <2>3. CASE \E n \in 0 .. MaxLen : req' = [NoRequest EXCEPT !.kind = "vector", !.n = n]
    <3>1. PICK n \in 0 .. MaxLen : req' = [NoRequest EXCEPT !.kind = "vector", !.n = n]
      BY <2>3
    <3>2. n \in Nat /\ n <= MaxLen
      BY SizeAssumption
    <3>. QED
      BY <3>1, <3>2, NoRequestIs DEF ReqType
  <2>4. CASE req' = [NoRequest EXCEPT !.kind = "reserve", !.n = SegSize]
    BY <2>4, NoRequestIs DEF ReqType
  <2>. QED
    BY <2>1, <2>2, <2>3, <2>4 DEF Request
<1>6. Typed'
  BY <1>1, <1>2, <1>5 DEF Typed, Counted
<1>7. Sound(cell, Allocated, Asked', locals, sink, H)
  <2>1. \A x \in Asked' : x \in {reg[r] : r \in Reg} \union Operands \union {Nil}
    BY <1>2, <1>5 DEF Asked
  <2>2. {reg[r] : r \in Reg} \union {Nil} \subseteq Operands
    BY DEF Operands
  <2>3. \A x \in Asked' : IsPointer(cell, x) /\ x \notin H
    BY <1>3, <2>1, <2>2, OperandsOK
  <2>. QED
    BY <1>3, <2>3, SoundAsks
<1>8. Allocated' = Allocated
  BY <1>2 DEF Allocated
<1>9. Quiet'
  BY <1>1, <1>2, <1>7, <1>8 DEF Quiet
<1>. QED
  BY <1>1, <1>2, <1>6, <1>9 DEF Inv, Phase

\* An opcode takes a part of what it knows.
LEMMA LoadStep ==
    ASSUME Inv, Load
    PROVE  Inv'
<1>1. Typed /\ Quiet /\ gc.pc = "off" /\ req = NoRequest
  BY RunningIs DEF Load
<1>2. UNCHANGED <<segs, cell, free_cell, fcells, sink, no_memory, req, gc, locals, before>> /\ Counted
  BY DEF Load, heap
<1>3. PICK H : Sound(cell, Allocated, Asked, locals, sink, H)
  BY <1>1 DEF Quiet
<1>40. PICK r \in Reg : \E x \in UNION {Parts(y) : y \in Operands} \ {reg[r]} : reg' = [reg EXCEPT ![r] = x]
  BY DEF Load
<1>42. PICK x \in UNION {Parts(y) : y \in Operands} : reg' = [reg EXCEPT ![r] = x]
  BY <1>40
<1>4. (\E y \in Operands : x \in Parts(y)) /\ reg' = [reg EXCEPT ![r] = x]
  BY <1>42
<1>41. PICK y \in Operands : x \in Parts(y)
  BY <1>4
<1>5. IsPointer(cell, x) /\ x \notin H
  <2>1. IsPointer(cell, y) /\ y \notin H
    BY <1>3, OperandsOK
  <2>2. CASE x = y
    BY <2>1, <2>2
  <2>3. CASE x # y
    <3>1. y # Nil /\ cell[y].type = "pair" /\ x \in {cell[y].car, cell[y].cdr}
      BY <1>41, <2>3 DEF Parts
    <3>2. y \in Cells
      BY <2>1, <3>1 DEF IsPointer, IsObject
    <3>3. CellOK(cell, y) /\ Hidden(cell, H, y)
      BY <1>3, <2>1, <3>2 DEF Sound, HeapOK
    <3>. QED
      BY <3>1, <3>3 DEF CellOK, Hidden
  <2>. QED
    BY <2>2, <2>3
<1>6. x \in Pointers
  BY <1>5 DEF IsPointer, IsObject, Pointers
<1>7. reg' \in [Reg -> Pointers] /\ \A q \in Reg : reg'[q] = x \/ reg'[q] = reg[q]
  BY <1>1, <1>4, <1>6 DEF Typed
<1>8. Typed'
  BY <1>1, <1>2, <1>7 DEF Typed, Counted
<1>9. Sound(cell, Allocated, Asked', locals, sink, H)
  <2>1. \A z \in Asked' : z = x \/ z \in Asked
    BY <1>2, <1>7 DEF Asked
  <2>2. \A z \in Asked : IsPointer(cell, z) /\ z \notin H
    BY <1>3 DEF Sound
  <2>3. \A z \in Asked' : IsPointer(cell, z) /\ z \notin H
    BY <1>5, <2>1, <2>2
  <2>. QED
    BY <1>3, <2>3, SoundAsks
<1>10. Allocated' = Allocated
  BY <1>2 DEF Allocated
<1>11. Quiet'
  BY <1>1, <1>2, <1>9, <1>10 DEF Quiet
<1>. QED
  BY <1>1, <1>2, <1>8, <1>11 DEF Inv, Phase

\* After an opcode the recent allocations are forgotten.
LEMMA NextOpcodeStep ==
    ASSUME Inv, NextOpcode
    PROVE  Inv'
<1>1. Typed /\ Quiet /\ gc.pc = "off" /\ req = NoRequest
  BY RunningIs DEF NextOpcode
<1>2. UNCHANGED <<segs, cell, free_cell, fcells, reg, no_memory, req, gc, ops, before>> /\ sink' = Nil /\ locals' = {}
  BY DEF NextOpcode, heap
<1>3. PICK H : Sound(cell, Allocated, Asked, locals, sink, H)
  BY <1>1 DEF Quiet
<1>4. Typed'
  BY <1>1, <1>2 DEF Typed
<1>5. Sound(cell, Allocated, Asked, {}, Nil, {})
  <2>1. Held(cell, {}, {}, Nil)
    BY DEF Held
  <2>2. \A c \in Cells : Hidden(cell, {}, c)
    BY DEF Hidden
  <2>. QED
    BY <1>3, <2>1, <2>2 DEF Sound
<1>6. Allocated' = Allocated /\ Asked' = Asked
  BY <1>2 DEF Allocated, Asked
<1>7. Quiet'
  BY <1>1, <1>2, <1>5, <1>6 DEF Quiet
<1>. QED
  BY <1>1, <1>2, <1>4, <1>7 DEF Inv, Phase

\* An opcode stores into a pair or a vector.
LEMMA AssignStep ==
    ASSUME Inv, Assign
    PROVE  Inv'
<1>1. Typed /\ Quiet /\ gc.pc = "off" /\ req = NoRequest
  BY RunningIs DEF Assign
<1>2. UNCHANGED <<segs, free_cell, fcells, sink, reg, no_memory, req, gc, locals, before>> /\ Counted
  BY DEF Assign
<1>3. PICK H : Sound(cell, Allocated, Asked, locals, sink, H)
  BY <1>1 DEF Quiet
<1>4. HeapOK(cell) /\ cell \in [Cells -> CellType] /\ Allocated \subseteq Cells
      /\ \A c \in Cells \ Allocated : cell[c].type = "none"
  BY <1>3 DEF Sound, HeapOK
<1>5. PICK z, y : /\ z \in Allocated \ H /\ cell[z].type \in {"pair", "block"} /\ y \in Operands
                  /\ \/ cell' = [cell EXCEPT ![z].car = y]
                     \/ cell' = [cell EXCEPT ![z].cdr = y]
  <2>1. PICK x \in Operands \ {Nil}, y \in Operands :
          \/ /\ cell[x].type = "pair"
             /\ \/ cell' = [cell EXCEPT ![x].car = y]
                \/ cell' = [cell EXCEPT ![x].cdr = y]
          \/ \E i \in 0 .. cell[x].len - 1 :
                cell' = IF i % 2 = 0 THEN [cell EXCEPT ![x + 1 + i \div 2].car = y]
                        ELSE [cell EXCEPT ![x + 1 + i \div 2].cdr = y]
    BY DEF Assign
  <2>2. IsObject(cell, x) /\ x \notin H
    BY <1>3, <2>1, OperandsOK DEF IsPointer
  <2>3. x \in Cells /\ CellOK(cell, x) /\ cell[x] \in CellType /\ x \in Nat
    BY <1>4, <2>2, CellsAre DEF IsObject, HeapOK
  <2>4. CASE cell[x].type = "pair"  /\ (cell' = [cell EXCEPT ![x].car = y] \/ cell' = [cell EXCEPT ![x].cdr = y])
    <3>1. x \in Allocated
      BY <1>4, <2>3, <2>4
    <3>. QED
      BY <2>2, <2>4, <3>1
  <2>5. ASSUME NEW i \in 0 .. cell[x].len - 1,
               cell' = IF i % 2 = 0 THEN [cell EXCEPT ![x + 1 + i \div 2].car = y]
                       ELSE [cell EXCEPT ![x + 1 + i \div 2].cdr = y]
        PROVE  \E z, v : /\ z \in Allocated \ H /\ cell[z].type \in {"pair", "block"} /\ v \in Operands
                         /\ \/ cell' = [cell EXCEPT ![z].car = v]
                            \/ cell' = [cell EXCEPT ![z].cdr = v]
    <3>. DEFINE j == i \div 2 + 1
                z == x + 1 + i \div 2
    <3>1. cell[x].len \in Nat /\ cell[x].len > 0 /\ i \in Nat
      BY <2>3 DEF CellType
    <3>2. cell[x].type = "vector"
      BY <2>2, <2>3, <3>1 DEF CellOK, IsObject
    <3>3. j \in 1 .. Blocks(cell[x].len)
      BY <3>1 DEF Blocks
    <3>4. z = x + j
      BY <2>3, <3>1
    <3>. HIDE DEF j
    <3>5. z \in Cells /\ cell[z].type = "block"
      BY <2>3, <3>2, <3>3, <3>4 DEF CellOK
    <3>6. z \in Allocated
      BY <1>4, <3>5
    <3>7. z \notin H
      BY <1>3, <3>5 DEF Sound, Held
    <3>8. cell' = [cell EXCEPT ![z].car = y] \/ cell' = [cell EXCEPT ![z].cdr = y]
      BY <2>5
    <3>. QED
      BY <3>5, <3>6, <3>7, <3>8
  <2>. QED
    BY <2>1, <2>4, <2>5
<1>6. IsPointer(cell, y) /\ y \notin H /\ y \in Pointers
  BY <1>3, <1>5, OperandsOK DEF IsPointer, IsObject, Pointers
<1>7. z \in Cells /\ CellOK(cell, z) /\ cell[z] \in CellType /\ Hidden(cell, H, z)
  BY <1>3, <1>4, <1>5 DEF HeapOK, Sound
<1>8. /\ cell' \in [Cells -> CellType] /\ \A c \in Cells : c # z => cell'[c] = cell[c]
      /\ cell'[z].type = cell[z].type /\ cell'[z].atom = cell[z].atom /\ cell'[z].mark = cell[z].mark
      /\ cell'[z].len = cell[z].len /\ cell'[z].car \in {y, cell[z].car} /\ cell'[z].cdr \in {y, cell[z].cdr}
  <2>1. CASE cell' = [cell EXCEPT ![z].car = y]
    <3>1. [cell[z] EXCEPT !.car = y] \in CellType
      BY <1>6, <1>7 DEF CellType
    <3>2. cell' \in [Cells -> CellType] /\ (\A c \in Cells : c # z => cell'[c] = cell[c]) /\ cell'[z] = [cell[z] EXCEPT !.car = y]
      BY <1>4, <1>7, <2>1, <3>1
    <3>. QED
      BY <1>7, <3>2 DEF CellType
  <2>2. CASE cell' = [cell EXCEPT ![z].cdr = y]
    <3>1. [cell[z] EXCEPT !.cdr = y] \in CellType
      BY <1>6, <1>7 DEF CellType
    <3>2. cell' \in [Cells -> CellType] /\ (\A c \in Cells : c # z => cell'[c] = cell[c]) /\ cell'[z] = [cell[z] EXCEPT !.cdr = y]
      BY <1>4, <1>7, <2>2, <3>1
    <3>. QED
      BY <1>7, <3>2 DEF CellType
  <2>. QED
    BY <1>5, <2>1, <2>2
<1>9. \A c \in Cells : cell'[c].type = cell[c].type
  BY <1>8
<1>10. \A x : IsPointer(cell, x) => IsPointer(cell', x)
  BY <1>9 DEF IsPointer, IsObject
<1>11. CellOK(cell', z) /\ Hidden(cell', H, z)
  BY <1>5, <1>6, <1>7, <1>8, <1>10 DEF CellOK, Hidden
<1>12. Mutates(cell, cell', Allocated, Allocated, H)
  BY <1>4, <1>5, <1>8, <1>9, <1>11 DEF Mutates
<1>13. Sound(cell', Allocated, Asked, locals, sink, H)
  BY <1>3, <1>12, SoundMutates
<1>14. Typed'
  BY <1>1, <1>2, <1>8 DEF Typed, Counted
<1>15. Allocated' = Allocated /\ Asked' = Asked
  BY <1>2 DEF Allocated, Asked
<1>16. ListOK(Free(cell', Allocated), cell', free_cell, fcells)
  <2>1. Free(cell', Allocated) = Free(cell, Allocated)
    BY <1>4, <1>9 DEF Free
  <2>2. \A c \in Free(cell, Allocated) : cell'[c] = cell[c]
    BY <1>4, <1>5, <1>8 DEF Free
  <2>. QED
    BY <1>1, <2>1, <2>2 DEF Quiet, ListOK
<1>17. Quiet'
  BY <1>2, <1>13, <1>15, <1>16 DEF Quiet
<1>. QED
  BY <1>1, <1>2, <1>14, <1>17 DEF Inv, Phase

-----------------------------------------------------------------------------
(* Serving a request.                                                      *)

Holds(c, t, x, y) == /\ c \in CellType /\ c.type = t /\ c.atom = FALSE /\ c.mark = FALSE /\ c.len = 0
                     /\ c.car = x /\ c.cdr = y

\* What the cell of a pair, or of two elements, holds.
LEMMA PairIs ==
    ASSUME NEW t, t = "pair" \/ t = "block", NEW x \in Pointers, NEW y \in Pointers
    PROVE  Holds(Pair(t, x, y), t, x, y)
<1>1. Nil \in Pointers /\ 0 \in 0 .. MaxLen
  BY SizeAssumption DEF Pointers
<1>2. Unused \in CellType
  BY <1>1 DEF Unused, CellType
<1>. QED
  BY <1>2 DEF Pair, CellType, Unused, Holds

\* What the cell of a number holds.
LEMMA NumberIs ==
    /\ Number \in CellType /\ Number.type = "number" /\ Number.atom = TRUE
    /\ Number.mark = FALSE /\ Number.len = 0
<1>1. Nil \in Pointers /\ 0 \in 0 .. MaxLen
  BY SizeAssumption DEF Pointers
<1>2. Unused \in CellType
  BY <1>1 DEF Unused, CellType
<1>. QED
  BY <1>2 DEF Number, CellType, Unused

\* What the first cell of a vector holds.
LEMMA VectorIs ==
    ASSUME NEW n \in 0 .. MaxLen
    PROVE  /\ Vector(n) \in CellType /\ Vector(n).type = "vector" /\ Vector(n).atom = TRUE
           /\ Vector(n).mark = FALSE /\ Vector(n).len = n
<1>1. Nil \in Pointers /\ 0 \in 0 .. MaxLen
  BY SizeAssumption DEF Pointers
<1>2. Unused \in CellType
  BY <1>1 DEF Unused, CellType
<1>. QED
  BY <1>2 DEF Vector, CellType, Unused

\* When a cell may be taken, no marker is at the heap.
LEMMA ServingIs ==
    ASSUME Inv, MayTake
    PROVE  Typed /\ Quiet
  BY DEF Inv, Phase, MayTake

\* gc is over, and the heap is in order.
LEMMA QuietInv ==
    ASSUME Typed', Quiet', gc' = NoGc
    PROVE  Inv'
  BY NoRequestIs DEF Inv, Phase

\* Free cells are not the evaluator's.
LEMMA FreeIs ==
    ASSUME NEW h, NEW A, NEW R, NEW loc, NEW sk, NEW H, Sound(h, A, R, loc, sk, H), NEW f \in Free(h, A)
    PROVE  f \in Cells /\ f \in A /\ h[f].type = "none" /\ f \notin H /\ f # Nil
  BY Numbers DEF Free, Sound, Held

\* What a sound heap says of the variables.
LEMMA SoundTyped ==
    ASSUME NEW h, NEW A, NEW R, NEW loc, NEW sk, NEW H, Sound(h, A, R, loc, sk, H)
    PROVE  h \in [Cells -> CellType] /\ HeapOK(h) /\ sk \in Pointers /\ loc \subseteq Cells /\ R \subseteq Pointers
  BY DEF Sound, HeapOK, Held, Pointers, IsObject, IsPointer

\* A cell is taken off the free list and remembered, or needs a holder first.
LEMMA TakeCellStep ==
    ASSUME Inv, TakeCell
    PROVE  Inv'
<1>1. Typed /\ Quiet
  BY ServingIs DEF TakeCell
<1>2. UNCHANGED <<segs, sink, reg, no_memory, ops, locals, before>> /\ gc' = NoGc
  BY DEF TakeCell
<1>3. PICK H : Sound(cell, Allocated, Asked, locals, sink, H)
  BY <1>1 DEF Quiet
<1>. DEFINE F == Free(cell, Allocated)
            f == free_cell
<1>4. ListOK(F, cell, f, fcells) /\ f # Nil
  BY <1>1 DEF Quiet, TakeCell, Served
<1>5. cell' = [cell EXCEPT ![f] = Pair("pair", req.a, req.b)] /\ free_cell' = cell[f].cdr /\ fcells' = fcells - 1
  BY DEF TakeCell
<1>6. req \in ReqType /\ req.kind = "cell" /\ req' = [req EXCEPT !.kind = "holder", !.a = f, !.b = Nil]
  BY <1>1 DEF Typed, TakeCell
<1>7. /\ IsPointer(cell, req.a) /\ req.a \notin H /\ IsPointer(cell, req.b) /\ req.b \notin H
      /\ req.a \in Pointers /\ req.b \in Pointers
  <2>1. req.a \in Asked /\ req.b \in Asked
    BY DEF Asked
  <2>2. \A x \in Asked : IsPointer(cell, x) /\ x \notin H
    BY <1>3 DEF Sound
  <2>. QED
    BY <1>3, <2>1, <2>2, SoundTyped
<1>8. cell \in [Cells -> CellType]
  BY <1>3, SoundTyped
<1>9. \A c \in Cells : c # f => cell'[c] = cell[c]
  BY <1>5, <1>8
<1>10. F \subseteq Cells
  BY <1>4 DEF ListOK
<1>11. f \in F /\ ListOK(F \ {f}, cell', cell[f].cdr, fcells - 1)
  <2>1. \A c \in F \ {f} : cell'[c].cdr = cell[c].cdr
    BY <1>9, <1>10
  <2>. HIDE DEF F, f
  <2>. QED
    BY <1>4, <2>1, ListTail
<1>12. f \in Cells /\ f \in Allocated /\ cell[f].type = "none" /\ f \notin H
  BY <1>3, <1>11, FreeIs
<1>. DEFINE P == Pair("pair", req.a, req.b)
<1>129. Holds(P, "pair", req.a, req.b)
  BY <1>7, PairIs
<1>130. /\ P \in CellType /\ P.type = "pair" /\ P.atom = FALSE /\ P.mark = FALSE /\ P.len = 0
        /\ P.car = req.a /\ P.cdr = req.b
  BY <1>129 DEF Holds
<1>. HIDE DEF P
<1>13. cell'[f] = P /\ cell' \in [Cells -> CellType]
  BY <1>5, <1>8, <1>12, <1>130 DEF P
<1>14. /\ cell'[f].type = "pair" /\ cell'[f].atom = FALSE /\ cell'[f].mark = FALSE /\ cell'[f].len = 0
       /\ cell'[f].car = req.a /\ cell'[f].cdr = req.b
  BY <1>13, <1>130
<1>. HIDE DEF f
<1>15. \A x : IsPointer(cell, x) => IsPointer(cell', x)
  BY <1>9, <1>12, <1>14 DEF IsPointer, IsObject
<1>16. CellOK(cell', f) /\ Hidden(cell', H, f)
  BY <1>7, <1>14, <1>15 DEF CellOK, Hidden
<1>17. Mutates(cell, cell', Allocated, Allocated, H)
  <2>1. Allocated \subseteq Cells
    BY <1>1, AllocatedAre
  <2>. QED
    BY <1>9, <1>12, <1>13, <1>14, <1>16, <2>1 DEF Mutates
<1>18. Sound(cell', Allocated, Asked, locals, sink, H)
  BY <1>3, <1>17, SoundMutates
<1>19. /\ req' \in ReqType /\ req'.kind = "holder" /\ req'.a = f /\ req'.b = Nil /\ f \in Pointers /\ f # Nil
  BY <1>6, <1>12, Numbers DEF ReqType, Pointers
<1>20. Sound(cell', Allocated, Asked', locals, sink, H)
  <2>1. \A x \in Asked' : x \in Asked \union {f, Nil}
    BY <1>2, <1>19 DEF Asked
  <2>2. \A x \in Asked : IsPointer(cell', x) /\ x \notin H
    BY <1>18 DEF Sound
  <2>3. IsPointer(cell', f) /\ f \notin H
    BY <1>12, <1>14 DEF IsPointer, IsObject
  <2>4. IsPointer(cell', Nil) /\ Nil \notin H
    BY <1>18, NilHidden
  <2>5. \A x \in Asked' : IsPointer(cell', x) /\ x \notin H
    BY <2>1, <2>2, <2>3, <2>4
  <2>. QED
    BY <1>18, <2>5, SoundAsks
<1>21. Free(cell', Allocated) = F \ {f}
  <2>1. Allocated \subseteq Cells
    BY <1>1, AllocatedAre
  <2>2. \A c \in Allocated : c \in Free(cell', Allocated) <=> c \in F \ {f}
    BY <1>9, <1>12, <1>14, <2>1 DEF Free
  <2>3. Free(cell', Allocated) \subseteq Allocated /\ F \subseteq Allocated
    BY DEF Free
  <2>. QED
    BY <2>2, <2>3
<1>22. ListOK(Free(cell', Allocated), cell', free_cell', fcells')
  BY <1>5, <1>11, <1>21 DEF f
<1>23. free_cell' \in Pointers /\ fcells' \in 0 .. Cardinality(Cells)
  BY <1>22, ListTypes
<1>24. Allocated' = Allocated
  BY <1>2 DEF Allocated
<1>25. Typed'
  BY <1>1, <1>2, <1>13, <1>19, <1>23, NoRequestIs DEF Typed
<1>26. Quiet'
  BY <1>2, <1>20, <1>22, <1>24 DEF Quiet
<1>. QED
  BY <1>2, <1>25, <1>26, QuietInv

\* Nothing but the request is changed: it has been served, or refused.
LEMMA EndsRequest ==
    ASSUME Typed, Quiet, no_memory' \in BOOLEAN, req' = NoRequest, gc' = NoGc,
           UNCHANGED <<segs, cell, free_cell, fcells, sink, reg, ops, locals, before>>
    PROVE  Inv'
<1>1. PICK H : Sound(cell, Allocated, Asked, locals, sink, H)
  BY DEF Quiet
<1>2. Sound(cell, Allocated, Asked', locals, sink, H)
  <2>1. \A x \in Asked' : x \in Asked \union {Nil}
    BY NoRequestIs DEF Asked
  <2>3. \A x \in Asked : IsPointer(cell, x) /\ x \notin H
    BY <1>1 DEF Sound
  <2>4. IsPointer(cell, Nil) /\ Nil \notin H
    BY <1>1, NilHidden
  <2>2. \A x \in Asked' : IsPointer(cell, x) /\ x \notin H
    BY <2>1, <2>3, <2>4
  <2>. QED
    BY <1>1, <2>2, SoundAsks
<1>3. Allocated' = Allocated
  BY DEF Allocated
<1>4. Quiet'
  BY <1>2, <1>3 DEF Quiet
<1>5. Typed'
  BY NoRequestIs DEF Typed
<1>. QED
  BY <1>4, <1>5, QuietInv

\* There were cells enough.
LEMMA ReservedStep ==
    ASSUME Inv, Reserved
    PROVE  Inv'
<1>1. Typed /\ Quiet
  BY ServingIs DEF Reserved
<1>2. /\ UNCHANGED <<segs, cell, free_cell, fcells, sink, reg, ops, locals, before>>
      /\ no_memory' = no_memory /\ req' = NoRequest /\ gc' = NoGc
  BY DEF Reserved, heap
<1>3. no_memory' \in BOOLEAN
  BY <1>1, <1>2 DEF Typed
<1>. QED
  BY <1>1, <1>2, <1>3, EndsRequest

\* There were none, and the request is given up.
LEMMA NoMemoryStep ==
    ASSUME Inv, NoMemory
    PROVE  Inv'
<1>1. Typed /\ Quiet
  BY DEF Inv, Phase, NoMemory
<1>2. /\ UNCHANGED <<segs, cell, free_cell, fcells, sink, reg, ops, locals, before>>
      /\ no_memory' = TRUE /\ req' = NoRequest /\ gc' = NoGc
  BY DEF NoMemory, heap
<1>3. no_memory' \in BOOLEAN
  BY <1>2
<1>. QED
  BY <1>1, <1>2, <1>3, EndsRequest

\* The second cell holds the new one in the list of recent allocations.
LEMMA TakeHolderStep ==
    ASSUME Inv, TakeHolder
    PROVE  Inv'
<1>1. Typed /\ Quiet
  BY ServingIs DEF TakeHolder
<1>2. UNCHANGED <<segs, reg, no_memory, ops, before>> /\ gc' = NoGc /\ req' = NoRequest
  BY DEF TakeHolder
<1>3. PICK H : Sound(cell, Allocated, Asked, locals, sink, H)
  BY <1>1 DEF Quiet
<1>. DEFINE F == Free(cell, Allocated)
            f == free_cell
            x == req.a
            P == Pair("pair", x, sink)
<1>4. ListOK(F, cell, f, fcells) /\ f # Nil
  BY <1>1 DEF Quiet, TakeHolder, Served
<1>5. /\ cell' = [cell EXCEPT ![f] = P, ![x] = IF req.atom THEN Number ELSE @]
      /\ free_cell' = cell[f].cdr /\ fcells' = fcells - 1
      /\ sink' = f /\ locals' = locals \union {x}
  BY DEF TakeHolder, Linked
<1>6. x # Nil
  BY <1>1 DEF Typed, TakeHolder
<1>7. cell \in [Cells -> CellType] /\ sink \in Pointers /\ locals \subseteq Cells
  BY <1>3, SoundTyped
<1>8. IsPointer(cell, x) /\ x \notin H /\ x \in Asked
  BY <1>3 DEF Sound, Asked
<1>9. IsObject(cell, x) /\ x \in Cells /\ x \in Pointers
  BY <1>6, <1>8 DEF IsPointer, IsObject, Pointers
<1>10. F \subseteq Cells
  BY <1>4 DEF ListOK
<1>11. Holds(P, "pair", x, sink)
  BY <1>7, <1>9, PairIs
<1>12. P \in CellType
  BY <1>11 DEF Holds
<1>. HIDE DEF P, f, x
<1>13. f \in F
  BY <1>4 DEF ListOK, NextIn
<1>14. f \in Cells /\ f \in Allocated /\ cell[f].type = "none" /\ f \notin H
  BY <1>3, <1>13, FreeIs
<1>15. f # x
  BY <1>9, <1>14 DEF IsObject
<1>. DEFINE g == [cell EXCEPT ![x] = IF req.atom THEN Number ELSE @]
<1>16. g \in [Cells -> CellType] /\ (\A c \in Cells : c # x => g[c] = cell[c]) /\ (g[x] = Number \/ g[x] = cell[x])
  BY <1>7, <1>9, NumberIs
<1>17. /\ cell' \in [Cells -> CellType] /\ (\A c \in Cells : c # f => cell'[c] = g[c])
       /\ cell'[f] = P
  BY <1>5, <1>7, <1>9, <1>12, <1>14, <1>15, NumberIs
<1>. HIDE DEF g
<1>18. Mutates(cell, g, Allocated, Allocated, H)
  <2>1. g[x] = cell[x] \/ (CellOK(g, x) /\ Hidden(g, H, x))
    BY <1>16, NumberIs DEF CellOK, Hidden
  <2>2. x \in Allocated
    BY <1>3, <1>9 DEF Sound, IsObject
  <2>3. Allocated \subseteq Cells
    BY <1>1, AllocatedAre
  <2>4. \A c \in Cells : cell[c].type \in {"pair", "number", "vector"} => g[c].type \in {"pair", "number", "vector"}
    BY <1>9, <1>16, NumberIs DEF IsObject
  <2>5. \A c \in Cells : cell[c].type = "block" => g[c].type = "block"
    BY <1>9, <1>16 DEF IsObject
  <2>6. \A c \in Cells : g[c] = cell[c] \/ (c \in Allocated \ H /\ CellOK(g, c) /\ Hidden(g, H, c))
    BY <1>8, <1>16, <2>1, <2>2
  <2>. QED
    BY <1>16, <2>3, <2>4, <2>5, <2>6 DEF Mutates
<1>19. Sound(g, Allocated, Asked, locals, sink, H)
  BY <1>3, <1>18, SoundMutates
<1>20. g[f] = cell[f] /\ cell'[x] = g[x]
  BY <1>9, <1>14, <1>15, <1>16, <1>17
<1>21. CellOK(cell', f) /\ cell'[f].type = "pair" /\ cell'[f].car = x /\ cell'[f].cdr = sink
  <2>1. IsPointer(cell', x)
    BY <1>9, <1>16, <1>20, NumberIs DEF IsPointer, IsObject
  <2>2. IsPointer(cell', sink)
    <3>1. sink \in H \union {Nil}
      BY <1>3 DEF Sound, Held
    <3>2. CASE sink \in H
      <4>1. cell[sink].type = "pair" /\ sink \in Cells
        BY <1>3, <3>2 DEF Sound, Held
      <4>2. cell'[sink] = cell[sink]
        BY <1>8, <1>14, <1>16, <1>17, <3>2, <4>1
      <4>. QED
        BY <4>1, <4>2 DEF IsPointer, IsObject
    <3>. QED
      BY <3>1, <3>2 DEF IsPointer
  <2>3. /\ cell'[f].type = "pair" /\ cell'[f].atom = FALSE /\ cell'[f].mark = FALSE /\ cell'[f].len = 0
        /\ cell'[f].car = x /\ cell'[f].cdr = sink
    BY <1>11, <1>17 DEF Holds
  <2>. QED
    BY <2>1, <2>2, <2>3 DEF CellOK
<1>22. Sound(cell', Allocated, Asked, locals \union {x}, f, H \union {f})
  <2>1. g[f].type = "none"
    BY <1>14, <1>20
  <2>. HIDE DEF F
  <2>. QED
    BY <1>6, <1>8, <1>14, <1>17, <1>19, <1>21, <2>1, SoundHolder
<1>23. Sound(cell', Allocated, Asked', locals', sink', H \union {f})
  <2>1. \A y \in Asked' : y \in Asked \union {Nil}
    BY <1>2, NoRequestIs DEF Asked
  <2>2. \A y \in Asked : IsPointer(cell', y) /\ y \notin H \union {f}
    BY <1>22 DEF Sound
  <2>3. IsPointer(cell', Nil) /\ Nil \notin H \union {f}
    BY <1>22, NilHidden
  <2>4. \A y \in Asked' : IsPointer(cell', y) /\ y \notin H \union {f}
    BY <2>1, <2>2, <2>3
  <2>5. Sound(cell', Allocated, Asked', locals \union {x}, f, H \union {f})
    BY <1>22, <2>4, SoundAsks
  <2>. QED
    BY <1>5, <2>5
<1>24. ListOK(F \ {f}, cell', cell[f].cdr, fcells - 1)
  <2>1. \A c \in F : c # x
    BY <1>9 DEF Free, IsObject
  <2>2. \A c \in F \ {f} : cell'[c] = cell[c]
    BY <1>10, <1>16, <1>17, <2>1
  <2>3. \A c \in F \ {f} : cell'[c].cdr = cell[c].cdr
    BY <2>2
  <2>. HIDE DEF F
  <2>. QED
    BY <1>4, <2>3, ListTail
<1>25. Free(cell', Allocated) = F \ {f}
  <2>1. Allocated \subseteq Cells
    BY <1>1, AllocatedAre
  <2>2. cell'[x].type # "none" /\ cell'[f].type = "pair"
    BY <1>9, <1>16, <1>20, <1>21, NumberIs DEF IsObject
  <2>3. cell[x].type # "none" /\ \A c \in Cells : c # f /\ c # x => cell'[c] = cell[c]
    BY <1>9, <1>16, <1>17 DEF IsObject
  <2>4. \A c \in Allocated : c \in Free(cell', Allocated) <=> c \in F \ {f}
    BY <1>14, <2>1, <2>2, <2>3 DEF Free
  <2>5. Free(cell', Allocated) \subseteq Allocated /\ F \subseteq Allocated
    BY DEF Free
  <2>. QED
    BY <2>4, <2>5
<1>26. ListOK(Free(cell', Allocated), cell', free_cell', fcells')
  BY <1>5, <1>24, <1>25
<1>27. free_cell' \in Pointers /\ fcells' \in 0 .. Cardinality(Cells)
  BY <1>26, ListTypes
<1>28. Allocated' = Allocated
  BY <1>2 DEF Allocated
<1>29. Typed'
  BY <1>1, <1>2, <1>17, <1>27, NoRequestIs DEF Typed
<1>30. Quiet'
  BY <1>23, <1>26, <1>28 DEF Quiet
<1>. QED
  BY <1>2, <1>29, <1>30, QuietInv

\* What the cells are when a vector of n elements has been put at x, with w cells.
Placed(h, g, F, x, w, n, rest) ==
    /\ g[x] = Vector(n) /\ \A c \in x + 1 .. x + w - 1 : g[c] = Pair("block", Nil, Nil)
    /\ \A c \in Cells \ (x .. x + w - 1) :
          g[c] = IF c \in F /\ h[c].cdr = x THEN [h[c] EXCEPT !.cdr = rest] ELSE h[c]

\* Putting it there spares what was allocated, and takes the row off the free list.
LEMMA PlacedMutates ==
    ASSUME NEW h, NEW A, NEW R, NEW loc, NEW sk, NEW H, Sound(h, A, R, loc, sk, H),
           NEW x \in Nat, NEW w \in Nat \ {0}, NEW n \in 0 .. MaxLen, Blocks(n) = w - 1,
           x .. x + w - 1 \subseteq Free(h, A), NEW rest \in Pointers,
           NEW g, DOMAIN g = Cells, g = [c \in Cells |-> g[c]], Placed(h, g, Free(h, A), x, w, n, rest)
    PROVE  /\ Mutates(h, g, A, A, H) /\ IsObject(g, x)
           /\ Free(g, A) = Free(h, A) \ (x .. x + w - 1)
           /\ \A c \in Free(h, A) \ (x .. x + w - 1) : g[c].cdr = IF h[c].cdr = x THEN rest ELSE h[c].cdr
<1>. DEFINE F == Free(h, A)
<1>1. h \in [Cells -> CellType] /\ A \subseteq Cells /\ (\A c \in Cells : CellOK(h, c)) /\ H \subseteq Cells
  BY DEF Sound, HeapOK, Held
<1>2. \A c \in F : c \in Cells /\ c \in A /\ h[c].type = "none" /\ c \notin H
  BY FreeIs
<1>3. x \in F /\ \A c \in x + 1 .. x + w - 1 : c \in F
  <2>1. \A c \in x .. x + w - 1 : c \in F
    OBVIOUS
  <2>. QED
    BY <2>1
<1>4. Nil \in Pointers
  BY DEF Pointers
<1>5. g[x] \in CellType /\ g[x].type = "vector" /\ g[x].atom = TRUE /\ g[x].mark = FALSE /\ g[x].len = n
  BY VectorIs, ZenonT(60) DEF Placed
<1>6. \A c \in x + 1 .. x + w - 1 : Holds(g[c], "block", Nil, Nil)
  <2>1. Holds(Pair("block", Nil, Nil), "block", Nil, Nil)
    BY <1>4, PairIs
  <2>. QED
    BY <2>1 DEF Placed
<1>7. \A c \in F \ (x .. x + w - 1) : /\ g[c] \in CellType /\ g[c].type = "none" /\ g[c].atom = h[c].atom /\ g[c].mark = h[c].mark
                                      /\ g[c].len = h[c].len /\ g[c].car = h[c].car
                                      /\ g[c].cdr = IF h[c].cdr = x THEN rest ELSE h[c].cdr
  <2>. SUFFICES ASSUME NEW c \in F \ (x .. x + w - 1)
                PROVE  /\ g[c] \in CellType /\ g[c].type = "none" /\ g[c].atom = h[c].atom /\ g[c].mark = h[c].mark
                       /\ g[c].len = h[c].len /\ g[c].car = h[c].car
                       /\ g[c].cdr = IF h[c].cdr = x THEN rest ELSE h[c].cdr
    OBVIOUS
  <2>1. c \in Cells /\ h[c].type = "none" /\ h[c] \in CellType
    BY <1>1, <1>2
  <2>2. CASE h[c].cdr = x
    <3>1. g[c] = [h[c] EXCEPT !.cdr = rest]
      BY <2>1, <2>2 DEF Placed
    <3>2. rest \in Pointers \union {Null}
      OBVIOUS
    <3>. HIDE DEF F
    <3>. QED
      BY <2>1, <2>2, <3>1, <3>2 DEF CellType
  <2>3. CASE h[c].cdr # x
    <3>1. g[c] = h[c]
      BY <2>1, <2>3 DEF Placed
    <3>. QED
      BY <2>1, <2>3, <3>1
  <2>. QED
    BY <2>2, <2>3
<1>8. \A c \in Cells \ F : g[c] = h[c]
  BY <1>3 DEF Placed
<1>9. \A c \in Cells : c = x \/ c \in x + 1 .. x + w - 1 \/ c \in F \ (x .. x + w - 1) \/ c \notin F
  BY CellsAre
<1>10. g \in [Cells -> CellType]
  <2>1. \A c \in Cells : g[c] \in CellType
    BY <1>1, <1>5, <1>6, <1>7, <1>8, <1>9, ZenonT(60) DEF Holds
  <2>. QED
    BY <2>1
<1>11. CellOK(g, x) /\ Hidden(g, H, x)
  <2>1. \A j \in 1 .. Blocks(n) : x + j \in Cells /\ g[x + j].type = "block"
    <3>1. \A j \in 1 .. w - 1 : x + j \in x + 1 .. x + w - 1
      OBVIOUS
    <3>. QED
      BY <1>2, <1>3, <1>6, <3>1 DEF Holds
  <2>. QED
    BY <1>5, <2>1 DEF CellOK, Hidden
<1>12. \A c \in x + 1 .. x + w - 1 : CellOK(g, c) /\ Hidden(g, H, c)
  <2>1. Nil \notin H
    BY NilHidden
  <2>. QED
    BY <1>6, <2>1 DEF CellOK, Hidden, Holds, IsPointer
<1>13. \A c \in F \ (x .. x + w - 1) : CellOK(g, c) /\ Hidden(g, H, c)
  <2>1. \A c \in F : CellOK(h, c) /\ h[c].type = "none" /\ c \in Cells
    BY <1>1, <1>2
  <2>2. \A c \in F : h[c].mark = FALSE /\ h[c].atom = FALSE /\ h[c].len = 0 /\ h[c].car = Nil /\ h[c].cdr \in Pointers
    BY <2>1 DEF CellOK
  <2>. HIDE DEF F
  <2>. QED
    BY <1>7, <2>2 DEF CellOK, Hidden
<1>. HIDE DEF F
<1>14. Mutates(h, g, A, A, H)
  <2>1. \A c \in Cells : h[c].type \in {"pair", "number", "vector"} => g[c].type \in {"pair", "number", "vector"}
    BY <1>2, <1>8
  <2>2. \A c \in Cells : h[c].type = "block" => g[c].type = "block"
    BY <1>2, <1>8
  <2>3. \A c \in Cells : g[c] = h[c] \/ (c \in A \ H /\ CellOK(g, c) /\ Hidden(g, H, c))
    BY <1>2, <1>3, <1>8, <1>9, <1>11, <1>12, <1>13
  <2>. QED
    BY <1>1, <1>10, <2>1, <2>2, <2>3 DEF Mutates
<1>15. Free(g, A) = F \ (x .. x + w - 1)
  <2>1. \A c \in Cells : c \in x .. x + w - 1 => c = x \/ c \in x + 1 .. x + w - 1
    BY CellsAre
  <2>2. \A c \in A : c \in Free(g, A) <=> c \in F \ (x .. x + w - 1)
    <3>. TAKE c \in A
    <3>1. c \in Cells
      BY <1>1
    <3>2. c \in Free(g, A) <=> g[c].type = "none"
      BY DEF Free
    <3>3. c \in F <=> h[c].type = "none"
      BY DEF F, Free
    <3>4. c \in x .. x + w - 1 => g[c].type # "none"
      BY <1>5, <1>6, <2>1, <3>1 DEF Holds
    <3>. QED
      BY <1>7, <1>8, <3>1, <3>2, <3>3, <3>4
  <2>3. Free(g, A) \subseteq A /\ F \subseteq A
    BY DEF Free, F
  <2>. QED
    BY <2>2, <2>3
<1>16. IsObject(g, x)
  BY <1>2, <1>3, <1>5 DEF IsObject
<1>. QED
  BY <1>7, <1>14, <1>15, <1>16 DEF F

\* A row of free cells becomes a vector.
LEMMA TakeVectorStep ==
    ASSUME Inv, TakeVector
    PROVE  Inv'
<1>1. Typed /\ Quiet
  BY ServingIs DEF TakeVector
<1>2. UNCHANGED <<segs, sink, reg, no_memory, ops, locals, before>> /\ gc' = NoGc
  BY DEF TakeVector
<1>3. PICK H : Sound(cell, Allocated, Asked, locals, sink, H)
  BY <1>1 DEF Quiet
<1>. DEFINE F == Free(cell, Allocated)
            w == Wanted
            x == Earliest(Rows(w))
            rest == Follow(x, w)
<1>4. ListOK(F, cell, free_cell, fcells) /\ Rows(w) # {}
  BY <1>1 DEF Quiet, TakeVector, Served
<1>5. req \in ReqType /\ req.n \in 0 .. MaxLen /\ req.n \in Nat
  BY <1>1, SizeAssumption DEF Typed, TakeVector, ReqType
<1>6. w \in Nat \ {0} /\ Blocks(req.n) = w - 1
  BY <1>5 DEF Wanted, Blocks
<1>7. /\ cell' = [c \in Cells |->
            IF c = x THEN Vector(req.n)
            ELSE IF c \in x + 1 .. x + w - 1 THEN Pair("block", Nil, Nil)
            ELSE IF c \in FreeList /\ cell[c].cdr = x THEN [cell[c] EXCEPT !.cdr = rest]
            ELSE cell[c]]
      /\ free_cell' = (IF free_cell = x THEN rest ELSE free_cell)
      /\ fcells' = fcells - w
      /\ req' = [NoRequest EXCEPT !.kind = "holder", !.a = x]
  BY DEF TakeVector
<1>. HIDE DEF F, w
<1>8. FreeList = F /\ Rows(w) \in SUBSET F
  <2>1. FreeList = F
    BY <1>4, FreeListIs
  <2>2. Rows(w) \subseteq FreeList
    BY DEF Rows
  <2>. QED
    BY <2>1, <2>2
<1>9. x \in Rows(w)
  BY <1>4, <1>8, EarliestIs
<1>. HIDE DEF x
<1>10. x \in F /\ (\A j \in 0 .. w - 1 : x + j \in F) /\ rest = cell[x + w - 1].cdr
  BY <1>4, <1>6, <1>9, RowIs
<1>. HIDE DEF rest
<1>11. \A c \in F : c \in Cells /\ c \in Allocated /\ cell[c].type = "none" /\ c \notin H /\ c # Nil
  BY <1>3, FreeIs DEF F
<1>12. x \in Nat /\ x .. x + w - 1 \subseteq F
  <2>1. x \in Nat
    BY <1>10, <1>11, CellsAre
  <2>2. \A c \in x .. x + w - 1 : c - x \in 0 .. w - 1 /\ c = x + (c - x)
    BY <1>6, <2>1
  <2>3. \A c \in x .. x + w - 1 : c \in F
    BY <1>10, <2>2
  <2>. QED
    BY <2>1, <2>3
<1>13. rest \in Pointers
  <2>1. w - 1 \in 0 .. w - 1 /\ x + (w - 1) = x + w - 1
    BY <1>6, <1>12
  <2>2. x + w - 1 \in F
    BY <1>10, <2>1
  <2>3. NextIn(F, x + w - 1, rest)
    BY <1>4, <1>10, <2>2 DEF ListOK
  <2>. QED
    BY <1>11, <2>3 DEF NextIn, Pointers
<1>14. Placed(cell, cell', F, x, w, req.n, rest) /\ DOMAIN cell' = Cells /\ cell' = [c \in Cells |-> cell'[c]]
  <2>1. x \in Cells /\ \A c \in x + 1 .. x + w - 1 : c \in Cells /\ c # x
    <3>1. \A c \in x + 1 .. x + w - 1 : c \in x .. x + w - 1 /\ c # x
      BY <1>6, <1>12
    <3>. QED
      BY <1>10, <1>11, <1>12, <3>1
  <2>2. cell'[x] = Vector(req.n)
    BY <1>7, <2>1
  <2>3. \A c \in x + 1 .. x + w - 1 : cell'[c] = Pair("block", Nil, Nil)
    BY <1>7, <2>1
  <2>4. \A c \in Cells \ (x .. x + w - 1) : c # x /\ c \notin x + 1 .. x + w - 1
    BY <1>6, <1>12
  <2>5. \A c \in Cells \ (x .. x + w - 1) :
            cell'[c] = IF c \in F /\ cell[c].cdr = x THEN [cell[c] EXCEPT !.cdr = rest] ELSE cell[c]
    BY <1>7, <1>8, <2>4
  <2>6. DOMAIN cell' = Cells /\ cell' = [c \in Cells |-> cell'[c]]
    BY <1>7
  <2>. QED
    BY <2>2, <2>3, <2>5, <2>6 DEF Placed
<1>15. /\ Mutates(cell, cell', Allocated, Allocated, H) /\ IsObject(cell', x)
       /\ Free(cell', Allocated) = F \ (x .. x + w - 1)
       /\ \A c \in F \ (x .. x + w - 1) : cell'[c].cdr = IF cell[c].cdr = x THEN rest ELSE cell[c].cdr
  BY <1>3, <1>5, <1>6, <1>12, <1>13, <1>14, PlacedMutates DEF F
<1>16. ListOK(F \ (x .. x + w - 1), cell', IF free_cell = x THEN rest ELSE free_cell, fcells - w)
  <2>1. \A c \in F \ (x .. x + w - 1) : cell'[c].cdr = Bypass(cell[c].cdr, x, rest)
    BY <1>15 DEF Bypass
  <2>2. ListOK(F \ (x .. x + w - 1), cell', Bypass(free_cell, x, rest), fcells - w)
    BY <1>4, <1>6, <1>10, <2>1, ListWithout
  <2>. QED
    BY <2>2 DEF Bypass
<1>17. ListOK(Free(cell', Allocated), cell', free_cell', fcells')
  BY <1>7, <1>15, <1>16
<1>18. free_cell' \in Pointers /\ fcells' \in 0 .. Cardinality(Cells)
  BY <1>17, ListTypes
<1>19. Sound(cell', Allocated, Asked, locals, sink, H)
  BY <1>3, <1>15, SoundMutates
<1>20. req' \in ReqType /\ req'.kind = "holder" /\ req'.a = x /\ req'.b = Nil /\ x # Nil
  BY <1>7, <1>10, <1>11, NoRequestIs DEF ReqType, Pointers
<1>21. Sound(cell', Allocated, Asked', locals, sink, H)
  <2>1. \A y \in Asked' : y \in Asked \union {x, Nil}
    BY <1>2, <1>20 DEF Asked
  <2>2. \A y \in Asked : IsPointer(cell', y) /\ y \notin H
    BY <1>19 DEF Sound
  <2>3. IsPointer(cell', x) /\ x \notin H
    BY <1>10, <1>11, <1>15 DEF IsPointer
  <2>4. IsPointer(cell', Nil) /\ Nil \notin H
    BY <1>19, NilHidden
  <2>5. \A y \in Asked' : IsPointer(cell', y) /\ y \notin H
    BY <2>1, <2>2, <2>3, <2>4
  <2>. QED
    BY <1>19, <2>5, SoundAsks
<1>22. Allocated' = Allocated
  BY <1>2 DEF Allocated
<1>23. cell' \in [Cells -> CellType]
  BY <1>15 DEF Mutates
<1>24. Typed'
  BY <1>1, <1>2, <1>18, <1>20, <1>23, NoRequestIs DEF Typed
<1>25. Quiet'
  BY <1>2, <1>17, <1>21, <1>22 DEF Quiet
<1>. QED
  BY <1>2, <1>24, <1>25, QuietInv

\* The cells of a new segment, and how they are put into the free list: after a, and
\* before d.
Fresh(c, d) == /\ c \in CellType /\ c.type = "none" /\ c.atom = FALSE /\ c.mark = FALSE /\ c.len = 0
               /\ c.car = Nil /\ c.cdr = d
Joined(h, g, k, a, d) ==
    /\ \A c \in CellsOf(k) : Fresh(g[c], Instead(c, Base(k) + SegSize - 1, d, c + 1))
    /\ \A c \in Cells \ CellsOf(k) : g[c] = IF c = a THEN [h[c] EXCEPT !.cdr = Base(k)] ELSE h[c]
    /\ DOMAIN g = Cells /\ g = [c \in Cells |-> g[c]]

\* A cell of a new segment is unused.
LEMMA FreshIs ==
    ASSUME NEW m, NEW d \in Pointers
    PROVE  /\ Fresh([Unused EXCEPT !.cdr = d], d)
           /\ Fresh([[Unused EXCEPT !.cdr = m] EXCEPT !.cdr = d], d)
<1>1. Nil \in Pointers /\ 0 \in 0 .. MaxLen
  BY SizeAssumption DEF Pointers
<1>. QED
  BY <1>1 DEF Fresh, Unused, CellType

\* The first and the last cell of a segment.
LEMMA SegmentIs ==
    ASSUME NEW k \in 0 .. MaxSegs - 1
    PROVE  /\ Base(k) \in Cells /\ Base(k) \in Nat /\ Base(k) + SegSize - 1 \in CellsOf(k)
           /\ CellsOf(k) \subseteq Cells
           /\ \A c \in CellsOf(k) : c # Base(k) + SegSize - 1 => c + 1 \in CellsOf(k)
<1>1. Base(k) \in Nat \ {0} /\ CellsOf(k) \subseteq Cells
  BY CellsAre
<1>. HIDE DEF Base
<1>2. Base(k) \in CellsOf(k) /\ Base(k) + SegSize - 1 \in CellsOf(k)
  BY <1>1, SizeAssumption DEF CellsOf
<1>3. \A c \in CellsOf(k) : c # Base(k) + SegSize - 1 => c + 1 \in CellsOf(k)
  BY <1>1, SizeAssumption DEF CellsOf
<1>. QED
  BY <1>1, <1>2, <1>3

Joins(h, g, A, R, loc, sk, H, k, a, d) ==
    /\ Sound(h, A, R, loc, sk, H) /\ k \in 0 .. MaxSegs - 1 /\ \A c \in CellsOf(k) : c \notin A
    /\ a \in Free(h, A) \union {0} /\ d \in Pointers /\ Joined(h, g, k, a, d)
JoinsTo(h, g, A, H, k, a) ==
    /\ Mutates(h, g, A, A \union CellsOf(k), H)
    /\ Free(g, A \union CellsOf(k)) = Free(h, A) \union CellsOf(k)
    /\ \A c \in Cells : h[c].type # "none" => g[c] = h[c]
    /\ \A c \in Free(h, A) : g[c].cdr = Instead(c, a, Base(k), h[c].cdr)

\* A new segment spares what was allocated, and adds its cells to the free ones.
LEMMA JoinedMutates ==
    ASSUME NEW h, NEW g, NEW A, NEW R, NEW loc, NEW sk, NEW H, NEW k, NEW a, NEW d,
           Joins(h, g, A, R, loc, sk, H, k, a, d)
    PROVE  JoinsTo(h, g, A, H, k, a)
<1>. SUFFICES ASSUME Sound(h, A, R, loc, sk, H), k \in 0 .. MaxSegs - 1, \A c \in CellsOf(k) : c \notin A,
                     a \in Free(h, A) \union {0}, d \in Pointers, Joined(h, g, k, a, d)
              PROVE  /\ Mutates(h, g, A, A \union CellsOf(k), H)
                     /\ Free(g, A \union CellsOf(k)) = Free(h, A) \union CellsOf(k)
                     /\ \A c \in Cells : h[c].type # "none" => g[c] = h[c]
                     /\ \A c \in Free(h, A) : g[c].cdr = Instead(c, a, Base(k), h[c].cdr)
  BY DEF Joins, JoinsTo
<1>. DEFINE F == Free(h, A)
            S == CellsOf(k)
<1>1. h \in [Cells -> CellType] /\ A \subseteq Cells /\ (\A c \in Cells : CellOK(h, c)) /\ H \subseteq Cells
      /\ (\A c \in Cells \ A : h[c].type = "none") /\ \A c \in H : h[c].type = "pair"
  BY DEF Sound, HeapOK, Held
<1>2. \A c \in F : c \in Cells /\ c \in A /\ h[c].type = "none" /\ c \notin H
  BY FreeIs
<1>3. Base(k) \in Pointers /\ S \subseteq Cells
  BY SegmentIs DEF Pointers
<1>4. \A c \in S : h[c].type = "none" /\ c \notin H /\ c \notin F
  BY <1>1, <1>2, <1>3
<1>5. \A c \in S : /\ g[c] \in CellType /\ g[c].type = "none" /\ g[c].atom = FALSE /\ g[c].mark = FALSE
                   /\ g[c].len = 0 /\ g[c].car = Nil /\ g[c].cdr \in Pointers
  <2>1. \A c \in S : /\ g[c] \in CellType /\ g[c].type = "none" /\ g[c].atom = FALSE /\ g[c].mark = FALSE
                     /\ g[c].len = 0 /\ g[c].car = Nil
                     /\ g[c].cdr = IF c = Base(k) + SegSize - 1 THEN d ELSE c + 1
    BY DEF Joined, Fresh, Instead
  <2>2. \A c \in S : c # Base(k) + SegSize - 1 => c + 1 \in Pointers
    BY SegmentIs DEF Pointers
  <2>. HIDE DEF S
  <2>. QED
    BY <2>1, <2>2
<1>6. a \in F => /\ g[a] \in CellType /\ g[a].type = "none" /\ g[a].atom = FALSE /\ g[a].mark = FALSE
                 /\ g[a].len = 0 /\ g[a].car = Nil /\ g[a].cdr = Base(k)
  <2>. SUFFICES ASSUME a \in F
                PROVE  /\ g[a] \in CellType /\ g[a].type = "none" /\ g[a].atom = FALSE /\ g[a].mark = FALSE
                       /\ g[a].len = 0 /\ g[a].car = Nil /\ g[a].cdr = Base(k)
    OBVIOUS
  <2>1. a \in Cells /\ a \notin S /\ h[a] \in CellType /\ CellOK(h, a) /\ h[a].type = "none"
    BY <1>1, <1>2, <1>4
  <2>2. g[a] = [h[a] EXCEPT !.cdr = Base(k)]
    BY <2>1 DEF Joined
  <2>3. h[a].mark = FALSE /\ h[a].atom = FALSE /\ h[a].len = 0 /\ h[a].car = Nil
    BY <2>1 DEF CellOK
  <2>4. Base(k) \in Pointers \union {Null}
    BY <1>3
  <2>. HIDE DEF Base
  <2>. QED
    BY <2>1, <2>2, <2>3, <2>4 DEF CellType
<1>7. \A c \in Cells : c \notin S /\ c # a => g[c] = h[c]
  BY DEF Joined
<1>8. \A c \in Cells : g[c] = h[c] \/ c \in S \/ (c = a /\ a \in F)
  <2>1. 0 \notin Cells
    BY CellsAre
  <2>2. a \in F \/ a = 0
    OBVIOUS
  <2>. HIDE DEF F
  <2>. QED
    BY <1>7, <2>1, <2>2
<1>9. g \in [Cells -> CellType]
  <2>1. \A c \in Cells : g[c] \in CellType
    BY <1>1, <1>5, <1>6, <1>8
  <2>. QED
    BY <2>1 DEF Joined
<1>10. \A c \in S : CellOK(g, c) /\ Hidden(g, H, c)
  BY <1>5 DEF CellOK, Hidden
<1>11. a \in F => CellOK(g, a) /\ Hidden(g, H, a)
  BY <1>3, <1>6 DEF CellOK, Hidden
<1>. HIDE DEF F, S
<1>12. \A c \in Cells : h[c].type # "none" => g[c] = h[c]
  BY <1>2, <1>4, <1>8
<1>13. Mutates(h, g, A, A \union S, H)
  <2>1. \A c \in Cells : h[c].type \in {"pair", "number", "vector"} => g[c].type \in {"pair", "number", "vector"}
    BY <1>12
  <2>2. \A c \in Cells : h[c].type = "block" => g[c].type = "block"
    BY <1>12
  <2>3. \A c \in Cells : g[c] = h[c] \/ (c \in (A \union S) \ H /\ CellOK(g, c) /\ Hidden(g, H, c))
    BY <1>2, <1>4, <1>8, <1>10, <1>11
  <2>4. A \subseteq A \union S /\ A \union S \subseteq Cells
    BY <1>1, <1>3
  <2>. QED
    BY <1>9, <2>1, <2>2, <2>3, <2>4 DEF Mutates
<1>14. Free(g, A \union S) = F \union S
  <2>1. \A c \in A \union S : c \in Free(g, A \union S) <=> c \in F \union S
    <3>. TAKE c \in A \union S
    <3>1. c \in Cells
      BY <1>1, <1>3
    <3>2. c \in Free(g, A \union S) <=> g[c].type = "none"
      BY DEF Free
    <3>3. c \in A => (c \in F <=> h[c].type = "none")
      BY DEF F, Free
    <3>4. CASE c \in S
      BY <1>5, <3>2, <3>4
    <3>5. CASE c \notin S
      BY <1>6, <1>8, <3>1, <3>2, <3>3, <3>5
    <3>. QED
      BY <3>4, <3>5
  <2>2. Free(g, A \union S) \subseteq A \union S /\ F \subseteq A
    BY DEF Free, F
  <2>. QED
    BY <2>1, <2>2
<1>15. \A c \in F : g[c].cdr = Instead(c, a, Base(k), h[c].cdr)
  BY <1>2, <1>4, <1>6, <1>8 DEF Instead
<1>. QED
  BY <1>12, <1>13, <1>14, <1>15 DEF F, S

\* A new segment comes into the free list at its place.
LEMMA NewSegmentJoins ==
    ASSUME Typed, NEW H, Sound(cell, Allocated, Asked, locals, sink, H),
           ListOK(Free(cell, Allocated), cell, free_cell, fcells),
           NEW k \in (0 .. MaxSegs - 1) \ segs, NewSegment(k)
    PROVE  /\ Mutates(cell, cell', Allocated, Allocated \union CellsOf(k), H)
           /\ ListOK(Free(cell', Allocated \union CellsOf(k)), cell', free_cell', fcells')
           /\ \A c \in Cells : cell[c].type # "none" => cell'[c] = cell[c]
           /\ segs' = segs \union {k}
<1>. DEFINE A == Allocated
            F == Free(cell, A)
            S == CellsOf(k)
            last == Base(k) + SegSize - 1
            fresh == [c \in Cells |-> IF c \in S THEN [Unused EXCEPT !.cdr = c + 1] ELSE cell[c]]
            Far(c) == /\ cell[c].cdr = Nil \/ cell[c].cdr >= Base(k)
                      /\ \A d \in FreeList : d < c => ~ (cell[d].cdr = Nil \/ cell[d].cdr >= Base(k))
            prev == CHOOSE c \in FreeList : Far(c)
<1>1. A \subseteq Cells /\ cell \in [Cells -> CellType] /\ F \subseteq A /\ free_cell \in Pointers
  BY AllocatedAre DEF Typed, Free
<1>2. \A x \in A : x + 1 < Base(k) \/ Base(k) + SegSize < x
  <2>. SUFFICES ASSUME NEW x \in A PROVE x + 1 < Base(k) \/ Base(k) + SegSize < x
    OBVIOUS
  <2>1. PICK l \in segs : x \in CellsOf(l)
    BY DEF Allocated
  <2>2. l \in 0 .. MaxSegs - 1 /\ l # k /\ k \in 0 .. MaxSegs - 1
    BY <2>1 DEF Typed
  <2>. QED
    BY <2>1, <2>2, SegmentsApart
<1>3. Base(k) \in Nat /\ Base(k) \in Pointers /\ S \subseteq Cells /\ last \in S /\ Base(k) # 0
      /\ \A c \in S : c # last => c + 1 \in S
  BY SegmentIs, Numbers DEF Pointers, Nil
<1>4. \A c \in S : c \notin A
  <2>. SUFFICES ASSUME NEW c \in S, c \in A PROVE FALSE
    OBVIOUS
  <2>1. c \in Nat /\ Base(k) <= c /\ c <= Base(k) + SegSize - 1
    BY <1>3, CellsAre DEF CellsOf
  <2>2. c + 1 < Base(k) \/ Base(k) + SegSize < c
    BY <1>2
  <2>. HIDE DEF Base
  <2>. QED
    BY <1>3, <2>1, <2>2, SizeAssumption
<1>5. FreeList = F
  BY FreeListIs, SMTT(30)
<1>6. segs' = segs \union {k} /\ fcells' = fcells + SegSize
  BY DEF NewSegment
<1>7. CASE First(k)
  <2>1. cell' = [fresh EXCEPT ![last].cdr = free_cell] /\ free_cell' = Base(k)
    BY <1>7 DEF NewSegment
  <2>2. last \in Cells /\ last = Base(k) + SegSize - 1
    BY <1>3
  <2>. HIDE DEF last
  <2>3. \A c \in S : c # last => cell'[c] = [Unused EXCEPT !.cdr = c + 1]
    BY <1>3, <2>1
  <2>4. cell'[last] = [[Unused EXCEPT !.cdr = last + 1] EXCEPT !.cdr = free_cell]
    BY <1>3, <2>1, <2>2
  <2>5. \A c \in Cells \ S : cell'[c] = cell[c]
    BY <1>3, <2>1
  <2>6. DOMAIN cell' = Cells /\ cell' = [c \in Cells |-> cell'[c]]
    BY <2>1
  <2>7. \A c \in S : Fresh(cell'[c], Instead(c, last, free_cell, c + 1))
    <3>1. \A c \in S : c # last => Fresh(cell'[c], c + 1)
      <4>1. \A c \in S : c # last => c + 1 \in Pointers
        BY <1>3 DEF Pointers
      <4>. QED
        BY <2>3, <4>1, FreshIs
    <3>2. Fresh(cell'[last], free_cell)
      <4>1. Fresh([[Unused EXCEPT !.cdr = last + 1] EXCEPT !.cdr = free_cell], free_cell)
        BY <1>1, FreshIs
      <4>. QED
        BY <2>4, <4>1
    <3>. QED
      BY <3>1, <3>2 DEF Instead
  <2>8. Joined(cell, cell', k, 0, free_cell)
    <3>1. 0 \notin Cells
      BY CellsAre
    <3>. QED
      BY <2>2, <2>5, <2>6, <2>7, <3>1 DEF Joined
  <2>9. /\ Mutates(cell, cell', A, A \union S, H) /\ Free(cell', A \union S) = F \union S
        /\ \A c \in Cells : cell[c].type # "none" => cell'[c] = cell[c]
        /\ \A c \in F : cell'[c].cdr = Instead(c, 0, Base(k), cell[c].cdr)
    <3>1. k \in 0 .. MaxSegs - 1 /\ 0 \in F \union {0} /\ free_cell \in Pointers
      BY <1>1
    <3>. QED
      <4>1. Joins(cell, cell', A, Asked, locals, sink, H, k, 0, free_cell)
        BY <1>4, <2>8, <3>1 DEF Joins
      <4>2. JoinsTo(cell, cell', A, H, k, 0)
        BY <4>1, JoinedMutates
      <4>. QED
        BY <4>2 DEF JoinsTo
  <2>10. \A x \in F : Base(k) + SegSize < x
    <3>1. NextIn(F, 0, free_cell)
      BY DEF ListOK
    <3>2. \A x \in F : x \in Nat /\ x # 0
      BY <1>1, CellsAre
    <3>3. CASE free_cell = Nil
      <4>1. \A x \in F : x <= 0
        BY <3>1, <3>3, <3>2, Numbers DEF NextIn
      <4>. QED
        BY <3>2, <4>1
    <3>4. CASE free_cell # Nil
      <4>1. free_cell \in F /\ \A x \in F : free_cell <= x
        BY <3>1, <3>2, <3>4 DEF NextIn
      <4>2. Base(k) + SegSize < free_cell
        BY <1>7, <3>4 DEF First
      <4>. HIDE DEF F, Base
      <4>3. free_cell \in Nat /\ Base(k) + SegSize \in Nat
        BY <1>3, <3>2, <4>1, SizeAssumption
      <4>. QED
        BY <3>2, <4>1, <4>2, <4>3
    <3>. QED
      BY <3>3, <3>4
  <2>11. ListOK(F \union S, cell', Base(k), fcells + SegSize)
    <3>1. \A c \in S : cell'[c].cdr = Instead(c, Base(k) + SegSize - 1, free_cell, c + 1)
      BY <2>2, <2>7 DEF Fresh
    <3>2. 0 < Base(k) /\ 0 \in F \union {0} /\ k \in 0 .. MaxSegs - 1
      BY <1>3
    <3>. DEFINE a == 0
                d == free_cell
    <3>3. a \in F \union {0} /\ a < Base(k) /\ d = Instead(a, 0, free_cell, cell[a].cdr)
          /\ (\A x \in F : x <= a \/ Base(k) + SegSize < x)
          /\ (\A c \in S : cell'[c].cdr = Instead(c, Base(k) + SegSize - 1, d, c + 1))
          /\ (\A c \in F : cell'[c].cdr = Instead(c, a, Base(k), cell[c].cdr))
      <4>1. d = Instead(a, 0, free_cell, cell[a].cdr)
        BY DEF Instead
      <4>. QED
        BY <2>9, <2>10, <3>1, <3>2, <4>1
    <3>4. a = 0
      OBVIOUS
    <3>. HIDE DEF a, d, F
    <3>5. ListOK(F, cell, free_cell, fcells)
      BY DEF F
    <3>6. ListOK(F \union S, cell', Instead(a, 0, Base(k), free_cell), fcells + SegSize)
      BY <3>2, <3>3, <3>5, ListJoin, SMTT(30)
    <3>. QED
      BY <3>4, <3>6 DEF Instead
  <2>. QED
    BY <1>6, <2>1, <2>9, <2>11
<1>8. CASE ~ First(k)
  <2>1. cell' = [fresh EXCEPT ![last].cdr = cell[prev].cdr, ![prev].cdr = Base(k)] /\ free_cell' = free_cell
    BY <1>8 DEF NewSegment
  <2>2. prev \in F /\ prev # 0 /\ prev < Base(k) /\ \A x \in F : x <= prev \/ Base(k) + SegSize < x
    <3>1. ListOK(FreeList, cell, free_cell, fcells)
      BY <1>5
    <3>2. \A x \in FreeList : x + 1 < Base(k) \/ Base(k) + SegSize < x
      BY <1>1, <1>2, <1>5
    <3>3. ~ (free_cell = Nil \/ Base(k) + SegSize < free_cell)
      BY <1>8 DEF First
    <3>4. prev \in FreeList /\ prev # 0 /\ prev < Base(k) /\ \A x \in FreeList : x <= prev \/ Base(k) + SegSize < x
      BY <3>1, <3>2, <3>3, PrevIs
    <3>. QED
      BY <1>5, <3>4
  <2>. HIDE DEF prev
  <2>3. prev \in Cells /\ prev \notin S /\ last \in Cells /\ last \in S /\ last = Base(k) + SegSize - 1
    BY <1>1, <1>3, <1>4, <2>2
  <2>. HIDE DEF last, F
  <2>4. \A c \in S : c # last => cell'[c] = [Unused EXCEPT !.cdr = c + 1]
    BY <1>3, <2>1, <2>3
  <2>. DEFINE d == cell[prev].cdr
  <2>5. cell'[last] = [[Unused EXCEPT !.cdr = last + 1] EXCEPT !.cdr = d]
    BY <1>3, <2>1, <2>3
  <2>6. cell'[prev] = [cell[prev] EXCEPT !.cdr = Base(k)] /\ \A c \in Cells \ S : c # prev => cell'[c] = cell[c]
    BY <1>3, <2>1, <2>3
  <2>7. DOMAIN cell' = Cells /\ cell' = [c \in Cells |-> cell'[c]]
    BY <2>1
  <2>8. NextIn(F, prev, d) /\ d \in Pointers
    <3>1. NextIn(F, prev, d)
      BY <2>2 DEF ListOK, F
    <3>. QED
      BY <1>1, <3>1 DEF NextIn, Pointers
  <2>. HIDE DEF d
  <2>9. \A c \in S : Fresh(cell'[c], Instead(c, last, d, c + 1))
    <3>1. \A c \in S : c # last => Fresh(cell'[c], c + 1)
      <4>1. \A c \in S : c # last => c + 1 \in Pointers
        BY <1>3, <2>3 DEF Pointers
      <4>. QED
        BY <2>4, <4>1, FreshIs
    <3>2. Fresh(cell'[last], d)
      BY <2>5, <2>8, FreshIs
    <3>. QED
      BY <3>1, <3>2 DEF Instead
  <2>10. Joined(cell, cell', k, prev, d)
    <3>1. \A c \in Cells \ S : cell'[c] = IF c = prev THEN [cell[c] EXCEPT !.cdr = Base(k)] ELSE cell[c]
      BY <2>6
    <3>. QED
      BY <2>3, <2>7, <2>9, <3>1 DEF Joined
  <2>11. /\ Mutates(cell, cell', A, A \union S, H) /\ Free(cell', A \union S) = F \union S
         /\ \A c \in Cells : cell[c].type # "none" => cell'[c] = cell[c]
         /\ \A c \in F : cell'[c].cdr = Instead(c, prev, Base(k), cell[c].cdr)
    <3>1. k \in 0 .. MaxSegs - 1 /\ prev \in Free(cell, A) \union {0}
      BY <2>2 DEF F
    <3>. QED
      <4>1. Joins(cell, cell', A, Asked, locals, sink, H, k, prev, d)
        BY <1>4, <2>8, <2>10, <3>1 DEF Joins
      <4>2. JoinsTo(cell, cell', A, H, k, prev)
        BY <4>1, JoinedMutates
      <4>. QED
        BY <4>2 DEF JoinsTo, F
  <2>12. ListOK(F \union S, cell', free_cell, fcells + SegSize)
    <3>1. \A c \in S : cell'[c].cdr = Instead(c, Base(k) + SegSize - 1, d, c + 1)
      BY <2>3, <2>9 DEF Fresh
    <3>2. prev \in F \union {0} /\ d = Instead(prev, 0, free_cell, cell[prev].cdr) /\ k \in 0 .. MaxSegs - 1
      BY <2>2 DEF d, Instead
    <3>3. ListOK(F, cell, free_cell, fcells)
      BY DEF F
    <3>4. ListOK(F \union S, cell', Instead(prev, 0, Base(k), free_cell), fcells + SegSize)
      BY <2>2, <2>11, <3>1, <3>2, <3>3, ListJoin
    <3>. QED
      BY <2>2, <3>4 DEF Instead
  <2>. QED
    BY <1>6, <2>1, <2>11, <2>12
<1>. QED
  BY <1>7, <1>8

\* The roots lead to objects.
LEMMA SinkIs ==
    ASSUME NEW h, NEW A, NEW R, NEW loc, NEW sk, NEW H, Sound(h, A, R, loc, sk, H)
    PROVE  /\ HeapOK(h) /\ (\A c \in Cells \ A : h[c].type = "none")
           /\ \A x \in R \union {sk} : IsPointer(h, x) /\ x \in Pointers
<1>1. \A x \in R : IsPointer(h, x)
  BY DEF Sound
<1>2. IsPointer(h, sk)
  BY DEF Sound, Held, IsPointer, IsObject
<1>3. \A x : IsPointer(h, x) => x \in Pointers
  BY DEF IsPointer, IsObject, Pointers
<1>4. HeapOK(h) /\ \A c \in Cells \ A : h[c].type = "none"
  BY DEF Sound
<1>. QED
  BY <1>1, <1>2, <1>3, <1>4

\* A segment is added when too few cells are free.
LEMMA GrowStep ==
    ASSUME Inv, Grow
    PROVE  Inv'
<1>1. gc.pc = "swept" /\ Typed /\ Quiet /\ Kept
  BY DEF Inv, Phase, Grow
<1>2. gc' \in GcType /\ gc'.pc = "grown"
  BY <1>1 DEF Grow, Typed, GcType
<1>3. UNCHANGED <<sink, reg, no_memory, req, ops, locals, before>>
  BY DEF Grow
<1>4. Asked' = Asked /\ Live' = Live
  BY <1>3 DEF Asked, Live
<1>5. CASE UNCHANGED heap
  <2>1. UNCHANGED <<segs, cell, free_cell, fcells>>
    BY <1>5 DEF heap
  <2>2. Allocated' = Allocated
    BY <2>1 DEF Allocated
  <2>3. Typed'
    BY <1>1, <1>2, <1>3, <2>1 DEF Typed
  <2>4. Quiet'
    BY <1>1, <1>3, <1>4, <2>1, <2>2 DEF Quiet
  <2>5. Kept'
    BY <1>1, <1>3, <1>4, <2>1 DEF Kept
  <2>. QED
    BY <1>2, <2>3, <2>4, <2>5 DEF Inv, Phase
<1>6. ASSUME NEW k \in (0 .. MaxSegs - 1) \ segs, NewSegment(k)
      PROVE  Inv'
  <2>1. PICK H : Sound(cell, Allocated, Asked, locals, sink, H)
    BY <1>1 DEF Quiet
  <2>2. /\ Mutates(cell, cell', Allocated, Allocated \union CellsOf(k), H)
        /\ ListOK(Free(cell', Allocated \union CellsOf(k)), cell', free_cell', fcells')
        /\ \A c \in Cells : cell[c].type # "none" => cell'[c] = cell[c]
        /\ segs' = segs \union {k}
    <3>1. ListOK(Free(cell, Allocated), cell, free_cell, fcells)
      BY <1>1 DEF Quiet
    <3>. QED
      BY <1>1, <1>6, <2>1, <3>1, NewSegmentJoins
  <2>3. Allocated' = Allocated \union CellsOf(k)
    BY <2>2 DEF Allocated
  <2>4. Sound(cell', Allocated', Asked, locals, sink, H)
    BY <2>1, <2>2, <2>3, SoundMutates
  <2>5. Quiet'
    BY <1>3, <1>4, <2>2, <2>3, <2>4 DEF Quiet
  <2>6. cell' \in [Cells -> CellType] /\ free_cell' \in Pointers /\ fcells' \in 0 .. Cardinality(Cells)
    <3>1. cell' \in [Cells -> CellType]
      BY <2>2 DEF Mutates
    <3>. QED
      BY <2>2, <3>1, ListTypes
  <2>7. Typed'
    BY <1>1, <1>2, <1>3, <2>2, <2>6 DEF Typed
  <2>8. Kept'
    <3>1. \A c \in Live : c \in Cells /\ before[c].type # "none"
      <4>1. Live \subseteq Cells /\ \A c \in Live : before[c].type # "none"
        BY <1>1, ReachUsed DEF Kept, Live
      <4>. QED
        BY <4>1
    <3>2. \A c \in Live : cell'[c] = before[c]
      BY <1>1, <2>2, <3>1 DEF Kept
    <3>. QED
      BY <1>1, <1>3, <1>4, <3>2 DEF Kept
  <2>. QED
    BY <1>2, <2>5, <2>7, <2>8 DEF Inv, Phase
<1>. QED
  BY <1>5, <1>6 DEF Grow

\* A collection begins.
LEMMA BeginGcStep ==
    ASSUME Inv, BeginGc
    PROVE  Inv'
<1>1. Typed /\ Quiet
  BY DEF Inv, Phase, BeginGc
<1>2. /\ UNCHANGED <<segs, cell, free_cell, fcells, sink, reg, no_memory, req, ops, locals>>
      /\ before' = cell /\ gc' = [NoGc EXCEPT !.pc = "mark", !.todo = Roots]
  BY DEF BeginGc, heap
<1>3. PICK H : Sound(cell, Allocated, Asked, locals, sink, H)
  BY <1>1 DEF Quiet
<1>4. RootSet = Asked \union {sink}
  BY DEF RootSet, Asked
<1>5. HeapOK(cell) /\ \A x \in RootSet : IsPointer(cell, x) /\ x \in Pointers
  BY <1>3, <1>4, SinkIs
<1>6. /\ Roots \in Seq(Cells)
      /\ \A i \in 1 .. Len(Roots) : Roots[i] \in RootSet \ {Nil}
      /\ \A x \in RootSet : x = Nil \/ \E i \in 1 .. Len(Roots) : Roots[i] = x
  BY <1>5, RootsAre
<1>7. gc' \in GcType /\ gc'.pc = "mark" /\ gc'.todo = Roots /\ gc'.calls = <<>>
  BY <1>2, <1>6, NoRequestIs DEF GcType, NoGc
<1>8. Marking(gc', cell, cell, RootSet)
  <2>. DEFINE todo == Roots
              g == gc'
  <2>1. todo \in Seq(Cells) /\ (\A i \in 1 .. Len(todo) : todo[i] \in RootSet \ {Nil})
        /\ (\A x \in RootSet : x = Nil \/ \E i \in 1 .. Len(todo) : todo[i] = x)
        /\ g \in GcType /\ g.pc = "mark" /\ g.todo = todo /\ g.calls = <<>>
    BY <1>6, <1>7
  <2>. HIDE DEF todo, g
  <2>2. Marking(g, cell, cell, RootSet)
    BY <1>5, <2>1, MarkStarts
  <2>. QED
    BY <2>2 DEF g
<1>9. Allocated' = Allocated /\ Asked' = Asked
  BY <1>2 DEF Allocated, Asked
<1>10. Typed'
  BY <1>1, <1>2, <1>7 DEF Typed
<1>11. Waiting'
  BY <1>2, <1>3, <1>9 DEF Waiting
<1>12. Marking(gc', cell', before', Asked' \union {sink'})
  BY <1>2, <1>4, <1>8, <1>9
<1>. QED
  BY <1>7, <1>10, <1>11, <1>12 DEF Inv, Phase

\* The marker takes a step.
LEMMA MarkStepInv ==
    ASSUME Inv, Mark
    PROVE  Inv'
<1>1. gc.pc = "mark" /\ UNCHANGED <<segs, free_cell, fcells, sink, reg, no_memory, req, ops, locals, before>>
  BY DEF Mark, MarkRoot, E2, E3, E4, E5, E6, In, MarkUnchanged
<1>2. Typed /\ Waiting /\ Marking(gc, cell, before, Asked \union {sink})
  BY <1>1 DEF Inv, Phase
<1>3. MarkNext(Asked \union {sink})
  BY <1>2, MarkStep
<1>4. gc' \in GcType /\ gc'.pc = "mark" /\ cell' \in [Cells -> CellType] /\ MarkOK(cell', before, gc', Asked \union {sink})
  BY <1>3 DEF MarkNext
<1>5. Allocated' = Allocated /\ Asked' = Asked
  BY <1>1 DEF Allocated, Asked
<1>6. Typed'
  BY <1>1, <1>2, <1>4 DEF Typed
<1>7. Waiting'
  BY <1>1, <1>2, <1>5 DEF Waiting
<1>8. Marking(gc', cell', before', Asked' \union {sink'})
  BY <1>1, <1>2, <1>4, <1>5 DEF Marking
<1>. QED
  BY <1>4, <1>6, <1>7, <1>8 DEF Inv, Phase

\* The marker has ended, and the sweep begins.
LEMMA BeginSweepStep ==
    ASSUME Inv, BeginSweep
    PROVE  Inv'
<1>1. gc.pc = "mark" /\ gc.calls = <<>> /\ gc.todo = <<>>
  BY DEF BeginSweep
<1>2. Typed /\ Waiting /\ Marking(gc, cell, before, Asked \union {sink})
  BY <1>1 DEF Inv, Phase
<1>3. /\ UNCHANGED <<segs, cell, sink, reg, no_memory, req, ops, locals, before>>
      /\ fcells' = 0 /\ free_cell' = Nil
      /\ gc' = [gc EXCEPT !.pc = "sweep", !.scan = Highest(Allocated)]
  BY DEF BeginSweep, Count
<1>4. Allocated \subseteq Cells /\ Allocated # {}
  BY <1>2, AllocatedAre
<1>5. gc' \in GcType /\ gc'.pc = "sweep" /\ gc'.scan = Highest(Allocated)
  <2>1. Highest(Allocated) \in Cells \union {0}
    BY <1>4, HighestIs
  <2>. HIDE DEF Highest
  <2>. QED
    BY <1>2, <1>3, <2>1 DEF Typed, GcType
<1>6. PICK H : Sound(before, Allocated, Asked, locals, sink, H)
  BY <1>2 DEF Waiting
<1>7. HeapOK(before) /\ (\A c \in Cells \ Allocated : before[c].type = "none")
      /\ \A x \in Asked \union {sink} : IsPointer(before, x)
  BY <1>6, SinkIs
<1>8. /\ cell \in [Cells -> CellType] /\ \A c \in Cells : Same(cell, before, c)
      /\ {c \in Cells : cell[c].mark = TRUE} = Live
  BY <1>1, <1>2, MarkDone, ZenonT(60) DEF Live
<1>9. Sweeping(gc', cell, before, Allocated, Live, Nil, 0)
  <2>. DEFINE g == gc'
  <2>1. g \in GcType /\ g.pc = "sweep" /\ g.scan = Highest(Allocated)
    BY <1>5
  <2>2. Live = Reach(before, Asked \union {sink})
    BY DEF Live
  <2>. HIDE DEF g, Highest
  <2>3. Sweeping(g, cell, before, Allocated, Live, Nil, 0)
    BY <1>4, <1>7, <1>8, <2>1, <2>2, SweepBegins
  <2>. QED
    BY <2>3 DEF g
<1>10. Allocated' = Allocated /\ Asked' = Asked /\ Live' = Live
  BY <1>3 DEF Allocated, Asked, Live
<1>11. Typed'
  BY <1>2, <1>3, <1>5, CellsAre DEF Typed, Pointers
<1>12. Waiting'
  BY <1>2, <1>3, <1>10 DEF Waiting
<1>13. Sweeping(gc', cell', before', Allocated', Live', free_cell', fcells')
  BY <1>3, <1>9, <1>10
<1>. QED
  BY <1>5, <1>11, <1>12, <1>13 DEF Inv, Phase

\* A cell is swept.
LEMMA SweepCellStep ==
    ASSUME Inv, SweepCell
    PROVE  Inv'
<1>1. gc.pc = "sweep"
  BY DEF SweepCell
<1>2. Typed /\ Waiting /\ Sweeping(gc, cell, before, Allocated, Live, free_cell, fcells)
  BY <1>1 DEF Inv, Phase
<1>. DEFINE next == Below(gc.scan)
<1>3. /\ UNCHANGED <<segs, sink, reg, no_memory, req, ops, locals, before>>
      /\ gc' = [gc EXCEPT !.scan = next, !.pc = IF next = 0 THEN "swept" ELSE @]
  BY DEF SweepCell
<1>4. PICK H : Sound(before, Allocated, Asked, locals, sink, H)
  BY <1>2 DEF Waiting
<1>5. HeapOK(before) /\ \A x \in Asked \union {sink} : IsPointer(before, x)
  BY <1>4, SinkIs
<1>6. gc.scan \in Cells /\ cell[gc.scan] \in CellType
  BY <1>2 DEF Sweeping
<1>7. cell[gc.scan].mark \in BOOLEAN
  BY <1>6 DEF CellType
<1>8. Sweeps(gc, cell, before, Allocated, Live, free_cell, fcells, cell', free_cell', fcells')
  BY <1>2, <1>5, <1>7 DEF Sweeps, SweepCell
<1>9. next = Highest({d \in Allocated : d < gc.scan})
  BY DEF Below
<1>. HIDE DEF next
<1>10. /\ next \in Cells \union {0}
       /\ next = 0 => Swept(cell', before, Allocated, Live, free_cell', fcells')
       /\ next # 0 => \A f \in GcType : f.pc = "sweep" /\ f.scan = next
                        => Sweeping(f, cell', before, Allocated, Live, free_cell', fcells')
  BY <1>8, <1>9, SweepStep
<1>11. gc' \in GcType /\ gc'.scan = next /\ gc'.pc = IF next = 0 THEN "swept" ELSE "sweep"
  <2>1. gc \in GcType
    BY <1>2 DEF Typed
  <2>. QED
    BY <1>1, <1>3, <1>10, <2>1 DEF GcType
<1>12. Allocated' = Allocated /\ Asked' = Asked /\ Live' = Live
  BY <1>3 DEF Allocated, Asked, Live
<1>13. CASE next = 0
  <2>1. Swept(cell', before, Allocated, Live, free_cell', fcells') /\ gc'.pc = "swept"
    BY <1>10, <1>11, <1>13
  <2>2. /\ Sound(cell', Allocated, Asked, locals, sink, H)
        /\ ListOK(Free(cell', Allocated), cell', free_cell', fcells')
        /\ \A c \in Live : c \in Cells /\ cell'[c] = before[c]
        /\ \A c \in Allocated \ Live : cell'[c].type = "none"
    <3>1. Live = Reach(before, Asked \union {sink})
      BY DEF Live
    <3>2. SweptTo(before, cell', Allocated, Asked, locals, sink, H, Live, free_cell', fcells')
      BY <1>4, <2>1, <3>1, SoundSwept
    <3>. QED
      BY <3>2 DEF SweptTo
  <2>3. free_cell' \in Pointers /\ fcells' \in 0 .. Cardinality(Cells)
    BY <2>2, ListTypes
  <2>4. cell' \in [Cells -> CellType]
    BY <2>1 DEF Swept
  <2>5. Typed'
    BY <1>2, <1>3, <1>11, <2>3, <2>4 DEF Typed
  <2>6. Quiet'
    BY <1>3, <1>12, <2>2 DEF Quiet
  <2>7. Kept'
    BY <1>3, <1>5, <1>12, <2>2 DEF Kept
  <2>8. \A c \in Allocated' \ Live' : cell'[c].type = "none"
    BY <1>12, <2>2
  <2>. QED
    BY <2>1, <2>5, <2>6, <2>7, <2>8 DEF Inv, Phase
<1>14. CASE next # 0
  <2>1. gc'.pc = "sweep" /\ Sweeping(gc', cell', before, Allocated, Live, free_cell', fcells')
    BY <1>10, <1>11, <1>14
  <2>2. cell' \in [Cells -> CellType] /\ free_cell' \in Pointers /\ fcells' \in 0 .. Cardinality(Cells)
    <3>1. /\ cell' \in [Cells -> CellType]
          /\ ListOK({c \in Allocated : gc'.scan < c /\ c \notin Live}, cell', free_cell', fcells')
      BY <2>1 DEF Sweeping
    <3>. QED
      BY <3>1, ListTypes
  <2>3. Typed'
    BY <1>2, <1>3, <1>11, <2>2 DEF Typed
  <2>4. Waiting'
    BY <1>2, <1>3, <1>12 DEF Waiting
  <2>5. Sweeping(gc', cell', before', Allocated', Live', free_cell', fcells')
    BY <1>3, <1>12, <2>1
  <2>. QED
    BY <2>1, <2>3, <2>4, <2>5 DEF Inv, Phase
<1>. QED
  BY <1>13, <1>14

\* At first there is one segment, all of it free.
LEMMA InitInv ==
    ASSUME Init
    PROVE  Inv
<1>1. PICK k \in 0 .. MaxSegs - 1 :
         /\ segs = {k} /\ free_cell = Base(k)
         /\ cell = [c \in Cells |-> IF c \in CellsOf(k) /\ c + 1 \in CellsOf(k)
                                    THEN [Unused EXCEPT !.cdr = c + 1] ELSE Unused]
  BY DEF Init
<1>2. /\ fcells = SegSize /\ sink = Nil /\ reg = [r \in Reg |-> Nil] /\ no_memory = FALSE
      /\ req = NoRequest /\ gc = NoGc /\ ops = 0 /\ locals = {} /\ before = cell
  BY DEF Init
<1>. DEFINE S == CellsOf(k)
            last == Base(k) + SegSize - 1
<1>3. Base(k) \in Nat /\ Base(k) \in Cells /\ last \in S /\ S \subseteq Cells
      /\ \A c \in S : c # last => c + 1 \in S
  BY SegmentIs
<1>4. S = Base(k) .. last /\ last \in Nat /\ last + 1 \notin S /\ Base(k) <= last /\ Base(k) \in S
  <2>. HIDE DEF Base
  <2>. QED
    BY <1>3, SizeAssumption DEF CellsOf
<1>5. Allocated = S
  BY <1>1 DEF Allocated
<1>6. Asked = {reg[r] : r \in Reg} \union {Nil} /\ \A x \in Asked : x = Nil
  BY <1>2, NoRequestIs DEF Asked
<1>. HIDE DEF last
<1>7. \A c \in Cells : Fresh(cell[c], IF c \in S /\ c # last THEN c + 1 ELSE Nil)
  <2>2. Fresh(Unused, Nil)
    <3>1. Nil \in Pointers /\ 0 \in 0 .. MaxLen
      BY SizeAssumption DEF Pointers
    <3>. QED
      BY <3>1 DEF Fresh, Unused, CellType
  <2>. SUFFICES ASSUME NEW c \in Cells
                PROVE  Fresh(cell[c], IF c \in S /\ c # last THEN c + 1 ELSE Nil)
    OBVIOUS
  <2>3. CASE c \in S /\ c # last
    <3>1. c + 1 \in S /\ c + 1 \in Pointers
      BY <1>3, <2>3 DEF Pointers
    <3>2. cell[c] = [Unused EXCEPT !.cdr = c + 1]
      BY <1>1, <2>3, <3>1
    <3>3. Fresh([Unused EXCEPT !.cdr = c + 1], c + 1)
      BY <3>1, FreshIs
    <3>. QED
      BY <2>3, <3>2, <3>3
  <2>4. CASE ~ (c \in S /\ c # last)
    <3>1. cell[c] = Unused
      BY <1>1, <1>4, <2>4
    <3>. QED
      BY <2>2, <2>4, <3>1
  <2>. QED
    BY <2>3, <2>4
<1>8. \A c \in Cells : /\ cell[c] \in CellType /\ cell[c].type = "none" /\ cell[c].atom = FALSE /\ cell[c].mark = FALSE
                       /\ cell[c].len = 0 /\ cell[c].car = Nil
                       /\ cell[c].cdr = IF c \in S /\ c # last THEN c + 1 ELSE Nil
  BY <1>7 DEF Fresh
<1>9. cell \in [Cells -> CellType]
  <2>1. cell = [c \in Cells |-> cell[c]]
    BY <1>1
  <2>. QED
    BY <1>8, <2>1
<1>10. HeapOK(cell)
  <2>1. \A c \in Cells : cell[c].cdr \in Pointers
    BY <1>3, <1>8 DEF Pointers
  <2>2. \A c \in Cells : CellOK(cell, c)
    BY <1>8, <2>1 DEF CellOK
  <2>. QED
    BY <1>9, <2>2 DEF HeapOK
<1>11. Sound(cell, Allocated, Asked, locals, sink, {})
  <2>1. Held(cell, {}, {}, Nil)
    BY DEF Held
  <2>2. \A c \in Cells : Hidden(cell, {}, c)
    BY DEF Hidden
  <2>3. \A x \in Asked : IsPointer(cell, x)
    BY <1>6 DEF IsPointer
  <2>4. \A c \in Cells : cell[c].type = "none"
    BY <1>8
  <2>. QED
    BY <1>2, <1>3, <1>5, <1>10, <2>1, <2>2, <2>3, <2>4 DEF Sound
<1>12. ListOK(Free(cell, Allocated), cell, free_cell, fcells)
  <2>1. Free(cell, Allocated) = S
    BY <1>3, <1>5, <1>8 DEF Free
  <2>2. Cardinality(S) = SegSize
    <3>1. last = Base(k) + SegSize - 1
      BY DEF last
    <3>2. last - Base(k) + 1 = SegSize
      <4>. HIDE DEF Base
      <4>. QED
        BY <1>3, <3>1, SizeAssumption
    <3>3. Cardinality(Base(k) .. last) = last - Base(k) + 1
      <4>. HIDE DEF Base
      <4>. QED
        BY <1>3, <1>4, FS_Interval
    <3>. QED
      BY <1>4, <3>2, <3>3
  <2>3. NextIn(S, 0, Base(k))
    <3>1. \A x \in S : Base(k) <= x
      BY <1>4
    <3>2. 0 < Base(k)
      BY <1>3, CellsAre
    <3>. QED
      BY <1>4, <3>1, <3>2 DEF NextIn
  <2>4. \A c \in S : NextIn(S, c, cell[c].cdr)
    <3>. SUFFICES ASSUME NEW c \in S PROVE NextIn(S, c, cell[c].cdr)
      OBVIOUS
    <3>1. c \in Nat /\ c \in Cells /\ c <= last
      BY <1>3, <1>4, CellsAre
    <3>2. CASE c = last
      <4>1. cell[c].cdr = Nil
        BY <1>8, <3>1, <3>2
      <4>2. \A x \in S : x <= c
        BY <1>4, <3>2
      <4>. QED
        BY <4>1, <4>2 DEF NextIn
    <3>3. CASE c # last
      <4>1. cell[c].cdr = c + 1 /\ c + 1 \in S
        BY <1>3, <1>8, <3>1, <3>3
      <4>2. \A x \in S : c < x => c + 1 <= x
        <5>1. \A x \in S : x \in Nat
          BY <1>3, CellsAre
        <5>. QED
          BY <3>1, <5>1
      <4>. QED
        BY <3>1, <4>1, <4>2 DEF NextIn
    <3>. QED
      BY <3>2, <3>3
  <2>5. free_cell = Base(k) /\ fcells = SegSize
    BY <1>1, <1>2
  <2>6. S \subseteq Cells
    BY <1>3
  <2>. HIDE DEF S, Base
  <2>. QED
    BY <2>1, <2>2, <2>3, <2>4, <2>5, <2>6 DEF ListOK
<1>13. free_cell \in Pointers /\ fcells \in 0 .. Cardinality(Cells)
  BY <1>12, ListTypes
<1>14. reg \in [Reg -> Pointers]
  BY <1>2 DEF Pointers
<1>15. Typed
  <2>1. segs \subseteq 0 .. MaxSegs - 1 /\ segs # {}
    BY <1>1
  <2>2. ops \in 0 .. MaxOps
    BY <1>2, SizeAssumption
  <2>3. no_memory \in BOOLEAN /\ req \in ReqType /\ gc \in GcType /\ req.kind = "none"
    BY <1>2, NoRequestIs
  <2>. QED
    BY <1>9, <1>13, <1>14, <2>1, <2>2, <2>3 DEF Typed
<1>16. Quiet
  BY <1>11, <1>12 DEF Quiet
<1>. QED
  BY <1>2, <1>15, <1>16, NoRequestIs DEF Inv, Phase

\* Nothing happens.
LEMMA StutterInv ==
    ASSUME Inv, UNCHANGED vars
    PROVE  Inv'
<1>1. UNCHANGED <<segs, cell, free_cell, fcells, sink, reg, no_memory, req, gc, ops, locals, before>>
  BY DEF vars, heap
<1>2. Allocated' = Allocated /\ Asked' = Asked
  BY <1>1 DEF Allocated, Asked
<1>3. Live' = Live
  BY <1>1, <1>2 DEF Live
<1>4. Typed' = Typed
  BY <1>1 DEF Typed
<1>5. Quiet' = Quiet /\ Waiting' = Waiting
  BY <1>1, <1>2 DEF Quiet, Waiting
<1>6. Kept' = Kept
  BY <1>1, <1>2, <1>3 DEF Kept
<1>7. Phase' = Phase
  BY <1>1, <1>2, <1>3, <1>5, <1>6 DEF Phase
<1>. QED
  BY <1>4, <1>7 DEF Inv

\* Inv is inductive.
LEMMA StepInv == Inv /\ [Next]_vars => Inv'
<1>. SUFFICES ASSUME Inv, [Next]_vars PROVE Inv'
  OBVIOUS
<1>1. CASE UNCHANGED vars
  BY <1>1, StutterInv
<1>2. CASE Request
  BY <1>2, RequestStep
<1>3. CASE Load
  BY <1>3, LoadStep
<1>4. CASE Assign
  BY <1>4, AssignStep
<1>5. CASE NextOpcode
  BY <1>5, NextOpcodeStep
<1>6. CASE TakeCell
  BY <1>6, TakeCellStep
<1>7. CASE TakeHolder
  BY <1>7, TakeHolderStep
<1>8. CASE TakeVector
  BY <1>8, TakeVectorStep
<1>9. CASE Reserved
  BY <1>9, ReservedStep
<1>10. CASE BeginGc
  BY <1>10, BeginGcStep
<1>11. CASE Mark
  BY <1>11, MarkStepInv
<1>12. CASE BeginSweep
  BY <1>12, BeginSweepStep
<1>13. CASE SweepCell
  BY <1>13, SweepCellStep
<1>14. CASE Grow
  BY <1>14, GrowStep
<1>15. CASE NoMemory
  BY <1>15, NoMemoryStep
<1>. QED
  BY <1>1, <1>2, <1>3, <1>4, <1>5, <1>6, <1>7, <1>8, <1>9, <1>10, <1>11, <1>12, <1>13, <1>14, <1>15 DEF Next, Serve, Sweep

\* So Inv always holds.
LEMMA Invariance == Spec => []Inv
<1>1. Init => Inv
  BY InitInv
<1>2. Inv /\ [Next]_vars => Inv'
  BY StepInv
<1>. QED
  BY <1>1, <1>2, PTL DEF Spec

\* Inv gives each property: the types,
LEMMA InvType == Inv => TypeOK
<1>. SUFFICES ASSUME Inv PROVE TypeOK
  OBVIOUS
<1>1. Typed
  BY DEF Inv
<1>2. \E h, H : Sound(h, Allocated, Asked, locals, sink, H)
  <2>1. Quiet \/ Waiting
    BY DEF Inv, Phase, Typed, GcType
  <2>. QED
    BY <2>1 DEF Quiet, Waiting
<1>3. sink \in Pointers /\ locals \subseteq Cells
  BY <1>2, SoundTyped
<1>4. /\ gc.pc \in {"off", "mark", "sweep", "swept", "grown"}
      /\ gc.todo \in Seq(Cells) /\ gc.scan \in Cells \union {0} /\ gc.calls \in Seq(CallType)
  BY <1>1 DEF Typed, GcType
<1>. QED
  BY <1>1, <1>3, <1>4 DEF Typed, TypeOK, CellType, ReqType, CallType

\* the free list when no collection sweeps,
LEMMA InvFreeList == Inv => FreeListSound
<1>. SUFFICES ASSUME Inv, gc.pc \notin {"mark", "sweep"} PROVE
         /\ FreeList = {c \in Allocated : cell[c].type = "none"}
         /\ fcells = Cardinality(FreeList)
         /\ \A c \in FreeList : cell[c].cdr = Nil \/ cell[c].cdr > c
  BY DEF FreeListSound
<1>1. ListOK(Free(cell, Allocated), cell, free_cell, fcells)
  BY DEF Inv, Phase, Typed, GcType, Quiet
<1>2. FreeList = Free(cell, Allocated)
  BY <1>1, FreeListIs
<1>3. fcells = Cardinality(Free(cell, Allocated)) /\ \A c \in Free(cell, Allocated) : NextIn(Free(cell, Allocated), c, cell[c].cdr)
  BY <1>1 DEF ListOK
<1>4. \A c \in Free(cell, Allocated) : c \in Nat
  BY <1>1, CellsAre DEF ListOK
<1>5. \A c \in FreeList : cell[c].cdr = Nil \/ cell[c].cdr > c
  BY <1>2, <1>3, <1>4 DEF NextIn
<1>6. Free(cell, Allocated) = {c \in Allocated : cell[c].type = "none"}
  BY DEF Free
<1>. QED
  BY <1>2, <1>3, <1>5, <1>6

\* what a collection frees,
LEMMA InvExact == Inv => GcExact
<1>. SUFFICES ASSUME Inv, gc.pc = "swept"
              PROVE  \A c \in Allocated : IF c \in Reach(before, {reg[r] : r \in Reg} \union {sink, req.a, req.b})
                                          THEN cell[c] = before[c] ELSE cell[c].type = "none"
  BY DEF GcExact
<1>1. Kept /\ \A c \in Allocated \ Live : cell[c].type = "none"
  BY DEF Inv, Phase
<1>2. {reg[r] : r \in Reg} \union {sink, req.a, req.b} = Asked \union {sink}
  BY DEF Asked
<1>3. \A c \in Live : cell[c] = before[c]
  BY <1>1 DEF Kept
<1>. QED
  BY <1>1, <1>2, <1>3 DEF Live

\* A cell of a chain has the type it had when the collection began.
LEMMA ChainTypes ==
    ASSUME NEW h, NEW b, HeapOK(b), NEW C, NEW K, NEW n, NEW s, NEW lev, Chain(h, b, C, K, n, s, lev),
           NEW c \in Cells
    PROVE  h[c].type = b[c].type
<1>1. h[c] \in CellType /\ b[c] \in CellType
  BY DEF Chain, HeapOK
<1>2. CASE Same(h, b, c)
  BY <1>1, <1>2 DEF Same, CellType
<1>3. CASE ~ Same(h, b, c)
  <2>1. PICK j \in 1 .. n : j < n /\ s[j] = c
    BY <1>3 DEF Chain
  <2>2. Behind(h, b, C, s, lev, j)
    BY <2>1 DEF Chain
  <2>3. \/ h[c] = [b[c] EXCEPT !.mark = TRUE]
        \/ h[c] = [b[c] EXCEPT !.mark = TRUE, !.atom = TRUE, !.car = Up(b, s, j)]
        \/ h[c] = [b[c] EXCEPT !.mark = TRUE, !.cdr = Up(b, s, j)]
    BY <2>1, <2>2 DEF Behind, Waits, Turned
  <2>. QED
    BY <1>1, <2>3, ZenonT(60) DEF CellType
<1>. QED
  BY <1>2, <1>3

\* What gc keeps, while it runs.
LEMMA LiveKnown ==
    ASSUME Inv, gc.pc # "off"
    PROVE  /\ Known \subseteq Live /\ Live \subseteq Cells
           /\ \A c \in Live : before[c].type # "none"
<1>1. HeapOK(before) /\ \A x \in Asked \union {sink} : IsPointer(before, x)
  <2>1. CASE gc.pc \in {"mark", "sweep"}
    <3>1. PICK H : Sound(before, Allocated, Asked, locals, sink, H)
      BY <2>1 DEF Inv, Phase, Waiting
    <3>. QED
      BY <3>1, SinkIs
  <2>2. CASE gc.pc \in {"swept", "grown"}
    BY <2>2 DEF Inv, Phase, Kept
  <2>. QED
    BY <2>1, <2>2 DEF Inv, Typed, GcType
<1>2. /\ (Asked \union {sink}) \ {Nil} \subseteq Live /\ Live \subseteq Cells
      /\ \A c \in Live : before[c].type # "none" /\ Links(before, c) \subseteq Live
  BY <1>1, ReachUsed DEF Live
<1>3. \E h, H : Sound(h, Allocated, Asked, locals, sink, H) /\ \A c \in Live : h[c] = before[c]
  <2>1. CASE gc.pc \in {"mark", "sweep"}
    BY <2>1 DEF Inv, Phase, Waiting
  <2>2. CASE gc.pc \in {"swept", "grown"}
    BY <2>2 DEF Inv, Phase, Kept, Quiet
  <2>. QED
    BY <2>1, <2>2 DEF Inv, Typed, GcType
<1>4. PICK h, H : Sound(h, Allocated, Asked, locals, sink, H) /\ \A c \in Live : h[c] = before[c]
  BY <1>3
<1>5. Keeps(h, before, Allocated, Asked, locals, sink, H, Live)
  BY <1>2, <1>4 DEF Keeps
<1>6. locals \subseteq Live
  BY <1>5, KnownIn
<1>7. (Operands \union {req.a, req.b}) \ {Nil} \subseteq Live
  BY <1>2, <1>6 DEF Operands, Asked
<1>8. Reach(before, Operands \union {req.a, req.b}) \subseteq Live
  BY <1>2, <1>7, ReachLeast
<1>. QED
  BY <1>2, <1>8 DEF Known

\* No collection takes what the evaluator may still use.
LEMMA InvKnown == Inv => KnownKept
<1>. SUFFICES ASSUME Inv, NEW c \in Known PROVE cell[c].type # "none"
  BY DEF KnownKept
<1>1. CASE gc.pc = "off"
  <2>1. PICK H : Sound(cell, Allocated, Asked, locals, sink, H)
    BY <1>1 DEF Inv, Phase, Quiet
  <2>2. HeapOK(cell) /\ (\A x \in Asked : IsPointer(cell, x)) /\ (\A x \in locals : IsObject(cell, x))
    BY <2>1 DEF Sound
  <2>3. \A x \in Operands \union {req.a, req.b} : IsPointer(cell, x)
    BY <2>2 DEF Operands, Asked, IsPointer
  <2>4. c \in Reach(cell, Operands \union {req.a, req.b})
    BY <1>1 DEF Known
  <2>. QED
    BY <2>2, <2>3, <2>4, ReachUsed
<1>2. CASE gc.pc # "off"
  <2>1. c \in Live /\ c \in Cells /\ before[c].type # "none"
    BY <1>2, LiveKnown
  <2>2. CASE gc.pc \in {"swept", "grown"}
    BY <2>1, <2>2 DEF Inv, Phase, Kept
  <2>3. CASE gc.pc = "sweep"
    <3>1. Sweeping(gc, cell, before, Allocated, Live, free_cell, fcells)
      BY <2>3 DEF Inv, Phase
    <3>2. PICK H : Sound(before, Allocated, Asked, locals, sink, H)
      BY <2>3 DEF Inv, Phase, Waiting
    <3>3. before[c] \in CellType /\ cell[c] \in CellType
      BY <2>1, <3>1, <3>2 DEF Sound, HeapOK, Sweeping
    <3>4. c \in Allocated /\ c \in Nat /\ gc.scan \in Nat
      BY <2>1, <3>1, CellsAre DEF Sweeping
    <3>5. cell[c] = before[c] \/ Same(cell, before, c)
      BY <2>1, <3>1, <3>4 DEF Sweeping
    <3>. QED
      BY <2>1, <3>3, <3>5 DEF Same, CellType
  <2>4. CASE gc.pc = "mark"
    <3>1. HeapOK(before) /\ MarkOK(cell, before, gc, Asked \union {sink})
      BY <2>4 DEF Inv, Phase, Marking
    <3>2. PICK C, K, n, s, lev : Chain(cell, before, C, K, n, s, lev)
      BY <3>1 DEF MarkOK, MarkGhost, Marks
    <3>. QED
      BY <2>1, <3>1, <3>2, ChainTypes
  <2>. QED
    BY <1>2, <2>2, <2>3, <2>4 DEF Inv, Typed, GcType
<1>. QED
  BY <1>1, <1>2

-----------------------------------------------------------------------------
(* The links that mark has turned around can be turned back.               *)

\* What the recursive function in Undone is.
Start(h, call) == [h |-> h, p |-> call.p, t |-> call.t]
Backs(U, h, call, n) == U = [k \in 0 .. n |-> IF k = 0 THEN [h |-> h, p |-> call.p, t |-> call.t] ELSE Back(U[k - 1])]

\* There is one: Undone is not an empty choice.
LEMMA BacksExist ==
    ASSUME NEW h, NEW call, NEW n \in Nat
    PROVE  \E U : Backs(U, h, call, n)
<1>. DEFINE T == {k \in Nat : ~ \E U : Backs(U, h, call, k)}
            S == Start(h, call)
<1>. SUFFICES ASSUME T # {} PROVE FALSE
  OBVIOUS
<1>1. PICK m \in T : \A k \in T : m <= k
  <2>1. T \subseteq Nat
    OBVIOUS
  <2>. HIDE DEF T
  <2>. QED
    BY <2>1, Least
<1>2. m # 0
  <2>1. Backs([i \in 0 .. 0 |-> [h |-> h, p |-> call.p, t |-> call.t]], h, call, 0)
    BY DEF Backs
  <2>. QED
    BY <2>1
<1>3. PICK f : Backs(f, h, call, m - 1)
  <2>1. m - 1 \in Nat /\ ~ (m <= m - 1)
    BY <1>2
  <2>. QED
    BY <1>1, <2>1
<1>4. \A i \in 0 .. m - 1 : f[i] = IF i = 0 THEN S ELSE Back(f[i - 1])
  BY <1>3, Zenon DEF Backs, Start
<1>. HIDE DEF S
<1>. DEFINE g == [i \in 0 .. m |-> IF i < m THEN f[i] ELSE Back(f[m - 1])]
<1>5. ASSUME NEW i \in 0 .. m PROVE g[i] = IF i = 0 THEN S ELSE Back(g[i - 1])
  <2>1. CASE i = 0
    BY <1>2, <1>4, <2>1
  <2>2. CASE i # 0
    <3>1. i - 1 \in 0 .. m /\ i - 1 < m /\ g[i - 1] = f[i - 1]
      BY <2>2
    <3>. QED
      BY <1>4, <2>2, <3>1
  <2>. QED
    BY <2>1, <2>2
<1>6. g = [i \in 0 .. m |-> IF i = 0 THEN S ELSE Back(g[i - 1])]
  <2>1. g = [i \in 0 .. m |-> g[i]]
    OBVIOUS
  <2>. HIDE DEF g
  <2>. QED
    BY <1>5, <2>1
<1>. HIDE DEF g
<1>7. Backs(g, h, call, m)
  BY <1>6, Zenon DEF Backs, S, Start
<1>. QED
  BY <1>7

\* Undone turns the links back one by one.
BacksTo(U, h, call, n) == /\ Undone(h, call) = U[n].h /\ U[0] = Start(h, call)
                          /\ \A i, j \in 0 .. n : j = i + 1 => U[j] = Back(U[i])

\* There is such a sequence, and it ends in Undone.
LEMMA UndoneBacks ==
    ASSUME NEW h, NEW call
    PROVE  \E U : BacksTo(U, h, call, Cardinality(Cells))
<1>. DEFINE U == CHOOSE U : Backs(U, h, call, Cardinality(Cells))
            S == Start(h, call)
<1>1. Backs(U, h, call, Cardinality(Cells))
  BY BacksExist, CellsAre
<1>2. Undone(h, call) = U[Cardinality(Cells)].h
  BY Zenon DEF Undone, Backs
<1>. HIDE DEF U
<1>3. \A i \in 0 .. Cardinality(Cells) : U[i] = IF i = 0 THEN S ELSE Back(U[i - 1])
  BY <1>1, Zenon DEF Backs, Start
<1>. HIDE DEF S
<1>4. U[0] = S
  BY <1>3, CellsAre
<1>5. \A i, j \in 0 .. Cardinality(Cells) : j = i + 1 => U[j] = Back(U[i])
  <2>. SUFFICES ASSUME NEW i \in 0 .. Cardinality(Cells), NEW j \in 0 .. Cardinality(Cells), j = i + 1
                PROVE  U[j] = Back(U[i])
    OBVIOUS
  <2>1. j # 0 /\ j - 1 = i
    BY CellsAre
  <2>. QED
    BY <1>3, <2>1
<1>. QED
  BY <1>2, <1>4, <1>5 DEF S, BacksTo

\* The chain has each cell once at most.
LEMMA ChainLength ==
    ASSUME NEW h, NEW b, NEW C, NEW K, NEW n, NEW s, NEW lev, Chain(h, b, C, K, n, s, lev)
    PROVE  n \in Nat /\ n <= Cardinality(Cells)
<1>. DEFINE f == [j \in 1 .. n |-> s[j]]
<1>1. n \in Nat /\ (\A j \in 1 .. n : s[j] \in Cells)
      /\ \A i, j \in 1 .. n : i < j => s[i] # s[j]
  BY DEF Chain, InOrder
<1>2. f \in [1 .. n -> Cells]
  BY <1>1
<1>3. \A i, j \in 1 .. n : f[i] = f[j] => i = j
  <2>. SUFFICES ASSUME NEW i \in 1 .. n, NEW j \in 1 .. n, f[i] = f[j] PROVE i = j
    OBVIOUS
  <2>1. i < j \/ j < i \/ i = j
    BY <1>1
  <2>. QED
    BY <1>1, <2>1
<1>4. f \in Injection(1 .. n, Cells)
  BY <1>2, <1>3 DEF Injection, IsInjective
<1>5. Cardinality(1 .. n) <= Cardinality(Cells)
  BY <1>4, CellsAre, FS_Injection
<1>6. Cardinality(1 .. n) = n
  BY <1>1, FS_Interval
<1>. QED
  BY <1>1, <1>5, <1>6

\* So far the chain of the K-th call, with n cells, has been followed back.
Shorter(u, b, C, K, n, s, lev, j) ==
    \E D, m : /\ Chain(u.h, b, D, K, m, s, lev) /\ m > 0 /\ m \in Nat /\ D \in [Nat -> CallType]
              /\ D[K].p = u.p /\ D[K].t = u.t /\ \A i \in Nat : i < K => D[i] = C[i]
              /\ u.t \in Cells => m + j = n

\* One more link turned back is one cell of the chain less.
LEMMA ShorterStep ==
    ASSUME NEW b, HeapOK(b), NEW C, NEW K, NEW n \in Nat, NEW s, NEW lev, NEW u, NEW j \in Nat,
           Shorter(u, b, C, K, n, s, lev, j), NEW v, v = Back(u)
    PROVE  Shorter(v, b, C, K, n, s, lev, j + 1)
<1>1. PICK D, m : /\ Chain(u.h, b, D, K, m, s, lev) /\ m > 0 /\ m \in Nat /\ D \in [Nat -> CallType]
                  /\ D[K].p = u.p /\ D[K].t = u.t /\ \A i \in Nat : i < K => D[i] = C[i]
                  /\ u.t \in Cells => m + j = n
  BY DEF Shorter
<1>2. CASE u.t \notin Cells
  <2>1. v = u
    BY <1>2 DEF Back
  <2>. QED
    BY <1>1, <1>2, <2>1 DEF Shorter
<1>3. CASE u.t \in Cells
  <2>. DEFINE q == u.t
              call == D[K]
              g == UpHeap(u.h, q, call.p)
              next == UpCall(u.h, call, q, "E6")
  <2>1. v.h = g /\ v.p = q /\ v.t = IF u.h[q].atom THEN u.h[q].car ELSE u.h[q].cdr
    BY <1>1, <1>3 DEF Back, UpHeap
  <2>2. PICK l : UpDone(u.h, b, D, K, m, s, lev, q, g, next, l)
    <3>1. HeapOK(b) /\ q = D[K].t /\ q \in Cells /\ "E6" \in {"E5", "E6"} /\ call = D[K]
      BY <1>1, <1>3
    <3>. HIDE DEF q, call, g, next
    <3>2. g = UpHeap(u.h, q, call.p) /\ next = UpCall(u.h, call, q, "E6")
      BY DEF g, next
    <3>. QED
      BY <1>1, <3>1, <3>2, ChainUp
  <2>3. l \in Nat /\ m = l + 1 /\ l > 0 /\ Chain(g, b, [D EXCEPT ![K] = next], K, l, s, lev)
    BY <2>2 DEF UpDone
  <2>4. K \in Nat /\ D[K] \in CallType
    BY <1>1 DEF Chain
  <2>5. next.p = q /\ next.t = IF u.h[q].atom THEN u.h[q].car ELSE u.h[q].cdr
    BY <2>4 DEF UpCall, CallType
  <2>. DEFINE E == [D EXCEPT ![K] = next]
  <2>6. E \in [Nat -> CallType]
    BY <2>3 DEF Chain
  <2>. HIDE DEF next
  <2>7. E[K] = next /\ \A i \in Nat : i < K => E[i] = C[i]
    BY <1>1, <2>4
  <2>8. v.t \in Cells => l + (j + 1) = n
    BY <1>1, <1>3, <2>3
  <2>. HIDE DEF E, g, q
  <2>9. Chain(v.h, b, E, K, l, s, lev) /\ E[K].p = v.p /\ E[K].t = v.t
    BY <2>1, <2>3, <2>5, <2>7 DEF E, q
  <2>. QED
    BY <2>3, <2>6, <2>7, <2>8, <2>9 DEF Shorter
<1>. QED
  BY <1>2, <1>3

\* A call that has been undone is as if it had returned.
Fewer(h, b, C, l, s, lev) ==
    \E D, m : Chain(h, b, D, l - 1, m, s, lev) /\ \A i \in Nat : i < l => D[i] = C[i]

\* After as many steps as there are cells the call has none left.
LEMMA UndoneReturns ==
    ASSUME NEW h, NEW b, HeapOK(b), NEW C, NEW K, NEW n, NEW s, NEW lev, Chain(h, b, C, K, n, s, lev), n > 0,
           NEW call, call = C[K]
    PROVE  Fewer(Undone(h, call), b, C, K, s, lev)
<1>. DEFINE N == Cardinality(Cells)
<1>0. PICK U : BacksTo(U, h, call, N)
  BY UndoneBacks
<1>1. /\ Undone(h, call) = U[N].h /\ U[0] = Start(h, call)
      /\ \A i, j \in 0 .. N : j = i + 1 => U[j] = Back(U[i])
  BY <1>0 DEF BacksTo
<1>2. N \in Nat /\ n \in Nat /\ n <= N /\ K \in Nat /\ C \in [Nat -> CallType]
  BY CellsAre, ChainLength, ZenonT(60) DEF Chain
<1>. HIDE DEF N
<1>3. Shorter(U[0], b, C, K, n, s, lev, 0)
  <2>1. U[0].h = h /\ U[0].p = C[K].p /\ U[0].t = C[K].t
    BY <1>1 DEF Start
  <2>2. n + 0 = n
    BY <1>2
  <2>. QED
    BY <1>2, <2>1, <2>2 DEF Shorter
<1>4. \A j \in 0 .. N : Shorter(U[j], b, C, K, n, s, lev, j)
  <2>. DEFINE T == {j \in 0 .. N : ~ Shorter(U[j], b, C, K, n, s, lev, j)}
  <2>. SUFFICES ASSUME T # {} PROVE FALSE
    OBVIOUS
  <2>1. PICK m \in T : \A k \in T : m <= k
    <3>1. T \subseteq Nat
      BY <1>2
    <3>. HIDE DEF T
    <3>. QED
      BY <3>1, Least
  <2>2. m # 0 /\ m \in 0 .. N
    BY <1>3
  <2>3. m - 1 \in 0 .. N /\ m - 1 \in Nat /\ m = (m - 1) + 1 /\ ~ (m <= m - 1)
    BY <1>2, <2>2
  <2>4. Shorter(U[m - 1], b, C, K, n, s, lev, m - 1)
    BY <2>1, <2>3
  <2>5. U[m] = Back(U[m - 1])
    BY <1>1, <2>2, <2>3
  <2>6. Shorter(U[m], b, C, K, n, s, lev, (m - 1) + 1)
    BY <1>2, <2>3, <2>4, <2>5, ShorterStep
  <2>. QED
    BY <2>1, <2>3, <2>6
<1>5. Shorter(U[N], b, C, K, n, s, lev, N)
  BY <1>2, <1>4
<1>6. PICK D, m : /\ Chain(U[N].h, b, D, K, m, s, lev) /\ m > 0 /\ m \in Nat /\ D \in [Nat -> CallType]
                  /\ D[K].p = U[N].p /\ D[K].t = U[N].t /\ \A i \in Nat : i < K => D[i] = C[i]
                  /\ U[N].t \in Cells => m + N = n
  BY <1>5 DEF Shorter
<1>7. D[K].t \notin Cells
  <2>1. ~ (m + N = n)
    BY <1>2, <1>6
  <2>. QED
    BY <1>6, <2>1
<1>8. \E l \in Nat : Chain(U[N].h, b, D, K - 1, l, s, lev)
  BY <1>6, <1>7, ChainReturns
<1>. QED
  BY <1>1, <1>6, <1>8 DEF Fewer

\* What the recursive function in Recovered is.
Undoes(V, h, calls, n) == V = [k \in 0 .. n |-> IF k = 0 THEN h ELSE Undone(V[k - 1], calls[k])]

\* There is one: Recovered is not an empty choice.
LEMMA UndoesExist ==
    ASSUME NEW h, NEW calls, NEW n \in Nat
    PROVE  \E V : Undoes(V, h, calls, n)
<1>. DEFINE T == {k \in Nat : ~ \E V : Undoes(V, h, calls, k)}
            Nxt(X, k) == Undone(X, calls[k])
<1>. SUFFICES ASSUME T # {} PROVE FALSE
  OBVIOUS
<1>1. PICK m \in T : \A k \in T : m <= k
  <2>1. T \subseteq Nat
    OBVIOUS
  <2>. HIDE DEF T
  <2>. QED
    BY <2>1, Least
<1>2. m # 0
  <2>1. Undoes([i \in 0 .. 0 |-> h], h, calls, 0)
    BY DEF Undoes
  <2>. QED
    BY <2>1
<1>3. PICK f : Undoes(f, h, calls, m - 1)
  <2>1. m - 1 \in Nat /\ ~ (m <= m - 1)
    BY <1>2
  <2>. QED
    BY <1>1, <2>1
<1>4. \A i \in 0 .. m - 1 : f[i] = IF i = 0 THEN h ELSE Nxt(f[i - 1], i)
  BY <1>3, Zenon DEF Undoes
<1>. HIDE DEF Nxt
<1>. DEFINE g == [i \in 0 .. m |-> IF i < m THEN f[i] ELSE Nxt(f[m - 1], m)]
<1>5. ASSUME NEW i \in 0 .. m PROVE g[i] = IF i = 0 THEN h ELSE Nxt(g[i - 1], i)
  <2>1. CASE i = 0
    BY <1>2, <1>4, <2>1
  <2>2. CASE i # 0
    <3>1. i - 1 \in 0 .. m /\ i - 1 < m /\ g[i - 1] = f[i - 1]
      BY <2>2
    <3>. QED
      BY <1>4, <2>2, <3>1
  <2>. QED
    BY <2>1, <2>2
<1>6. g = [i \in 0 .. m |-> IF i = 0 THEN h ELSE Nxt(g[i - 1], i)]
  <2>1. g = [i \in 0 .. m |-> g[i]]
    OBVIOUS
  <2>. HIDE DEF g
  <2>. QED
    BY <1>5, <2>1
<1>. HIDE DEF g
<1>7. Undoes(g, h, calls, m)
  BY <1>6, Zenon DEF Undoes, Nxt
<1>. QED
  BY <1>7

\* Recovered undoes the calls one by one, the innermost first.
RecoversBy(V, h, calls, n) == /\ Recovered = V[n] /\ V[0] = h
                              /\ \A i, j \in 0 .. n : j = i + 1 => V[j] = Undone(V[i], calls[j])

\* There is such a sequence, and it ends in Recovered.
LEMMA RecoveredUndoes ==
    ASSUME Len(gc.calls) \in Nat
    PROVE  \E V : RecoversBy(V, cell, gc.calls, Len(gc.calls))
<1>. DEFINE V == CHOOSE V : Undoes(V, cell, gc.calls, Len(gc.calls))
            Nxt(X, k) == Undone(X, gc.calls[k])
            N == Len(gc.calls)
<1>1. Undoes(V, cell, gc.calls, Len(gc.calls))
  BY UndoesExist
<1>2. Recovered = V[Len(gc.calls)]
  BY Zenon DEF Recovered, Undoes
<1>. HIDE DEF V
<1>3. \A i \in 0 .. N : V[i] = IF i = 0 THEN cell ELSE Nxt(V[i - 1], i)
  BY <1>1, Zenon DEF Undoes
<1>. HIDE DEF Nxt
<1>4. V[0] = cell
  BY <1>3
<1>5. \A i, j \in 0 .. N : j = i + 1 => V[j] = Nxt(V[i], j)
  <2>. SUFFICES ASSUME NEW i \in 0 .. N, NEW j \in 0 .. N, j = i + 1
                PROVE  V[j] = Nxt(V[i], j)
    OBVIOUS
  <2>1. j # 0 /\ j - 1 = i
    OBVIOUS
  <2>. QED
    BY <1>3, <2>1
<1>. QED
  BY <1>2, <1>4, <1>5 DEF Nxt, RecoversBy

\* So far all calls but l have been undone.
Remain(h, b, C, l, s, lev) ==
    \E D, m : Chain(h, b, D, l, m, s, lev) /\ \A i \in Nat : i <= l => D[i] = C[i]

\* One more call undone is one level of the chain less.
LEMMA RemainStep ==
    ASSUME NEW h, NEW b, HeapOK(b), NEW C, NEW l \in Nat, l > 0, NEW s, NEW lev,
           Remain(h, b, C, l, s, lev), NEW call, call = C[l]
    PROVE  Remain(Undone(h, call), b, C, l - 1, s, lev)
<1>1. PICK D, m : Chain(h, b, D, l, m, s, lev) /\ \A i \in Nat : i <= l => D[i] = C[i]
  BY DEF Remain
<1>2. m > 0 /\ call = D[l]
  BY <1>1 DEF Chain
<1>3. Fewer(Undone(h, call), b, D, l, s, lev)
  BY <1>1, <1>2, UndoneReturns
<1>4. PICK E, k : /\ Chain(Undone(h, call), b, E, l - 1, k, s, lev)
                  /\ \A i \in Nat : i < l => E[i] = D[i]
  BY <1>3 DEF Fewer
<1>5. \A i \in Nat : i <= l - 1 => E[i] = C[i]
  BY <1>1, <1>4
<1>. QED
  BY <1>4, <1>5 DEF Remain

\* With all calls undone, the chain is empty and the heap is as it was.
LEMMA InvLinks == Inv => LinksRecoverable
<1>. SUFFICES ASSUME Inv, gc.pc = "mark" PROVE Unmarked(Recovered) = before
  BY DEF LinksRecoverable
<1>1. HeapOK(before) /\ MarkOK(cell, before, gc, Asked \union {sink})
  BY DEF Inv, Phase, Marking
<1>2. PICK C, K, n, s, lev : Stacked(gc.calls, C, K) /\ Chain(cell, before, C, K, n, s, lev)
  BY <1>1 DEF MarkOK, MarkGhost, Marks
<1>3. /\ K = Len(gc.calls) /\ K \in Nat
      /\ \A l, j \in 1 .. K : l + j = K + 1 => gc.calls[j] = C[l]
  BY <1>2 DEF Stacked
<1>4. PICK V : RecoversBy(V, cell, gc.calls, K)
  BY <1>3, RecoveredUndoes
<1>5. Recovered = V[K] /\ V[0] = cell /\ \A i, j \in 0 .. K : j = i + 1 => V[j] = Undone(V[i], gc.calls[j])
  BY <1>4 DEF RecoversBy
<1>. DEFINE Ok(k) == Remain(V[k], before, C, K - k, s, lev)
<1>6. Ok(0)
  BY <1>2, <1>3, <1>5 DEF Remain
<1>7. ASSUME NEW i \in 0 .. K, i < K, Ok(i) PROVE Ok(i + 1)
  <2>0. K \in Nat /\ i \in Nat /\ i < K
    BY <1>3, <1>7
  <2>. HIDE DEF Ok
  <2>1. i + 1 \in 1 .. K /\ K - i \in 1 .. K /\ (K - i) + (i + 1) = K + 1 /\ (K - i) - 1 = K - (i + 1)
    BY <2>0
  <2>. USE DEF Ok
  <2>2. gc.calls[i + 1] = C[K - i]
    BY <1>3, <2>1
  <2>3. V[i + 1] = Undone(V[i], C[K - i])
    BY <1>5, <2>1, <2>2
  <2>4. Remain(Undone(V[i], C[K - i]), before, C, (K - i) - 1, s, lev)
    <3>1. K - i \in Nat /\ K - i > 0
      BY <2>1
    <3>. QED
      BY <1>1, <1>7, <3>1, RemainStep
  <2>. QED
    BY <2>1, <2>3, <2>4
<1>8. Ok(K)
  <2>. DEFINE T == {k \in 0 .. K : ~ Ok(k)}
  <2>. SUFFICES ASSUME T # {} PROVE FALSE
    BY <1>3
  <2>1. PICK m \in T : \A k \in T : m <= k
    <3>1. T \subseteq Nat
      BY <1>3
    <3>. HIDE DEF T
    <3>. QED
      BY <3>1, Least
  <2>2. m # 0 /\ m \in 0 .. K
    BY <1>6
  <2>3. m - 1 \in 0 .. K /\ m - 1 < K /\ m = (m - 1) + 1 /\ ~ (m <= m - 1)
    BY <1>3, <2>2
  <2>4. Ok(m - 1)
    BY <2>1, <2>3
  <2>. HIDE DEF Ok
  <2>5. Ok((m - 1) + 1)
    BY <1>7, <2>3, <2>4
  <2>. QED
    BY <2>1, <2>3, <2>5
<1>9. PICK D, m : Chain(V[K], before, D, K - K, m, s, lev)
  BY <1>8 DEF Remain
<1>10. V[K] \in [Cells -> CellType] /\ \A c \in Cells : Same(V[K], before, c)
  <2>1. K - K = 0
    BY <1>3
  <2>2. m = 0
    BY <1>9, <2>1 DEF Chain
  <2>. QED
    BY <1>9, <2>2 DEF Chain
<1>11. before \in [Cells -> CellType] /\ \A c \in Cells : before[c].mark = FALSE
  BY <1>1 DEF HeapOK, CellOK
<1>12. \A c \in Cells : [V[K][c] EXCEPT !.mark = FALSE] = before[c]
  <2>. SUFFICES ASSUME NEW c \in Cells PROVE [V[K][c] EXCEPT !.mark = FALSE] = before[c]
    OBVIOUS
  <2>. DEFINE x == V[K][c]
              y == before[c]
              z == [x EXCEPT !.mark = FALSE]
  <2>1. x \in CellType /\ y \in CellType /\ x = [y EXCEPT !.mark = x.mark] /\ y.mark = FALSE
    BY <1>10, <1>11 DEF Same
  <2>. HIDE DEF x, y
  <2>2. x.type = y.type /\ x.atom = y.atom /\ x.len = y.len /\ x.car = y.car /\ x.cdr = y.cdr
    BY <2>1 DEF CellType
  <2>3. z \in CellType /\ z.mark = FALSE /\ z.type = x.type /\ z.atom = x.atom /\ z.len = x.len /\ z.car = x.car /\ z.cdr = x.cdr
    BY <2>1 DEF CellType
  <2>. HIDE DEF z
  <2>4. z = y
    BY <2>1, <2>2, <2>3, SameFields
  <2>. QED
    BY <2>4 DEF x, y, z
<1>13. Unmarked(Recovered) = [c \in Cells |-> before[c]]
  BY <1>5, <1>12 DEF Unmarked
<1>. QED
  BY <1>11, <1>13

-----------------------------------------------------------------------------
(* The theorems.                                                           *)

\* Whenever the marker is not at the heap its cells and registers are well-formed, and
\* the free list has the unused cells, each of them once, in the order of their addresses;
\* fcells counts them (get_cell, get_consecutive_cells, alloc_cellseg, gc).
THEOREM FreeListCorrect == Spec => []FreeListOK
<1>1. Inv => FreeListOK
  BY InvType, InvFreeList DEF FreeListOK
<1>. QED
  BY <1>1, Invariance, PTL

\* At every step of mark the links that it has turned around can be turned back, and
\* the heap is then what it was when gc began.
THEOREM LinksCorrect == Spec => []LinksRecoverable
  BY InvLinks, Invariance, PTL

\* gc keeps what its roots lead to, as it was, and frees everything else.
THEOREM ExactCorrect == Spec => []GcExact
  BY InvExact, Invariance, PTL

\* What the evaluator may still use is never on the free list: what the registers and
\* the arguments of get_cell lead to, and what has been allocated since
\* ok_to_freely_gc, which only the list of recent allocations holds.
THEOREM KnownCorrect == Spec => []KnownKept
  BY InvKnown, Invariance, PTL
=============================================================================
