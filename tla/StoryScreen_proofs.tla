------------------------- MODULE StoryScreen_proofs -------------------------
(***************************************************************************)
(* The picture puzzle and the stories of the web client: theorems about    *)
(* Puzzle and StoryScreen, for any grid, any story and any bounds.         *)
(*                                                                         *)
(* A move of the puzzle rearranges the pieces and loses none.  The saved   *)
(* attempt is the one on the screen, whose story has at most gone on, so   *)
(* that nothing that is saved is taken back; as long as nothing strays,    *)
(* only an attempt that is saved at its ending is reported.  Under what    *)
(* the grid and the author have to provide, every node has a way on.       *)
(***************************************************************************)
EXTENDS StoryScreen, FiniteSetTheorems, SequenceTheorems, WellFoundedInduction, TLAPS

-----------------------------------------------------------------------------
(* The board                                                               *)

LEMMA SizeNat == /\ Rows \in Nat /\ Cols \in Nat /\ Rows >= 2 /\ Cols >= 2
                 /\ Rows * Cols \in Nat /\ Rows * Cols >= 2
<1>1. Rows \in Nat /\ Cols \in Nat /\ Rows >= 2 /\ Cols >= 2
  BY PuzzleAssumption
<1>2. Rows * Cols \in Nat
  BY <1>1
<1>3. Rows * Cols >= 2
  BY <1>1
<1> QED BY <1>1, <1>2, <1>3

LEMMA CellParts ==
    ASSUME NEW c \in Cells
    PROVE  /\ Row(c) \in 0 .. Rows - 1 /\ Col(c) \in 0 .. Cols - 1
           /\ c = Row(c) * Cols + Col(c)
<1>1. c \in Nat /\ c < Rows * Cols /\ Rows * Cols \in Nat
  BY SizeNat DEF Cells
<1>2. Cols \in Nat /\ Cols >= 2 /\ Rows \in Nat
  BY SizeNat
<1>3. /\ c \div Cols \in Int /\ c % Cols \in 0 .. Cols - 1
      /\ c = Cols * (c \div Cols) + (c % Cols)
  BY <1>1, <1>2
<1> DEFINE r == c \div Cols
           k == c % Cols
<1>4. r * Cols + k = c /\ r \in Int /\ k \in 0 .. Cols - 1
  BY <1>2, <1>3
<1> HIDE DEF r, k
<1>5. r >= 0
  BY <1>1, <1>2, <1>4
<1>6. r < Rows
  BY <1>1, <1>2, <1>4, <1>5
<1> QED BY <1>4, <1>5, <1>6, <1>2 DEF r, k, Row, Col

LEMMA PartsCell ==
    ASSUME NEW r \in 0 .. Rows - 1, NEW k \in 0 .. Cols - 1
    PROVE  r * Cols + k \in Cells
<1>1. Rows \in Nat /\ Cols \in Nat /\ r \in Nat /\ k \in Nat /\ k < Cols /\ r + 1 <= Rows
  BY SizeNat
<1>2. r * Cols \in Nat /\ (r + 1) * Cols = r * Cols + Cols
  BY <1>1
<1>3. (r + 1) * Cols <= Rows * Cols
  BY <1>1
<1> QED BY <1>1, <1>2, <1>3, SizeNat DEF Cells

LEMMA LeastNumber ==
    ASSUME NEW T, T \subseteq Nat, T # {}
    PROVE  \E k \in T : \A y \in T : k <= y
<1> DEFINE Below == {0 .. k : k \in T}
           R == StrictSubsetOrdering(Nat)
<1>1. IsWellFoundedOn(R, FiniteSubsetsOf(Nat))
  BY FS_StrictSubsetOrderingWellFounded
<1>2. Below \subseteq FiniteSubsetsOf(Nat)
  <2> SUFFICES ASSUME NEW k \in T PROVE 0 .. k \in FiniteSubsetsOf(Nat)
    OBVIOUS
  <2>1. IsFiniteSet(0 .. k)
    BY FS_Interval
  <2> QED BY <2>1 DEF FiniteSubsetsOf
<1>3. PICK b \in Below : \A c \in Below : ~(<<c, b>> \in R)
  <2>1. Below # {}
    OBVIOUS
  <2> HIDE DEF Below, R
  <2> QED BY <1>1, <1>2, <2>1, WFMin
<1>4. PICK k \in T : b = 0 .. k
  OBVIOUS
<1>5. ASSUME NEW y \in T, y < k PROVE FALSE
  <2>1. <<0 .. y, b>> \in R
    BY <1>4, <1>5 DEF StrictSubsetOrdering
  <2> QED BY <2>1, <1>3
<1>6. \A y \in T : k <= y
  BY <1>5
<1> QED BY <1>6

\* What has grown from a cell within n steps, as a function of the steps.
Touching(order, cells) ==
    {b \in Cells : \E a \in cells : {<<a, b>>, <<b, a>>} \cap Joined(order) # {}}

Growth(order, cell, n, g) ==
    g = [i \in 0 .. n |-> IF i = 0 THEN {cell}
                          ELSE g[i - 1] \cup Touching(order, g[i - 1])]

LEMMA GrowthExists ==
    ASSUME NEW order, NEW cell, NEW n \in Nat
    PROVE  \E g : Growth(order, cell, n, g)
<1> DEFINE Stuck == {m \in Nat : ~\E g : Growth(order, cell, m, g)}
<1> SUFFICES ASSUME Stuck # {} PROVE FALSE
  OBVIOUS
<1>1. PICK m \in Stuck : \A y \in Stuck : m <= y
  <2>1. Stuck \subseteq Nat
    OBVIOUS
  <2> HIDE DEF Stuck
  <2> QED BY <2>1, LeastNumber
<1>2. m \in Nat /\ ~\E g : Growth(order, cell, m, g)
  BY <1>1
<1>3. CASE m = 0
  <2> DEFINE h == [i \in 0 .. 0 |-> {cell}]
  <2>1. h = [i \in 0 .. 0 |-> IF i = 0 THEN {cell}
                              ELSE h[i - 1] \cup Touching(order, h[i - 1])]
    OBVIOUS
  <2>2. Growth(order, cell, m, h)
    <3> HIDE DEF h
    <3> QED BY <2>1, <1>3 DEF Growth
  <2> QED BY <2>2, <1>2
<1>4. CASE m # 0
  <2>1. m - 1 \in Nat /\ m - 1 \notin Stuck
    BY <1>1, <1>2, <1>4
  <2>2. PICK g : Growth(order, cell, m - 1, g)
    BY <2>1
  <2> DEFINE h == [i \in 0 .. m |-> IF i = m THEN g[m - 1] \cup Touching(order, g[m - 1])
                                    ELSE g[i]]
  <2>3. \A i \in 0 .. m - 1 : g[i] = IF i = 0 THEN {cell}
                                     ELSE g[i - 1] \cup Touching(order, g[i - 1])
    BY <2>2 DEF Growth
  <2>4. \A i \in 0 .. m : h[i] = IF i = 0 THEN {cell}
                                 ELSE h[i - 1] \cup Touching(order, h[i - 1])
    <3> SUFFICES ASSUME NEW i \in 0 .. m
                 PROVE  h[i] = IF i = 0 THEN {cell}
                               ELSE h[i - 1] \cup Touching(order, h[i - 1])
      OBVIOUS
    <3>1. CASE i = m
      <4>1. h[i] = g[m - 1] \cup Touching(order, g[m - 1])
        BY <3>1
      <4>2. h[m - 1] = g[m - 1]
        BY <1>2, <1>4
      <4> HIDE DEF h
      <4> QED BY <3>1, <4>1, <4>2, <1>4
    <3>2. CASE i # m
      <4>1. i \in 0 .. m - 1 /\ h[i] = g[i]
        BY <3>2, <1>2
      <4>2. i # 0 => h[i - 1] = g[i - 1]
        BY <3>2, <1>2
      <4> HIDE DEF h
      <4> QED BY <4>1, <4>2, <2>3
    <3> QED BY <3>1, <3>2
  <2>5. h = [i \in 0 .. m |-> h[i]]
    OBVIOUS
  <2>6. Growth(order, cell, m, h)
    <3> HIDE DEF h
    <3> QED BY <2>4, <2>5 DEF Growth
  <2> QED BY <2>6, <1>2
<1> QED BY <1>3, <1>4

LEMMA GrowthInside ==
    ASSUME NEW order, NEW cell \in Cells, NEW n \in Nat, NEW g,
           Growth(order, cell, n, g)
    PROVE  \A i \in 0 .. n : g[i] \subseteq Cells
<1> DEFINE Outside == {i \in 0 .. n : ~(g[i] \subseteq Cells)}
<1> SUFFICES ASSUME Outside # {} PROVE FALSE
  OBVIOUS
<1>1. PICK m \in Outside : \A y \in Outside : m <= y
  <2>1. Outside \subseteq Nat
    OBVIOUS
  <2> HIDE DEF Outside
  <2> QED BY <2>1, LeastNumber
<1>2. m \in 0 .. n /\ ~(g[m] \subseteq Cells)
  BY <1>1
<1>3. g[m] = IF m = 0 THEN {cell} ELSE g[m - 1] \cup Touching(order, g[m - 1])
  BY <1>2 DEF Growth
<1>4. CASE m = 0
  BY <1>2, <1>3, <1>4
<1>5. CASE m # 0
  <2>1. m - 1 \in 0 .. n /\ ~(m <= m - 1)
    BY <1>2, <1>5
  <2>2. m - 1 \notin Outside
    BY <1>1, <2>1
  <2>3. g[m - 1] \subseteq Cells
    BY <2>1, <2>2
  <2>4. Touching(order, g[m - 1]) \subseteq Cells
    BY DEF Touching
  <2> QED BY <1>2, <1>3, <1>5, <2>3, <2>4
<1> QED BY <1>4, <1>5

\* A group lies on the board.
LEMMA GroupInside ==
    ASSUME NEW order, NEW cell \in Cells
    PROVE  GroupOf(order, cell) \subseteq Cells
<1> DEFINE n == Rows * Cols - 1
           g == CHOOSE f : Growth(order, cell, n, f)
<1>1. n \in Nat /\ Cells = 0 .. n /\ n \in 0 .. n
  BY SizeNat DEF Cells
<1>2. GroupOf(order, cell) = g[n]
  BY <1>1 DEF GroupOf, Growth, Touching
<1>3. Growth(order, cell, n, g)
  <2> HIDE DEF n
  <2>1. \E f : Growth(order, cell, n, f)
    BY <1>1, GrowthExists
  <2> QED BY <2>1
<1> HIDE DEF n, g
<1> QED BY <1>1, <1>2, <1>3, GrowthInside

\* The walk against the direction of a move ends at the first cell that the
\* group does not cover.
LEMMA LandingSpot ==
    ASSUME NEW T \in SUBSET Cells, NEW d \in Int, d # 0, NEW p \in T
    PROVE  \E k \in 1 .. Rows * Cols :
              /\ Landing(p, T, d) = p - k * d
              /\ p - k * d \notin T
              /\ \A j \in 1 .. k - 1 : p - j * d \in T
<1> DEFINE n == Rows * Cols
           free == {k \in 1 .. n : p - k * d \notin T}
<1>1. n \in Nat /\ n >= 2 /\ Cells = 0 .. n - 1
  BY SizeNat DEF Cells
<1>2. p \in 0 .. n - 1 /\ T \subseteq 0 .. n - 1
  BY <1>1
<1>3. p - n * d \notin 0 .. n - 1
  <2> HIDE DEF n
  <2>1. CASE d >= 1
    <3>1. n * d >= n
      BY <2>1, <1>1
    <3> QED BY <3>1, <1>1, <1>2
  <2>2. CASE d <= -1
    <3>1. n * d <= -n
      BY <2>2, <1>1
    <3> QED BY <3>1, <1>1, <1>2
  <2> QED BY <2>1, <2>2
<1>4. n \in free
  <2> HIDE DEF n
  <2> QED BY <1>1, <1>2, <1>3
<1>5. PICK k \in free : \A y \in free : k <= y
  <2>1. free \subseteq Nat /\ free # {}
    BY <1>4, <1>1
  <2> HIDE DEF free
  <2> QED BY <2>1, LeastNumber
<1>6. k \in 1 .. n /\ p - k * d \notin T
  BY <1>5
<1>7. \A j \in 1 .. k - 1 : p - j * d \in T
  <2> TAKE j \in 1 .. k - 1
  <2>1. j \in 1 .. n /\ ~(k <= j)
    BY <1>6, <1>1
  <2> QED BY <2>1, <1>5
<1>8. (CHOOSE m \in free : \A j \in free : m <= j) = k
  <2>1. free \subseteq Nat
    BY <1>1
  <2> DEFINE best == CHOOSE m \in free : \A j \in free : m <= j
  <2>2. best \in free /\ \A j \in free : best <= j
    <3> HIDE DEF free
    <3> QED BY <1>5
  <2>3. best <= k /\ k <= best /\ best \in Nat /\ k \in Nat
    <3> HIDE DEF free, best
    <3> QED BY <2>1, <2>2, <1>5
  <2> QED BY <2>3
<1>9. Landing(p, T, d) = p - k * d
  <2>1. Landing(p, T, d) = p - d * k
    BY <1>8 DEF Landing
  <2>2. k \in Int
    BY <1>6, <1>1
  <2>3. d * k = k * d
    BY <2>2
  <2> QED BY <2>1, <2>3
<1> HIDE DEF free
<1> QED BY <1>6, <1>7, <1>9

\* What a shift does to the cells: the pieces it displaces, and they alone, go to
\* the cells the group has left.
LEMMA LandsWhereLeft ==
    ASSUME NEW G \in SUBSET Cells, NEW T \in SUBSET Cells, NEW d \in Int, d # 0,
           T = {c + d : c \in G}, NEW p \in T \ G
    PROVE  Landing(p, T, d) \in G \ T
<1>1. PICK k \in 1 .. Rows * Cols :
              /\ Landing(p, T, d) = p - k * d
              /\ p - k * d \notin T
              /\ \A j \in 1 .. k - 1 : p - j * d \in T
  BY LandingSpot
<1>2. k \in Nat /\ k >= 1 /\ p \in Int /\ G \subseteq Int
  BY SizeNat DEF Cells
<1>3. p - (k - 1) * d \in T
  <2>1. CASE k = 1
    BY <2>1, <1>2
  <2>2. CASE k # 1
    BY <2>2, <1>1, <1>2
  <2> QED BY <2>1, <2>2
<1>4. PICK c \in G : p - (k - 1) * d = c + d
  BY <1>3
<1>5. p - (k - 1) * d = p - k * d + d
  BY <1>2
<1>6. p - k * d \in Int
  BY <1>2
<1>7. c = p - k * d
  BY <1>4, <1>5, <1>6, <1>2
<1> QED BY <1>1, <1>7

LEMMA LandsApart ==
    ASSUME NEW G \in SUBSET Cells, NEW T \in SUBSET Cells, NEW d \in Int, d # 0,
           T = {c + d : c \in G}, NEW p \in T \ G, NEW q \in T \ G,
           Landing(p, T, d) = Landing(q, T, d)
    PROVE  p = q
<1> DEFINE Lands(x, k) == /\ Landing(x, T, d) = x - k * d
                          /\ \A j \in 1 .. k - 1 : x - j * d \in T
<1>1. ASSUME NEW x \in T \ G, NEW y \in T \ G, NEW k \in Nat \ {0}, NEW m \in Nat \ {0},
             Lands(x, k), Lands(y, m), Landing(x, T, d) = Landing(y, T, d), k < m
      PROVE  FALSE
  <2>1. x \in Int /\ y \in Int /\ G \subseteq Int
    BY DEF Cells
  <2>2. x - k * d = y - m * d
    BY <1>1
  <2> DEFINE j == m - k
  <2>3. j \in 1 .. m - 1 /\ x = y - j * d /\ y - (j - 1) * d = x + d
    BY <2>1, <2>2, <1>1
  <2>4. y - (j - 1) * d \in T
    <3> HIDE DEF j
    <3>1. CASE j = 1
      BY <3>1, <2>1
    <3>2. CASE j # 1
      <4>1. j - 1 \in 1 .. m - 1
        BY <3>2, <2>3, <1>1
      <4>2. \A i \in 1 .. m - 1 : y - i * d \in T
        BY <1>1
      <4> QED BY <4>1, <4>2
    <3> QED BY <3>1, <3>2
  <2> HIDE DEF j
  <2>5. PICK c \in G : x + d = c + d
    BY <2>3, <2>4
  <2>6. c = x
    BY <2>5, <2>1
  <2> QED BY <2>6
<1>2. PICK k \in 1 .. Rows * Cols : Lands(p, k)
  BY LandingSpot
<1>3. PICK m \in 1 .. Rows * Cols : Lands(q, m)
  BY LandingSpot
<1>4. k \in Nat \ {0} /\ m \in Nat \ {0} /\ p \in Int /\ q \in Int
  BY SizeNat DEF Cells
<1>5. ~(k < m) /\ ~(m < k)
  BY <1>1, <1>2, <1>3, <1>4
<1>6. k = m
  BY <1>4, <1>5
<1>7. p - k * d = q - k * d
  BY <1>2, <1>3, <1>6
<1>8. k * d \in Int
  BY <1>4
<1> QED BY <1>4, <1>7, <1>8

Covers(G, T, d) == T = {c + d : c \in G}

LEMMA AllLeftAreLandedOn ==
    ASSUME NEW G \in SUBSET Cells, NEW T \in SUBSET Cells, NEW d \in Int, d # 0,
           Covers(G, T, d), NEW c \in G \ T
    PROVE  \E p \in T \ G : Landing(p, T, d) = c
<1> DEFINE n == Rows * Cols
           out == {k \in 1 .. n : c + k * d \notin G}
<1>1. n \in Nat /\ n >= 2 /\ Cells = 0 .. n - 1
  BY SizeNat DEF Cells
<1>2. c \in 0 .. n - 1 /\ G \subseteq 0 .. n - 1
  BY <1>1
<1>3. c + n * d \notin 0 .. n - 1
  <2> HIDE DEF n
  <2>1. CASE d >= 1
    <3>1. n * d >= n
      BY <2>1, <1>1
    <3> QED BY <3>1, <1>1, <1>2
  <2>2. CASE d <= -1
    <3>1. n * d <= -n
      BY <2>2, <1>1
    <3> QED BY <3>1, <1>1, <1>2
  <2> QED BY <2>1, <2>2
<1>4. n \in out
  <2> HIDE DEF n
  <2> QED BY <1>1, <1>2, <1>3
<1>5. PICK k \in out : \A y \in out : k <= y
  <2>1. out \subseteq Nat /\ out # {}
    BY <1>4, <1>1
  <2> HIDE DEF out
  <2> QED BY <2>1, LeastNumber
<1>6. k \in 1 .. n /\ c + k * d \notin G /\ k \in Nat /\ k >= 1
  BY <1>5, <1>1
<1>7. ASSUME NEW m \in 0 .. k - 1 PROVE c + m * d \in G
  <2>1. CASE m = 0
    BY <2>1, <1>2
  <2>2. CASE m # 0
    <3>1. m \in 1 .. n /\ ~(k <= m)
      BY <2>2, <1>6, <1>1
    <3> QED BY <3>1, <1>5
  <2> QED BY <2>1, <2>2
<1>8. ASSUME NEW m \in 1 .. k PROVE c + m * d \in T
  <2>1. m - 1 \in 0 .. k - 1 /\ c \in Int /\ m \in Int
    BY <1>6, <1>2
  <2>2. c + (m - 1) * d \in G
    BY <2>1, <1>7
  <2>3. c + m * d = (c + (m - 1) * d) + d
    BY <2>1
  <2> QED BY <2>2, <2>3 DEF Covers
<1> DEFINE p == c + k * d
<1>9. p \in T \ G
  BY <1>6, <1>8
<1>10. PICK i \in 1 .. n :
              /\ Landing(p, T, d) = p - i * d
              /\ p - i * d \notin T
              /\ \A j \in 1 .. i - 1 : p - j * d \in T
  <2> HIDE DEF p
  <2> QED BY <1>9, LandingSpot
<1>11. i \in Nat /\ i >= 1 /\ c \in Int
  BY <1>10, <1>2, <1>1
<1>12. ~(i < k)
  <2> SUFFICES ASSUME i < k PROVE FALSE
    OBVIOUS
  <2>1. k - i \in 1 .. k /\ p - i * d = c + (k - i) * d
    BY <1>6, <1>11
  <2> HIDE DEF p
  <2> QED BY <2>1, <1>8, <1>10
<1>13. ~(k < i)
  <2> SUFFICES ASSUME k < i PROVE FALSE
    OBVIOUS
  <2>1. k \in 1 .. i - 1 /\ p - k * d = c
    BY <1>6, <1>11
  <2> HIDE DEF p
  <2>2. p - k * d \in T
    BY <2>1, <1>10
  <2> QED BY <2>1, <2>2
<1>14. i = k
  BY <1>6, <1>11, <1>12, <1>13
<1>15. p - k * d = c
  BY <1>6, <1>11
<1> QED BY <1>9, <1>10, <1>14, <1>15

\* A shift rearranges the pieces: none is lost and none is doubled.
LEMMA ShiftRearranges ==
    ASSUME NEW order \in Orders, NEW G \in SUBSET Cells, NEW d \in Int, d # 0,
           {c + d : c \in G} \subseteq Cells
    PROVE  Shifted(order, G, d) \in Orders
<1> DEFINE T == {c + d : c \in G}
           pushed == T \ G
           from == [c \in Cells |-> IF c \in T THEN c - d
                                    ELSE IF c \in G THEN CHOOSE p \in pushed : Landing(p, T, d) = c
                                    ELSE c]
           next == Shifted(order, G, d)
<1>1. T \in SUBSET Cells /\ G \subseteq Int /\ pushed \subseteq Cells /\ Cells \subseteq Int
  BY DEF Cells
<1>2. \A p \in pushed : Landing(p, T, d) \in G \ T
  <2> HIDE DEF T
  <2> TAKE p \in pushed
  <2>1. T = {c + d : c \in G}
    BY DEF T
  <2> QED BY <1>1, <2>1, LandsWhereLeft
<1>3. \A p, q \in pushed : Landing(p, T, d) = Landing(q, T, d) => p = q
  <2>1. T = {c + d : c \in G}
    BY DEF T
  <2> HIDE DEF T
  <2> TAKE p, q \in pushed
  <2> HAVE Landing(p, T, d) = Landing(q, T, d)
  <2> QED BY <1>1, <2>1, LandsApart
<1>4. \A c \in G \ T : \E p \in pushed : Landing(p, T, d) = c
  <2>1. T = {c + d : c \in G}
    BY DEF T
  <2> HIDE DEF T
  <2>2. ASSUME NEW b \in G \ T PROVE \E p \in T \ G : Landing(p, T, d) = b
    <3>1. T \in SUBSET Cells /\ Covers(G, T, d)
      BY <1>1, <2>1 DEF Covers
    <3> QED BY <3>1, AllLeftAreLandedOn
  <2> QED BY <2>2
<1>5. \A c \in T : c - d \in G
  BY <1>1
<1>6. next = [c \in Cells |->
            IF c \in T THEN order[c - d]
            ELSE IF \E p \in pushed : Landing(p, T, d) = c
                 THEN order[CHOOSE p \in pushed : Landing(p, T, d) = c]
                 ELSE order[c]]
  BY DEF Shifted
<1> HIDE DEF T, next
<1> DEFINE landed(c) == CHOOSE p \in pushed : Landing(p, T, d) = c
<1>7. \A c \in G \ T : landed(c) \in pushed /\ Landing(landed(c), T, d) = c
  BY <1>4
<1>8. \A c \in Cells : from[c] = IF c \in T THEN c - d
                                 ELSE IF c \in G THEN landed(c) ELSE c
  OBVIOUS
<1>9. \A c \in Cells : next[c] = order[from[c]]
  <2> TAKE c \in Cells
  <2>1. CASE c \in T
    BY <2>1, <1>6, <1>8
  <2>2. CASE c \notin T /\ c \in G
    BY <2>2, <1>6, <1>8, <1>4
  <2>3. CASE c \notin T /\ c \notin G
    BY <2>3, <1>6, <1>8, <1>2
  <2> QED BY <2>1, <2>2, <2>3
<1> HIDE DEF from, landed
<1>10. \A c \in Cells : /\ from[c] \in Cells
                        /\ c \in T => from[c] \in G
                        /\ c \notin T /\ c \in G => from[c] \in pushed
                        /\ c \notin T /\ c \notin G => from[c] \notin G \cup T
  BY <1>1, <1>5, <1>7, <1>8
<1>11. \A a, b \in Cells : from[a] = from[b] => a = b
  <2> SUFFICES ASSUME NEW a \in Cells, NEW b \in Cells, from[a] = from[b]
               PROVE  a = b
    OBVIOUS
  <2>1. CASE a \in T
    <3>1. b \in T
      BY <2>1, <1>10
    <3>2. a - d = b - d
      BY <2>1, <3>1, <1>8
    <3> QED BY <3>2, <1>1
  <2>2. CASE a \notin T /\ a \in G
    <3>1. b \notin T /\ b \in G
      BY <2>2, <1>10
    <3>2. landed(a) = landed(b)
      BY <2>2, <3>1, <1>8
    <3> QED BY <2>2, <3>1, <3>2, <1>7
  <2>3. CASE a \notin T /\ a \notin G
    <3>1. b \notin T /\ b \notin G
      BY <2>3, <1>10
    <3> QED BY <2>3, <3>1, <1>8
  <2> QED BY <2>1, <2>2, <2>3
<1>12. order \in [Cells -> Cells] /\ \A a, b \in Cells : order[a] = order[b] => a = b
  BY DEF Orders, IsInjective
<1>13. DOMAIN next = Cells /\ next = [c \in Cells |-> next[c]]
  BY <1>6
<1>14. next \in [Cells -> Cells]
  BY <1>9, <1>10, <1>12, <1>13
<1>15. \A a, b \in Cells : next[a] = next[b] => a = b
  BY <1>9, <1>10, <1>11, <1>12
<1>16. next \in Orders
  BY <1>13, <1>14, <1>15 DEF Orders, IsInjective
<1> QED BY <1>16 DEF next

THEOREM MovesRearrange ==
    ASSUME NEW order \in Orders
    PROVE  Moves(order) \subseteq Orders
<1> SUFFICES ASSUME NEW s \in Cells, NEW t \in Cells, Move(order, s, t) # NoMove
             PROVE  Move(order, s, t) \in Orders
  BY DEF Moves
<1> DEFINE G == GroupOf(order, s)
           dr == Row(t) - Row(s)
           dc == Col(t) - Col(s)
           d == t - s
<1>1. /\ s # t
      /\ \A c \in G : Row(c) + dr \in 0 .. Rows - 1 /\ Col(c) + dc \in 0 .. Cols - 1
      /\ Move(order, s, t) = Shifted(order, G, d)
  BY DEF Move
<1>2. G \subseteq Cells
  BY GroupInside
<1> HIDE DEF G
<1>3. s \in Int /\ t \in Int
  BY DEF Cells
<1>4. d \in Int /\ d # 0
  BY <1>1, <1>3
<1>5. ASSUME NEW c \in G PROVE c + d \in Cells
  <2>1. /\ Row(c) \in Int /\ Col(c) \in Int /\ c = Row(c) * Cols + Col(c)
        /\ Row(s) \in Int /\ Col(s) \in Int /\ s = Row(s) * Cols + Col(s)
        /\ Row(t) \in Int /\ Col(t) \in Int /\ t = Row(t) * Cols + Col(t)
    BY <1>2, CellParts
  <2>2. (Row(c) + dr) * Cols + (Col(c) + dc) \in Cells
    BY <1>1, <1>5, PartsCell
  <2>3. (Row(c) + dr) * Cols + (Col(c) + dc) = c + d
    BY <2>1, SizeNat
  <2> QED BY <2>2, <2>3
<1>6. {c + d : c \in G} \subseteq Cells
  BY <1>5
<1> HIDE DEF d
<1>7. Shifted(order, G, d) \in Orders
  BY <1>2, <1>4, <1>6, ShiftRearranges
<1> QED BY <1>1, <1>7

-----------------------------------------------------------------------------
(* The groups                                                              *)

\* A set of cells that no piece beside it belongs to.
Whole(order, C) == C \subseteq Cells /\ Touching(order, C) \subseteq C

\* The group of a cell is the end of what grows from it.
LEMMA GroupGrows ==
    ASSUME NEW order, NEW cell \in Cells
    PROVE  \E g : /\ Growth(order, cell, Rows * Cols - 1, g)
                  /\ GroupOf(order, cell) = g[Rows * Cols - 1]
<1> DEFINE n == Rows * Cols - 1
           g == CHOOSE f : Growth(order, cell, n, f)
<1>1. n \in Nat /\ Cells = 0 .. n /\ n \in 0 .. n
  BY SizeNat DEF Cells
<1>2. GroupOf(order, cell) = g[n]
  BY <1>1 DEF GroupOf, Growth, Touching
<1>3. Growth(order, cell, n, g)
  <2> HIDE DEF n
  <2>1. \E f : Growth(order, cell, n, f)
    BY <1>1, GrowthExists
  <2> QED BY <2>1
<1> QED BY <1>2, <1>3

\* What grows from a cell stays in any set that holds the cell and is whole.
LEMMA GroupLeast ==
    ASSUME NEW order, NEW cell \in Cells, NEW C, Whole(order, C), cell \in C
    PROVE  GroupOf(order, cell) \subseteq C
<1> DEFINE n == Rows * Cols - 1
<1>1. PICK g : Growth(order, cell, n, g) /\ GroupOf(order, cell) = g[n]
  BY GroupGrows
<1>2. n \in Nat /\ n \in 0 .. n
  BY SizeNat
<1> HIDE DEF n
<1> DEFINE Outside == {i \in 0 .. n : ~(g[i] \subseteq C)}
<1>3. Outside = {}
  <2> SUFFICES ASSUME Outside # {} PROVE FALSE
    OBVIOUS
  <2>1. PICK m \in Outside : \A y \in Outside : m <= y
    <3>1. Outside \subseteq Nat
      BY <1>2
    <3> HIDE DEF Outside
    <3> QED BY <3>1, LeastNumber
  <2>2. m \in 0 .. n /\ ~(g[m] \subseteq C)
    BY <2>1
  <2>3. g[m] = IF m = 0 THEN {cell} ELSE g[m - 1] \cup Touching(order, g[m - 1])
    BY <2>2, <1>1 DEF Growth
  <2>4. CASE m = 0
    BY <2>2, <2>3, <2>4
  <2>5. CASE m # 0
    <3>1. m - 1 \in 0 .. n /\ ~(m <= m - 1)
      BY <2>2, <2>5, <1>2
    <3>2. m - 1 \notin Outside
      BY <2>1, <3>1
    <3>3. g[m - 1] \subseteq C
      BY <3>1, <3>2
    <3>4. Touching(order, g[m - 1]) \subseteq C
      BY <3>3 DEF Whole, Touching
    <3> QED BY <2>2, <2>3, <2>5, <3>3, <3>4
  <2> QED BY <2>4, <2>5
<1> QED BY <1>1, <1>2, <1>3

\* The growth ends in time: while it goes on it takes a cell with every step, and
\* there are no more cells than steps.
LEMMA GroupWhole ==
    ASSUME NEW order, NEW cell \in Cells
    PROVE  cell \in GroupOf(order, cell) /\ Whole(order, GroupOf(order, cell))
<1> DEFINE n == Rows * Cols - 1
<1>1. PICK g : Growth(order, cell, n, g) /\ GroupOf(order, cell) = g[n]
  BY GroupGrows
<1>2. n \in Nat /\ n \in 0 .. n /\ Cells = 0 .. n
  BY SizeNat DEF Cells
<1> HIDE DEF n
<1>3. \A i \in 0 .. n : g[i] \subseteq Cells
  BY <1>1, <1>2, GrowthInside
<1>4. IsFiniteSet(Cells) /\ Cardinality(Cells) = n + 1
  BY <1>2, FS_Interval
<1> DEFINE Grown(i) == /\ cell \in g[i]
                       /\ Touching(order, g[i]) \subseteq g[i] \/ Cardinality(g[i]) >= i + 1
           Short == {i \in 0 .. n : ~Grown(i)}
<1>5. Short = {}
  <2> SUFFICES ASSUME Short # {} PROVE FALSE
    OBVIOUS
  <2>1. PICK m \in Short : \A y \in Short : m <= y
    <3>1. Short \subseteq Nat
      BY <1>2
    <3> HIDE DEF Short
    <3> QED BY <3>1, LeastNumber
  <2>2. m \in 0 .. n /\ ~Grown(m)
    BY <2>1
  <2>3. g[m] = IF m = 0 THEN {cell} ELSE g[m - 1] \cup Touching(order, g[m - 1])
    BY <2>2, <1>1 DEF Growth
  <2>4. CASE m = 0
    <3>1. Cardinality({cell}) = 1
      BY FS_Singleton
    <3> QED BY <2>2, <2>3, <2>4, <3>1
  <2>5. CASE m # 0
    <3>1. m - 1 \in 0 .. n /\ ~(m <= m - 1)
      BY <2>2, <2>5, <1>2
    <3>2. Grown(m - 1)
      BY <2>1, <3>1
    <3> DEFINE old == g[m - 1]
               new == g[m]
    <3>3. new = old \cup Touching(order, old)
      BY <2>3, <2>5
    <3>4. CASE Touching(order, old) \subseteq old
      <4>1. new = old
        BY <3>3, <3>4
      <4> QED BY <2>2, <3>2, <3>4, <4>1
    <3>5. CASE ~(Touching(order, old) \subseteq old)
      <4>1. old \subseteq new /\ old # new
        BY <3>3, <3>5
      <4>2. IsFiniteSet(new)
        BY <2>2, <1>3, <1>4, FS_Subset
      <4>3. Cardinality(old) < Cardinality(new) /\ Cardinality(old) \in Nat
            /\ Cardinality(new) \in Nat
        <5> HIDE DEF old, new
        <5>1. IsFiniteSet(old)
          BY <4>1, <4>2, FS_Subset
        <5>2. Cardinality(old) <= Cardinality(new) /\ Cardinality(old) # Cardinality(new)
          BY <4>1, <4>2, FS_Subset
        <5> QED BY <4>2, <5>1, <5>2, FS_CardinalityType
      <4>4. Cardinality(old) >= m - 1 + 1
        BY <3>2, <3>5
      <4>5. Cardinality(new) >= m + 1
        <5> HIDE DEF old, new
        <5> QED BY <4>3, <4>4, <2>2, <1>2
      <4>6. cell \in new
        BY <3>2, <4>1
      <4> QED BY <2>2, <4>5, <4>6
    <3> QED BY <3>4, <3>5
  <2> QED BY <2>4, <2>5
<1>6. Grown(n)
  BY <1>2, <1>5
<1>7. Touching(order, g[n]) \subseteq g[n]
  <2>1. CASE Touching(order, g[n]) \subseteq g[n]
    BY <2>1
  <2>2. CASE Cardinality(g[n]) >= n + 1
    <3>1. g[n] \subseteq Cells
      BY <1>2, <1>3
    <3>2. Cardinality(g[n]) <= Cardinality(Cells) /\ IsFiniteSet(g[n])
          /\ (Cardinality(g[n]) = Cardinality(Cells) => g[n] = Cells)
      BY <3>1, <1>4, FS_Subset
    <3>3. Cardinality(g[n]) \in Nat
      BY <3>2, FS_CardinalityType
    <3>4. g[n] = Cells
      BY <3>2, <3>3, <2>2, <1>4, <1>2
    <3> QED BY <3>4 DEF Touching
  <2> QED BY <1>6, <2>1, <2>2
<1> QED BY <1>1, <1>2, <1>3, <1>6, <1>7 DEF Whole

\* Each cell is in one group, whichever of its cells the search begins with: that
\* puzzleGroups passes over the cells it has seen leaves nothing out.
THEOREM GroupsPartition ==
    ASSUME NEW order, NEW a \in Cells, NEW b \in GroupOf(order, a)
    PROVE  GroupOf(order, b) = GroupOf(order, a)
<1> DEFINE A == GroupOf(order, a)
           B == GroupOf(order, b)
           C == A \ B
<1>1. a \in A /\ Whole(order, A)
  BY GroupWhole
<1>2. b \in Cells /\ b \in A
  BY <1>1 DEF Whole
<1>3. b \in B /\ Whole(order, B)
  BY <1>2, GroupWhole
<1>4. B \subseteq A
  BY <1>1, <1>2, GroupLeast
<1>5. Whole(order, C)
  <2> HIDE DEF A, B
  <2> SUFFICES ASSUME NEW x \in Touching(order, C) PROVE x \in C
    BY <1>1 DEF Whole
  <2>1. PICK y \in C : {<<y, x>>, <<x, y>>} \cap Joined(order) # {}
    BY DEF Touching
  <2>2. x \in A
    BY <1>1, <2>1 DEF Whole, Touching
  <2>3. x \notin B
    <3> SUFFICES ASSUME x \in B PROVE FALSE
      OBVIOUS
    <3>1. {<<x, y>>, <<y, x>>} \cap Joined(order) # {}
      BY <2>1
    <3>2. y \in Cells
      BY <2>1, <1>1 DEF Whole
    <3>3. y \in Touching(order, B)
      BY <3>1, <3>2 DEF Touching
    <3> QED BY <2>1, <3>3, <1>3 DEF Whole
  <2> QED BY <2>2, <2>3
<1>6. a \in B
  <2> SUFFICES ASSUME a \notin B PROVE FALSE
    OBVIOUS
  <2>1. a \in C
    BY <1>1
  <2>2. A \subseteq C
    <3> HIDE DEF C
    <3> QED BY <1>5, <2>1, GroupLeast
  <2> QED BY <1>2, <1>3, <2>2
<1>7. A \subseteq B
  BY <1>3, <1>6, GroupLeast
<1> QED BY <1>4, <1>7

\* Neighbours differ by one row or by one column, never by both.
LEMMA NeighboursApart ==
    ASSUME NEW x, NEW y
    PROVE  <<x, y>> \in Neighbours <=>
              /\ x \in Cells /\ y \in Cells
              /\ \/ Row(y) = Row(x) /\ Col(y) = Col(x) + 1
                 \/ Row(y) = Row(x) + 1 /\ Col(y) = Col(x)
<1> SUFFICES ASSUME x \in Cells, y \in Cells
             PROVE  ((y = x + 1 /\ Row(y) = Row(x)) \/ y = x + Cols)
                    <=> (\/ (Row(y) = Row(x) /\ Col(y) = Col(x) + 1)
                         \/ (Row(y) = Row(x) + 1 /\ Col(y) = Col(x)))
  BY DEF Neighbours
<1>1. /\ Row(x) \in Int /\ Col(x) \in 0 .. Cols - 1 /\ x = Row(x) * Cols + Col(x)
      /\ Row(y) \in Int /\ Col(y) \in 0 .. Cols - 1 /\ y = Row(y) * Cols + Col(y)
  BY CellParts
<1> DEFINE r == Row(x)
           s == Row(y)
           c == Col(x)
           k == Col(y)
<1>2. r \in Int /\ s \in Int /\ Cols \in Int /\ Cols >= 2 /\ c \in 0 .. Cols - 1 /\ k \in 0 .. Cols - 1
  BY <1>1, SizeNat
<1>3. x = r * Cols + c /\ y = s * Cols + k
  BY <1>1
<1> HIDE DEF r, s, c, k
<1>4. (r + 1) * Cols = r * Cols + Cols
  BY <1>2
<1>5. (y = x + 1 /\ s = r) => k = c + 1
  BY <1>2, <1>3
<1>6. (s = r /\ k = c + 1) => y = x + 1
  BY <1>2, <1>3
<1>7. (s = r + 1 /\ k = c) => y = x + Cols
  BY <1>2, <1>3, <1>4
<1>8. y = x + Cols => s = r + 1 /\ k = c
  <2> SUFFICES ASSUME y = x + Cols PROVE s = r + 1 /\ k = c
    OBVIOUS
  <2>1. (s - (r + 1)) * Cols = c - k
    BY <1>2, <1>3, <1>4
  <2>2. ~(s - (r + 1) >= 1)
    BY <2>1, <1>2
  <2>3. ~(s - (r + 1) <= -1)
    BY <2>1, <1>2
  <2>4. s = r + 1
    BY <2>2, <2>3, <1>2
  <2> QED BY <2>1, <2>4, <1>2
<1>9. ((y = x + 1 /\ s = r) \/ y = x + Cols)
      <=> ((s = r /\ k = c + 1) \/ (s = r + 1 /\ k = c))
  BY <1>5, <1>6, <1>7, <1>8
<1> QED BY <1>9 DEF r, s, c, k

\* The pieces of a group lie as far from one another as in the picture.
LEMMA GroupRigid ==
    ASSUME NEW order \in [Cells -> Cells], NEW a \in Cells, NEW x \in GroupOf(order, a)
    PROVE  /\ x \in Cells
           /\ Row(order[x]) - Row(order[a]) = Row(x) - Row(a)
           /\ Col(order[x]) - Col(order[a]) = Col(x) - Col(a)
<1> DEFINE C == {y \in Cells : /\ Row(order[y]) - Row(order[a]) = Row(y) - Row(a)
                               /\ Col(order[y]) - Col(order[a]) = Col(y) - Col(a)}
<1>1. \A y \in Cells : /\ order[y] \in Cells
                       /\ Row(y) \in Int /\ Col(y) \in Int
                       /\ Row(order[y]) \in Int /\ Col(order[y]) \in Int
  BY CellParts
<1>2. a \in C
  BY <1>1
<1>3. ASSUME NEW y \in Cells, NEW z \in Cells, <<y, z>> \in Joined(order)
      PROVE  y \in C <=> z \in C
  <2> DEFINE p == order[y]
             q == order[z]
  <2>1. <<y, z>> \in Neighbours /\ <<p, q>> \in Neighbours /\ q - p = z - y
    BY <1>3 DEF Joined
  <2>2. /\ \/ Row(z) = Row(y) /\ Col(z) = Col(y) + 1
           \/ Row(z) = Row(y) + 1 /\ Col(z) = Col(y)
        /\ \/ Row(q) = Row(p) /\ Col(q) = Col(p) + 1
           \/ Row(q) = Row(p) + 1 /\ Col(q) = Col(p)
    BY <2>1, NeighboursApart
  <2>3. /\ y = Row(y) * Cols + Col(y) /\ z = Row(z) * Cols + Col(z)
        /\ p = Row(p) * Cols + Col(p) /\ q = Row(q) * Cols + Col(q)
    BY <1>1, CellParts
  <2>4. /\ Row(y) \in Int /\ Col(y) \in Int /\ Row(z) \in Int /\ Col(z) \in Int
        /\ Row(p) \in Int /\ Col(p) \in Int /\ Row(q) \in Int /\ Col(q) \in Int
        /\ Row(a) \in Int /\ Col(a) \in Int /\ Row(order[a]) \in Int /\ Col(order[a]) \in Int
    BY <1>1
  <2>5. Row(q) - Row(p) = Row(z) - Row(y) /\ Col(q) - Col(p) = Col(z) - Col(y)
    <3> DEFINE r1 == Row(y)
               r2 == Row(p)
    <3>1. (r1 + 1) * Cols = r1 * Cols + Cols /\ (r2 + 1) * Cols = r2 * Cols + Cols
      BY <2>4, SizeNat
    <3>2. Row(z) = Row(y) => z - y = 1
      BY <2>2, <2>3, <2>4, SizeNat
    <3>3. Row(z) = Row(y) + 1 => z - y = Cols
      BY <2>2, <2>3, <2>4, <3>1, SizeNat
    <3>4. Row(q) = Row(p) => q - p = 1
      BY <2>2, <2>3, <2>4, SizeNat
    <3>5. Row(q) = Row(p) + 1 => q - p = Cols
      BY <2>2, <2>3, <2>4, <3>1, SizeNat
    <3>6. Row(q) = Row(p) <=> Row(z) = Row(y)
      BY <2>1, <2>2, <2>4, <3>2, <3>3, <3>4, <3>5, SizeNat
    <3> QED BY <2>2, <2>4, <3>6
  <2> QED BY <2>4, <2>5
<1>4. Whole(order, C)
  <2> SUFFICES ASSUME NEW z \in Touching(order, C) PROVE z \in C
    BY DEF Whole
  <2>1. PICK y \in C : {<<y, z>>, <<z, y>>} \cap Joined(order) # {}
    BY DEF Touching
  <2>2. y \in Cells /\ z \in Cells
    BY DEF Touching
  <2> QED BY <2>1, <2>2, <1>3
<1>5. GroupOf(order, a) \subseteq C
  <2> HIDE DEF C
  <2> QED BY <1>2, <1>4, GroupLeast
<1> QED BY <1>5

\* When all pieces are one group the picture is put together.
THEOREM OneGroupIsSolved ==
    ASSUME NEW order \in Orders, NEW a \in Cells, GroupOf(order, a) = Cells
    PROVE  Solved(order)
<1> DEFINE n == Rows * Cols - 1
<1>1. order \in [Cells -> Cells]
  BY DEF Orders
<1>2. n \in Nat /\ Cells = 0 .. n
  BY SizeNat DEF Cells
<1> HIDE DEF n
<1>3. \A x \in Cells : /\ order[x] \in Cells
                       /\ Row(x) \in Int /\ Col(x) \in Int /\ x = Row(x) * Cols + Col(x)
                       /\ Row(order[x]) \in Int /\ Col(order[x]) \in Int
                       /\ order[x] = Row(order[x]) * Cols + Col(order[x])
  BY <1>1, CellParts
<1>4. ASSUME NEW x \in Cells PROVE order[x] - x = order[a] - a
  <2>1. /\ Row(order[x]) - Row(order[a]) = Row(x) - Row(a)
        /\ Col(order[x]) - Col(order[a]) = Col(x) - Col(a)
    BY <1>1, GroupRigid
  <2>2. /\ order[x] \in Cells /\ Row(x) \in Int /\ Col(x) \in Int
        /\ x = Row(x) * Cols + Col(x)
        /\ Row(order[x]) \in Int /\ Col(order[x]) \in Int
        /\ order[x] = Row(order[x]) * Cols + Col(order[x])
        /\ order[a] \in Cells /\ Row(a) \in Int /\ Col(a) \in Int
        /\ a = Row(a) * Cols + Col(a)
        /\ Row(order[a]) \in Int /\ Col(order[a]) \in Int
        /\ order[a] = Row(order[a]) * Cols + Col(order[a])
    BY <1>3
  <2> DEFINE r == Row(order[x]) - Row(order[a])
  <2>3. r = Row(order[x]) - Row(order[a]) /\ r = Row(x) - Row(a) /\ r \in Int
    BY <2>1, <2>2
  <2> HIDE DEF r
  <2>4. Row(order[x]) = Row(order[a]) + r /\ Row(x) = Row(a) + r
    BY <2>2, <2>3
  <2>5. /\ (Row(order[a]) + r) * Cols = Row(order[a]) * Cols + r * Cols
        /\ (Row(a) + r) * Cols = Row(a) * Cols + r * Cols
        /\ Row(order[a]) * Cols \in Int /\ Row(a) * Cols \in Int /\ r * Cols \in Int
    BY <2>2, <2>3, SizeNat
  <2>6. /\ order[x] = Row(order[a]) * Cols + r * Cols + Col(order[x])
        /\ x = Row(a) * Cols + r * Cols + Col(x)
    BY <2>2, <2>4, <2>5
  <2> QED BY <2>1, <2>2, <2>5, <2>6
<1>5. 0 \in Cells /\ n \in Cells
  BY <1>2
<1>6. order[0] - 0 = order[a] - a /\ order[n] - n = order[a] - a
  BY <1>4, <1>5
<1>7. order[a] - a \in Int /\ order[0] \in 0 .. n /\ order[n] \in 0 .. n
  BY <1>2, <1>3, <1>5
<1>8. order[a] - a = 0
  BY <1>2, <1>6, <1>7
<1>9. ASSUME NEW x \in Cells PROVE order[x] = x
  <2>1. order[x] - x = 0
    BY <1>4, <1>8
  <2>2. order[x] \in Cells
    BY <1>1
  <2>3. order[x] \in Int /\ x \in Int
    BY <1>2, <2>2
  <2> QED BY <2>1, <2>3
<1> QED BY <1>9 DEF Solved

\* Every piece of an order lies somewhere, and in one place.
LEMMA PieceLies ==
    ASSUME NEW order \in Orders, NEW piece \in Cells
    PROVE  \E x \in Cells : order[x] = piece
<1>1. order \in [Cells -> Cells] /\ \A a, b \in Cells : order[a] = order[b] => a = b
  BY DEF Orders, IsInjective
<1>2. order \in Injection(Cells, Cells)
  BY <1>1 DEF Injection, IsInjective
<1>3. IsFiniteSet(Cells)
  BY SizeNat, FS_Interval DEF Cells
<1>4. order \in Surjection(Cells, Cells)
  BY <1>2, <1>3, FS_Injection
<1> QED BY <1>4 DEF Surjection

LEMMA JoinedPieces ==
    ASSUME NEW order, NEW a, NEW b, <<a, b>> \in Joined(order)
    PROVE  <<order[a], order[b]>> \in Pieces(order)
<1> DEFINE spot == <<a, b>>
<1>1. <<order[spot[1]], order[spot[2]]>> \in Pieces(order)
  <2> HIDE DEF spot
  <2>1. spot \in Joined(order)
    BY DEF spot
  <2> QED BY <2>1 DEF Pieces
<1> QED BY <1>1

\* breaksAssembledGroup as it is coded: two pieces of one group lie in different
\* groups afterwards.
Separates(order, next) ==
    \E a, x, y \in Cells : \E b \in GroupOf(order, a) :
        /\ next[x] = order[a]
        /\ next[y] = order[b]
        /\ GroupOf(next, x) # GroupOf(next, y)

\* Breaks, which looks at the pairs side by side alone, is what the code computes
\* from the groups.
THEOREM BreaksAsCoded ==
    ASSUME NEW order \in Orders, NEW next \in Orders
    PROVE  Breaks(order, next) <=> Separates(order, next)
<1>1. /\ order \in [Cells -> Cells] /\ \A a, b \in Cells : order[a] = order[b] => a = b
      /\ next \in [Cells -> Cells] /\ \A a, b \in Cells : next[a] = next[b] => a = b
  BY DEF Orders, IsInjective
<1>2. ASSUME Pieces(order) \subseteq Pieces(next),
             NEW a \in Cells, NEW x \in Cells, NEW y \in Cells, NEW b \in GroupOf(order, a),
             next[x] = order[a], next[y] = order[b]
      PROVE  GroupOf(next, x) = GroupOf(next, y)
  <2> DEFINE G == GroupOf(next, x)
             C == {c \in Cells : \E z \in G : next[z] = order[c]}
  <2>1. x \in G /\ Whole(next, G)
    BY GroupWhole
  <2> HIDE DEF G
  <2>2. a \in C
    BY <1>2, <2>1
  <2>3. Whole(order, C)
    <3> SUFFICES ASSUME NEW c \in C, NEW e \in Cells,
                        <<c, e>> \in Joined(order) \/ <<e, c>> \in Joined(order)
                 PROVE  e \in C
      BY DEF Whole, Touching
    <3>1. PICK z \in G : next[z] = order[c]
      OBVIOUS
    <3>2. z \in Cells
      BY <2>1 DEF Whole
    <3>3. ASSUME <<c, e>> \in Joined(order) PROVE e \in C
      <4>1. <<order[c], order[e]>> \in Pieces(next)
        BY <1>2, <3>3, JoinedPieces
      <4>2. PICK pair \in Joined(next) : next[pair[1]] = order[c] /\ next[pair[2]] = order[e]
        BY <4>1 DEF Pieces
      <4>3. pair \in Cells \X Cells
        BY DEF Joined, Neighbours
      <4>4. pair[1] = z /\ pair = <<pair[1], pair[2]>> /\ pair[2] \in Cells
        BY <1>1, <3>1, <3>2, <4>2, <4>3
      <4>5. pair[2] \in Touching(next, G)
        BY <4>2, <4>4, <3>1 DEF Touching
      <4>6. pair[2] \in G
        BY <4>5, <2>1 DEF Whole
      <4> QED BY <4>2, <4>6
    <3>4. ASSUME <<e, c>> \in Joined(order) PROVE e \in C
      <4>1. <<order[e], order[c]>> \in Pieces(next)
        BY <1>2, <3>4, JoinedPieces
      <4>2. PICK pair \in Joined(next) : next[pair[1]] = order[e] /\ next[pair[2]] = order[c]
        BY <4>1 DEF Pieces
      <4>3. pair \in Cells \X Cells
        BY DEF Joined, Neighbours
      <4>4. pair[2] = z /\ pair = <<pair[1], pair[2]>> /\ pair[1] \in Cells
        BY <1>1, <3>1, <3>2, <4>2, <4>3
      <4>5. pair[1] \in Touching(next, G)
        BY <4>2, <4>4, <3>1 DEF Touching
      <4>6. pair[1] \in G
        BY <4>5, <2>1 DEF Whole
      <4> QED BY <4>2, <4>6
    <3> QED BY <3>3, <3>4
  <2>4. b \in C
    <3> HIDE DEF C
    <3>1. GroupOf(order, a) \subseteq C
      BY <2>2, <2>3, GroupLeast
    <3> QED BY <3>1
  <2>5. PICK z \in G : next[z] = order[b]
    BY <2>4
  <2>6. z \in Cells
    BY <2>1 DEF Whole
  <2>7. z = y
    BY <1>1, <1>2, <2>5, <2>6
  <2>8. y \in GroupOf(next, x)
    BY <2>5, <2>7 DEF G
  <2> QED BY <2>8, GroupsPartition
<1>3. ASSUME ~Separates(order, next), NEW pair \in Joined(order)
      PROVE  <<order[pair[1]], order[pair[2]]>> \in Pieces(next)
  <2> DEFINE a == pair[1]
             b == pair[2]
             p == order[a]
             q == order[b]
  <2>1. /\ pair = <<a, b>> /\ a \in Cells /\ b \in Cells
        /\ <<a, b>> \in Neighbours /\ <<p, q>> \in Neighbours /\ q - p = b - a
    BY DEF Joined, Neighbours
  <2>2. b \in GroupOf(order, a)
    <3>1. a \in GroupOf(order, a) /\ Whole(order, GroupOf(order, a))
      BY <2>1, GroupWhole
    <3>2. b \in Touching(order, GroupOf(order, a))
      BY <2>1, <3>1 DEF Touching
    <3> QED BY <3>1, <3>2 DEF Whole
  <2>3. p \in Cells /\ q \in Cells
    BY <1>1, <2>1
  <2> HIDE DEF a, b
  <2>4. PICK x \in Cells : next[x] = p
    BY <2>3, PieceLies
  <2>5. PICK y \in Cells : next[y] = q
    BY <2>3, PieceLies
  <2>6. GroupOf(next, x) = GroupOf(next, y)
    BY <1>3, <2>1, <2>2, <2>4, <2>5 DEF Separates
  <2>7. y \in GroupOf(next, x)
    BY <2>5, <2>6, GroupWhole
  <2>8. /\ Row(next[y]) - Row(next[x]) = Row(y) - Row(x)
        /\ Col(next[y]) - Col(next[x]) = Col(y) - Col(x)
    BY <1>1, <2>4, <2>7, GroupRigid
  <2> HIDE DEF p, q
  <2>9. /\ p \in Cells /\ q \in Cells
        /\ \/ Row(q) = Row(p) /\ Col(q) = Col(p) + 1
           \/ Row(q) = Row(p) + 1 /\ Col(q) = Col(p)
    BY <2>1, NeighboursApart
  <2>10. /\ Row(p) \in Int /\ Col(p) \in Int /\ Row(q) \in Int /\ Col(q) \in Int
         /\ Row(x) \in Int /\ Col(x) \in Int /\ Row(y) \in Int /\ Col(y) \in Int
         /\ p = Row(p) * Cols + Col(p) /\ q = Row(q) * Cols + Col(q)
         /\ x = Row(x) * Cols + Col(x) /\ y = Row(y) * Cols + Col(y)
    BY <2>9, CellParts
  <2>11. Row(q) - Row(p) = Row(y) - Row(x) /\ Col(q) - Col(p) = Col(y) - Col(x)
    BY <2>4, <2>5, <2>8
  <2>12. \/ Row(y) = Row(x) /\ Col(y) = Col(x) + 1
         \/ Row(y) = Row(x) + 1 /\ Col(y) = Col(x)
    BY <2>9, <2>10, <2>11
  <2>13. <<x, y>> \in Neighbours
    BY <2>12, NeighboursApart
  <2>14. q - p = y - x
    <3>1. /\ (Row(p) + 1) * Cols = Row(p) * Cols + Cols
          /\ (Row(x) + 1) * Cols = Row(x) * Cols + Cols
      BY <2>10, SizeNat
    <3>2. CASE Row(y) = Row(x)
      <4>1. Row(q) = Row(p)
        BY <3>2, <2>10, <2>11
      <4>2. Col(q) = Col(p) + 1 /\ Col(y) = Col(x) + 1
        BY <3>2, <4>1, <2>9, <2>10, <2>12
      <4> QED BY <3>2, <4>1, <4>2, <2>10, SizeNat
    <3>3. CASE Row(y) = Row(x) + 1
      <4>1. Row(q) = Row(p) + 1
        BY <3>3, <2>10, <2>11
      <4>2. Col(q) = Col(p) /\ Col(y) = Col(x)
        BY <3>3, <4>1, <2>9, <2>10, <2>12
      <4> QED BY <3>1, <3>3, <4>1, <4>2, <2>10, SizeNat
    <3> QED BY <2>12, <3>2, <3>3
  <2>15. <<x, y>> \in Joined(next)
    BY <2>1, <2>4, <2>5, <2>13, <2>14 DEF Joined
  <2>16. <<p, q>> \in Pieces(next)
    BY <2>4, <2>5, <2>15, JoinedPieces
  <2> QED BY <2>16 DEF p, q, a, b
<1>4. Separates(order, next) => Breaks(order, next)
  BY <1>2 DEF Separates, Breaks
<1>5. Breaks(order, next) => Separates(order, next)
  BY <1>3 DEF Breaks, Pieces
<1> QED BY <1>4, <1>5

\* A piece that belongs to none of those beside it is a group of its own ...
Loose(order, c) == \A pair \in Joined(order) : c \notin {pair[1], pair[2]}

LEMMA LooseIsItsGroup ==
    ASSUME NEW order, NEW c \in Cells, Loose(order, c)
    PROVE  GroupOf(order, c) = {c}
<1>1. Whole(order, {c})
  BY DEF Whole, Touching, Loose
<1>2. GroupOf(order, c) \subseteq {c}
  BY <1>1, GroupLeast
<1> QED BY <1>2, GroupWhole

\* ... and two of them can change places: the player of a board with two loose
\* pieces always has a move.
THEOREM TwoLoosePiecesMove ==
    ASSUME NEW order \in Orders, NEW s \in Cells, NEW t \in Cells, s # t,
           Loose(order, s), Loose(order, t)
    PROVE  Moves(order) # {}
<1> DEFINE d == t - s
           next == Shifted(order, {s}, d)
           dr == Row(t) - Row(s)
           dc == Col(t) - Col(s)
<1>1. s \in Int /\ t \in Int /\ d \in Int /\ d # 0 /\ s + d = t /\ t - d = s /\ t - 1 * d = s
  BY DEF Cells
<1>2. GroupOf(order, s) = {s}
  BY LooseIsItsGroup
<1>3. {c + d : c \in {s}} = {t}
  BY <1>1
<1>4. Landing(t, {t}, d) = s
  <2>1. PICK k \in 1 .. Rows * Cols :
              /\ Landing(t, {t}, d) = t - k * d
              /\ \A j \in 1 .. k - 1 : t - j * d \in {t}
    BY <1>1, LandingSpot
  <2>2. k = 1
    <3> SUFFICES ASSUME k # 1 PROVE FALSE
      OBVIOUS
    <3>1. 1 \in 1 .. k - 1
      BY <2>1, SizeNat
    <3>2. t - 1 * d = t
      BY <2>1, <3>1
    <3> QED BY <1>1, <3>2
  <2> QED BY <2>1, <2>2, <1>1
<1>5. next = [c \in Cells |-> IF c = t THEN order[s] ELSE IF c = s THEN order[t] ELSE order[c]]
  <2>1. next = [c \in Cells |->
            IF c \in {t} THEN order[c - d]
            ELSE IF \E p \in {t} : Landing(p, {t}, d) = c
                 THEN order[CHOOSE p \in {t} : Landing(p, {t}, d) = c]
                 ELSE order[c]]
    <3>1. {t} \ {s} = {t}
      OBVIOUS
    <3> QED BY <1>3, <3>1 DEF Shifted
  <2> HIDE DEF next, d
  <2> QED BY <1>1, <1>4, <2>1
<1> HIDE DEF next
<1>6. Pieces(order) \subseteq Pieces(next)
  <2> SUFFICES ASSUME NEW pair \in Joined(order)
               PROVE  <<order[pair[1]], order[pair[2]]>> \in Pieces(next)
    BY DEF Pieces
  <2>1. /\ pair[1] \in Cells \ {s, t} /\ pair[2] \in Cells \ {s, t}
    BY DEF Loose, Joined, Neighbours
  <2>2. next[pair[1]] = order[pair[1]] /\ next[pair[2]] = order[pair[2]]
    BY <2>1, <1>5
  <2>3. pair \in Joined(next)
    BY <2>2 DEF Joined
  <2> QED BY <2>2, <2>3 DEF Pieces
<1>7. \A c \in {s} : Row(c) + dr \in 0 .. Rows - 1 /\ Col(c) + dc \in 0 .. Cols - 1
  <2>1. Row(s) \in Int /\ Col(s) \in Int /\ Row(t) \in 0 .. Rows - 1 /\ Col(t) \in 0 .. Cols - 1
    BY CellParts
  <2>2. Row(s) + dr = Row(t) /\ Col(s) + dc = Col(t)
    BY <2>1, SizeNat
  <2> QED BY <2>1, <2>2
<1>8. Move(order, s, t) = next
  BY <1>2, <1>6, <1>7 DEF Move, Breaks, next
<1>9. next # NoMove
  <2>1. next \in Orders
    <3>1. {c + d : c \in {s}} \subseteq Cells
      BY <1>3
    <3> HIDE DEF d
    <3> QED BY <1>1, <3>1, ShiftRearranges DEF next
  <2> QED BY <2>1, NoMoveAssumption
<1> QED BY <1>8, <1>9 DEF Moves

-----------------------------------------------------------------------------
(* Sequences                                                               *)

\* The sequence without its i-th element.
LEMMA Removed ==
    ASSUME NEW S, NEW s \in Seq(S), NEW i \in DOMAIN s
    PROVE  /\ RemoveAt(s, i) \in Seq(S)
           /\ Len(RemoveAt(s, i)) = Len(s) - 1
           /\ \A j \in DOMAIN RemoveAt(s, i) :
                LET k == IF j < i THEN j ELSE j + 1
                IN  k \in DOMAIN s /\ k # i /\ RemoveAt(s, i)[j] = s[k]
<1>1. i \in 1 .. Len(s) /\ Len(s) \in Nat /\ DOMAIN s = 1 .. Len(s)
  BY LenProperties
<1> DEFINE p == SubSeq(s, 1, i - 1)
           q == SubSeq(s, i + 1, Len(s))
<1>2. /\ p \in Seq(S) /\ Len(p) = i - 1
      /\ \A j \in 1 .. (i - 1) : p[j] = s[j]
  BY <1>1, SubSeqProperties
<1>3. /\ q \in Seq(S) /\ Len(q) = Len(s) - i
      /\ \A j \in 1 .. Len(s) - i : q[j] = s[j + i]
  BY <1>1, SubSeqProperties
<1> HIDE DEF p, q
<1>4. /\ p \o q \in Seq(S) /\ Len(p \o q) = Len(s) - 1
      /\ \A j \in 1 .. Len(s) - 1 :
            (p \o q)[j] = IF j <= i - 1 THEN p[j] ELSE q[j - (i - 1)]
  <2>1. /\ p \o q \in Seq(S) /\ Len(p \o q) = Len(p) + Len(q)
        /\ \A j \in 1 .. Len(p) + Len(q) :
              (p \o q)[j] = IF j <= Len(p) THEN p[j] ELSE q[j - Len(p)]
    BY <1>2, <1>3, ConcatProperties
  <2>2. Len(p) + Len(q) = Len(s) - 1 /\ Len(p) = i - 1
    BY <1>1, <1>2, <1>3
  <2> QED BY <2>1, <2>2
<1>5. RemoveAt(s, i) = p \o q
  BY DEF RemoveAt, p, q
<1>6. DOMAIN (p \o q) = 1 .. Len(s) - 1
  BY <1>4, LenProperties
<1>7. \A j \in 1 .. Len(s) - 1 :
        LET k == IF j < i THEN j ELSE j + 1
        IN  k \in DOMAIN s /\ k # i /\ (p \o q)[j] = s[k]
  <2> SUFFICES ASSUME NEW j \in 1 .. Len(s) - 1
               PROVE  LET k == IF j < i THEN j ELSE j + 1
                      IN  k \in DOMAIN s /\ k # i /\ (p \o q)[j] = s[k]
    OBVIOUS
  <2>1. CASE j < i
    BY <2>1, <1>1, <1>2, <1>4
  <2>2. CASE ~(j < i)
    <3>1. (p \o q)[j] = q[j - (i - 1)] /\ j - (i - 1) \in 1 .. Len(s) - i
      BY <2>2, <1>1, <1>4
    <3>2. q[j - (i - 1)] = s[j + 1]
      BY <3>1, <1>1, <1>3
    <3> QED BY <3>1, <3>2, <2>2, <1>1
  <2> QED BY <2>1, <2>2
<1> QED BY <1>4, <1>5, <1>6, <1>7

LEMMA LastItem ==
    ASSUME NEW S, NEW s \in Seq(S), NEW e \in S
    PROVE  /\ Append(s, e) \in Seq(S)
           /\ Len(Append(s, e)) = Len(s) + 1
           /\ DOMAIN Append(s, e) = DOMAIN s \cup {Len(s) + 1}
           /\ \A i \in DOMAIN s : Append(s, e)[i] = s[i]
           /\ Append(s, e)[Len(s) + 1] = e
           /\ Len(s) + 1 \notin DOMAIN s
  BY AppendProperties, LenProperties

LEMMA CountTo ==
    ASSUME NEW k \in Nat
    PROVE  IsFiniteSet(1 .. k) /\ Cardinality(1 .. k) = k
<1>1. IsFiniteSet(1 .. k) /\ Cardinality(1 .. k) = IF 1 > k THEN 0 ELSE k - 1 + 1
  BY FS_Interval
<1> QED BY <1>1

\* A list of items that is shorter than the right order is not all of them.
LEMMA ShortIsOpen ==
    ASSUME NEW p \in Seq(Items), NEW n \in Nodes, Kind[n] = "sequence",
           Len(p) < Len(Answer[n])
    PROVE  Range(Answer[n]) # Range(p)
<1> DEFINE a == Answer[n]
           S == 1 .. Len(a)
           T == 1 .. Len(p)
           f == [i \in S |-> CHOOSE j \in T : p[j] = a[i]]
<1>1. /\ a \in Seq(Range(a))
      /\ \A i, j \in DOMAIN a : a[i] = a[j] => i = j
  BY StoryAssumption DEF ValidStory, IsInjective
<1>2. DOMAIN a = S /\ Len(a) \in Nat /\ DOMAIN p = T /\ Len(p) \in Nat
  BY <1>1, LenProperties
<1> SUFFICES ASSUME Range(a) = Range(p) PROVE FALSE
  OBVIOUS
<1>3. \A i \in S : \E j \in T : p[j] = a[i]
  BY <1>2 DEF Range
<1>4. \A i \in S : f[i] \in T /\ p[f[i]] = a[i]
  BY <1>3
<1>5. f \in [S -> T]
  BY <1>4
<1>6. /\ IsFiniteSet(S) /\ IsFiniteSet(T)
      /\ Cardinality(S) = Len(a) /\ Cardinality(T) = Len(p)
  <2> HIDE DEF a
  <2> QED BY <1>2, CountTo
<1>7. Cardinality(T) < Cardinality(S)
  BY <1>6
<1> HIDE DEF a, S, T, f
<1>8. PICK x \in S, y \in S : x # y /\ f[x] = f[y]
  BY <1>5, <1>6, <1>7, FS_PigeonHole
<1> QED BY <1>1, <1>2, <1>4, <1>8

-----------------------------------------------------------------------------
(* The story                                                               *)

Grows(s, t) ==
    /\ s.completed => t.completed
    /\ \A n \in Nodes : s.spots[n] \subseteq t.spots[n]

Beyond(n) == CHOOSE beyond \in SUBSET Nodes :
                NextNode[n] \in beyond /\ n \notin beyond /\ Closed(beyond)

\* An ending is known, and a sequence that is solved lies behind the player.
EndKnown(s) == Kind[s.node] = "ending" => s.completed
SequencesOpen(s) ==
    \A n \in Nodes : Kind[n] = "sequence" =>
        Len(s.picked[n]) < Len(Answer[n]) \/ s.node \in Beyond(n)
Sound(s) == EndKnown(s) /\ (SequencesOnce => SequencesOpen(s))

\* How a story goes on
Advances(s, t) == t \in Story /\ Sound(t) /\ Grows(s, t)

LEMMA GrowsOn ==
    ASSUME NEW s, NEW t, NEW u, Grows(s, t), Grows(t, u)
    PROVE  Grows(s, u)
  BY DEF Grows

LEMMA GrowsSelf == \A s : Grows(s, s)
  BY DEF Grows

LEMMA BeyondFits ==
    ASSUME SequencesOnce, NEW n \in Nodes, Kind[n] = "sequence"
    PROVE  /\ Beyond(n) \in SUBSET Nodes /\ NextNode[n] \in Beyond(n)
           /\ n \notin Beyond(n) /\ Closed(Beyond(n))
  BY DEF SequencesOnce, Beyond

LEMMA EnterFields ==
    ASSUME NEW s \in Story, NEW n \in Nodes
    PROVE  /\ Enter(s, n) \in Story
           /\ Enter(s, n).node = n
           /\ Enter(s, n).spots = s.spots
           /\ Enter(s, n).picked = s.picked
           /\ Enter(s, n).completed = (s.completed \/ Kind[n] = "ending")
  BY DEF Enter, Story

LEMMA PickedFields ==
    ASSUME NEW s \in Story, NEW p \in Seq(Items)
    PROVE  LET t == [s EXCEPT !.picked[s.node] = p]
           IN  /\ t \in Story
               /\ t.node = s.node /\ t.spots = s.spots /\ t.completed = s.completed
               /\ t.picked[s.node] = p
               /\ \A m \in Nodes \ {s.node} : t.picked[m] = s.picked[m]
  BY DEF Story

LEMMA SpotFields ==
    ASSUME NEW s \in Story, NEW spot \in UNION Range(Spots)
    PROVE  LET t == FindHotspot(s, spot)
           IN  /\ t \in Story
               /\ t.node = s.node /\ t.picked = s.picked /\ t.completed = s.completed
               /\ \A m \in Nodes : s.spots[m] \subseteq t.spots[m]
  BY DEF Story, FindHotspot

LEMMA BoardFields ==
    ASSUME NEW s \in Story, NEW b \in Orders \cup {None}
    PROVE  LET t == [s EXCEPT !.board[s.node] = b]
           IN  /\ t \in Story
               /\ t.node = s.node /\ t.picked = s.picked /\ t.completed = s.completed
               /\ t.spots = s.spots
  BY DEF Story

\* A step to a node that the present one leads to
LEMMA EnterAdvances ==
    ASSUME NEW s \in Story, Sound(s), NEW n \in Nodes,
           n \in Options[s.node] \cup {NextNode[s.node]}
    PROVE  Advances(s, Enter(s, n))
<1>1. s.node \in Nodes /\ s.completed \in BOOLEAN
  BY DEF Story
<1>2. Grows(s, Enter(s, n)) /\ EndKnown(Enter(s, n))
  BY EnterFields DEF Grows, EndKnown
<1>3. ASSUME SequencesOnce PROVE SequencesOpen(Enter(s, n))
  <2> SUFFICES ASSUME NEW m \in Nodes, Kind[m] = "sequence"
               PROVE  \/ Len(Enter(s, n).picked[m]) < Len(Answer[m])
                      \/ Enter(s, n).node \in Beyond(m)
    BY DEF SequencesOpen
  <2>1. CASE Len(s.picked[m]) < Len(Answer[m])
    BY <2>1, EnterFields
  <2>2. CASE s.node \in Beyond(m)
    <3>1. n \in Beyond(m) \cup {None}
      BY <1>3, <2>2, BeyondFits DEF Closed
    <3> QED BY <3>1, NoneAssumption, EnterFields
  <2> QED BY <1>3, <2>1, <2>2 DEF Sound, SequencesOpen
<1> QED BY <1>2, <1>3, EnterFields DEF Advances, Sound

\* Hotspots and boards change nothing else.
LEMMA SpotAdvances ==
    ASSUME NEW s \in Story, Sound(s), NEW spot \in UNION Range(Spots)
    PROVE  Advances(s, FindHotspot(s, spot)) /\ FindHotspot(s, spot).node = s.node
<1> DEFINE t == FindHotspot(s, spot)
<1>1. /\ t \in Story
      /\ t.node = s.node /\ t.picked = s.picked /\ t.completed = s.completed
      /\ \A m \in Nodes : s.spots[m] \subseteq t.spots[m]
  BY SpotFields
<1> HIDE DEF t
<1>2. Advances(s, t) /\ t.node = s.node
  BY <1>1 DEF Advances, Sound, EndKnown, SequencesOpen, Grows
<1> QED BY <1>2 DEF t

LEMMA BoardAdvances ==
    ASSUME NEW s \in Story, Sound(s), NEW b \in Orders \cup {None}
    PROVE  LET t == [s EXCEPT !.board[s.node] = b]
           IN  Advances(s, t) /\ t.node = s.node
<1> DEFINE t == [s EXCEPT !.board[s.node] = b]
<1>1. /\ t \in Story
      /\ t.node = s.node /\ t.picked = s.picked /\ t.completed = s.completed
      /\ t.spots = s.spots
  BY BoardFields
<1> HIDE DEF t
<1>2. Advances(s, t) /\ t.node = s.node
  BY <1>1 DEF Advances, Sound, EndKnown, SequencesOpen, Grows
<1> QED BY <1>2 DEF t

LEMMA PuzzleAdvances ==
    ASSUME NEW s \in Story, Sound(s)
    PROVE  Advances(s, CompletePuzzle(s))
<1>1. CASE Kind[s.node] # "puzzle"
  BY <1>1, GrowsSelf DEF CompletePuzzle, Advances
<1>2. CASE Kind[s.node] = "puzzle"
  <2> DEFINE t == [s EXCEPT !.board[s.node] = None]
  <2>1. Advances(s, t) /\ t.node = s.node
    BY BoardAdvances
  <2>2. CompletePuzzle(s) = Enter(t, NextNode[s.node])
    BY <1>2 DEF CompletePuzzle
  <2>3. s.node \in Nodes /\ NextNode[s.node] \in Nodes
    BY <1>2, StoryAssumption DEF Story, ValidStory
  <2> HIDE DEF t
  <2>4. Advances(t, Enter(t, NextNode[s.node]))
    BY <2>1, <2>3, EnterAdvances DEF Advances
  <2> QED BY <2>1, <2>2, <2>4, GrowsOn DEF Advances
<1> QED BY <1>1, <1>2

\* A sequence stays open unless it leads on, and then it lies behind.
LEMMA SequenceAdvances ==
    ASSUME NEW s \in Story, Sound(s), Kind[s.node] = "sequence", NEW item \in Items
    PROVE  Advances(s, SelectSequence(s, item))
<1> DEFINE n == s.node
           p == Append(s.picked[n], item)
           t == [s EXCEPT !.picked[n] = p]
           e == [s EXCEPT !.picked[n] = <<>>]
           a == Answer[n]
<1>1. /\ n \in Nodes /\ s.picked[n] \in Seq(Items) /\ s.completed \in BOOLEAN
      /\ NextNode[n] \in Nodes
      /\ a \in Seq(Range(a)) /\ a # <<>>
  BY StoryAssumption DEF Story, ValidStory
<1>2. /\ p \in Seq(Items) /\ Len(p) = Len(s.picked[n]) + 1
      /\ Len(s.picked[n]) \in Nat /\ Len(a) \in Nat \ {0}
  BY <1>1, AppendProperties, LenProperties, EmptySeq
<1>3. /\ t \in Story
      /\ t.node = n /\ t.spots = s.spots /\ t.completed = s.completed
      /\ t.picked[n] = p
      /\ \A m \in Nodes \ {n} : t.picked[m] = s.picked[m]
  BY <1>2, PickedFields
<1>4. /\ e \in Story
      /\ e.node = n /\ e.spots = s.spots /\ e.completed = s.completed
      /\ e.picked[n] = <<>>
      /\ \A m \in Nodes \ {n} : e.picked[m] = s.picked[m]
  <2>1. <<>> \in Seq(Items)
    BY EmptySeq
  <2> HIDE DEF p, t, a
  <2> QED BY <2>1, PickedFields
<1>5. SelectSequence(s, item) = IF Len(p) < Len(a) THEN t
                                ELSE IF p = a THEN Enter(t, NextNode[n]) ELSE e
  BY DEF SelectSequence
<1> HIDE DEF p, t, e, n, a
<1>6. n = s.node /\ a = Answer[n] /\ Kind[n] = "sequence"
  BY DEF n, a
<1>7. CASE Len(p) < Len(a)
  <2>1. SequencesOnce => SequencesOpen(t)
    BY <1>3, <1>6, <1>7 DEF Sound, SequencesOpen
  <2>2. EndKnown(t) /\ Grows(s, t)
    BY <1>3, <1>6 DEF EndKnown, Grows
  <2> QED BY <1>3, <1>5, <1>7, <2>1, <2>2 DEF Advances, Sound
<1>8. CASE ~(Len(p) < Len(a)) /\ p # a
  <2>1. SequencesOnce => SequencesOpen(e)
    <3>1. Len(<<>>) = 0
      BY EmptySeq
    <3> QED BY <1>2, <1>4, <1>6, <3>1 DEF Sound, SequencesOpen
  <2>2. EndKnown(e) /\ Grows(s, e)
    BY <1>4, <1>6 DEF EndKnown, Grows
  <2> QED BY <1>4, <1>5, <1>8, <2>1, <2>2 DEF Advances, Sound
<1>9. CASE ~(Len(p) < Len(a)) /\ p = a
  <2> DEFINE u == Enter(t, NextNode[n])
  <2>1. /\ u \in Story /\ u.node = NextNode[n] /\ u.spots = s.spots
        /\ u.picked = t.picked
        /\ u.completed = (s.completed \/ Kind[NextNode[n]] = "ending")
    BY <1>1, <1>3, EnterFields
  <2> HIDE DEF u
  <2>2. EndKnown(u) /\ Grows(s, u)
    BY <2>1 DEF EndKnown, Grows
  <2>3. ASSUME SequencesOnce PROVE SequencesOpen(u)
    <3> SUFFICES ASSUME NEW m \in Nodes, Kind[m] = "sequence"
                 PROVE  Len(u.picked[m]) < Len(Answer[m]) \/ u.node \in Beyond(m)
      BY DEF SequencesOpen
    <3>1. CASE m = n
      BY <3>1, <2>1, <2>3, BeyondFits
    <3>2. CASE m # n /\ Len(s.picked[m]) < Len(Answer[m])
      BY <3>2, <1>3, <2>1
    <3>3. CASE s.node \in Beyond(m)
      <4>1. NextNode[n] \in Beyond(m) \cup {None}
        BY <1>6, <2>3, <3>3, BeyondFits DEF Closed
      <4> QED BY <4>1, <1>1, <2>1, NoneAssumption
    <3> QED BY <2>3, <3>1, <3>2, <3>3 DEF Sound, SequencesOpen
  <2>4. SelectSequence(s, item) = u
    BY <1>5, <1>9 DEF u
  <2> QED BY <2>1, <2>2, <2>3, <2>4 DEF Advances, Sound
<1> QED BY <1>7, <1>8, <1>9

LEMMA BegunSound == Begun \in Story /\ Sound(Begun)
<1>1. Begun \in Story
  BY StoryAssumption, EmptySeq DEF Begun, Story, ValidStory
<1>2. EndKnown(Begun)
  BY DEF Begun, EndKnown
<1>3. SequencesOpen(Begun)
  <2> SUFFICES ASSUME NEW n \in Nodes, Kind[n] = "sequence"
               PROVE  Len(Begun.picked[n]) < Len(Answer[n])
    BY DEF SequencesOpen
  <2>1. Answer[n] \in Seq(Range(Answer[n])) /\ Answer[n] # <<>>
    BY StoryAssumption DEF ValidStory
  <2>2. Begun.picked[n] = <<>>
    BY DEF Begun
  <2> QED BY <2>1, <2>2, EmptySeq, LenProperties
<1> QED BY <1>1, <1>2, <1>3 DEF Sound

-----------------------------------------------------------------------------
(* The screen and what is saved of it                                      *)

Ready == game = None => /\ scene = "other"
                        /\ loads = <<>> /\ timers = <<>> /\ answers = <<>>

\* The attempt of the game on the screen is the one that is saved, and its story
\* has at most gone on.
GameHeld ==
    game # None =>
        /\ game.attempt = None <=> game.story = None
        /\ game.story = None => game.puzzle = None
        /\ game.attempt # None => saved = game.attempt
        /\ game.story # None =>
            /\ Sound(game.story)
            /\ game.attempt.story # None => Grows(game.attempt.story, game.story)

SavedHeld ==
    /\ saved # None => /\ saved.id <= made
                       /\ saved.story # None => Sound(saved.story)
    /\ \A a \in reported : a <= made

StoryInv == StoryTypeOK /\ Ready /\ GameHeld /\ SavedHeld

States == {"in_progress", "synced", "rejected", "sync_queued"}

LEMMA SomeStory ==
    /\ \A s \in Story : s # None
    /\ \A a \in AttemptRec : a # None
    /\ \A g \in GameRec : g # None
    /\ \A n \in Nodes : n # None
  BY NoneAssumption

LEMMA AttemptFields ==
    ASSUME NEW a \in AttemptRec, NEW s \in Story
    PROVE  /\ [a EXCEPT !.story = s] \in AttemptRec
           /\ [a EXCEPT !.story = s].id = a.id
           /\ [a EXCEPT !.story = s].state = a.state
           /\ [a EXCEPT !.story = s].story = s
  BY DEF AttemptRec

LEMMA KeptFields ==
    ASSUME NEW g \in GameRec, g.story \in Story, g.attempt \in AttemptRec
    PROVE  /\ Kept(g) \in GameRec
           /\ Kept(g).story = g.story
           /\ Kept(g).attempt = [g.attempt EXCEPT !.story = g.story]
           /\ Kept(g).image = g.image /\ Kept(g).key = g.key
           /\ Kept(g).puzzle = g.puzzle /\ Kept(g).drawn = g.drawn
           /\ Kept(g).complete = g.complete /\ Kept(g).finishing = g.finishing
           /\ StoredBy(g) = [g.attempt EXCEPT !.story = g.story]
<1> DEFINE a == [g.attempt EXCEPT !.story = g.story]
<1>1. a \in AttemptRec
  BY AttemptFields
<1>2. Kept(g) = [g EXCEPT !.attempt = a]
  BY SomeStory DEF Kept
<1>3. StoredBy(g) = Kept(g).attempt
  BY SomeStory DEF StoredBy
<1> HIDE DEF a
<1>4. /\ [g EXCEPT !.attempt = a] \in GameRec
      /\ [g EXCEPT !.attempt = a].story = g.story
      /\ [g EXCEPT !.attempt = a].attempt = a
      /\ [g EXCEPT !.attempt = a].image = g.image
      /\ [g EXCEPT !.attempt = a].key = g.key
      /\ [g EXCEPT !.attempt = a].puzzle = g.puzzle
      /\ [g EXCEPT !.attempt = a].drawn = g.drawn
      /\ [g EXCEPT !.attempt = a].complete = g.complete
      /\ [g EXCEPT !.attempt = a].finishing = g.finishing
  BY <1>1 DEF GameRec
<1>5. Kept(g).attempt = a /\ StoredBy(g) = a
  BY <1>2, <1>3, <1>4
<1> QED BY <1>2, <1>4, <1>5 DEF a

LEMMA DrawnFields ==
    ASSUME NEW g \in GameRec
    PROVE  /\ Drawn(g) \in GameRec
           /\ Drawn(g).story = g.story /\ Drawn(g).attempt = g.attempt
           /\ Drawn(g).puzzle = g.puzzle /\ Drawn(g).finishing = g.finishing
           /\ Drawn(g).image = g.image
  BY DEF Drawn, GameRec

LEMMA FeedbackFields ==
    ASSUME NEW g \in GameRec
    PROVE  LET h == Drawn([g EXCEPT !.finishing = TRUE])
           IN  /\ h \in GameRec /\ h.story = g.story /\ h.attempt = g.attempt
               /\ h.puzzle = g.puzzle /\ h.image = g.image
<1>1. /\ [g EXCEPT !.finishing = TRUE] \in GameRec
      /\ [g EXCEPT !.finishing = TRUE].story = g.story
      /\ [g EXCEPT !.finishing = TRUE].attempt = g.attempt
      /\ [g EXCEPT !.finishing = TRUE].puzzle = g.puzzle
      /\ [g EXCEPT !.finishing = TRUE].image = g.image
  BY DEF GameRec
<1> QED BY <1>1, DrawnFields

\* The game on the screen, once its level is there
LEMMA Played ==
    ASSUME StoryInv, game # None, game.story # None
    PROVE  /\ game \in GameRec /\ game.story \in Story /\ game.attempt \in AttemptRec
           /\ game.attempt # None /\ saved = game.attempt
           /\ Sound(game.story)
           /\ Advances(game.story, game.story)
<1>1. game \in GameRec
  BY DEF StoryInv, StoryTypeOK
<1>2. game.story \in Story /\ game.attempt # None
  BY <1>1 DEF GameRec, StoryInv, GameHeld
<1>3. game.attempt \in AttemptRec
  BY <1>1, <1>2 DEF GameRec
<1> QED BY <1>1, <1>2, <1>3, GrowsSelf DEF StoryInv, GameHeld, Advances

-----------------------------------------------------------------------------
(* Each step does one of five things to the game and the saved attempt.    *)

\* The attempt and its story stay.
Rests ==
    /\ UNCHANGED <<saved, made>>
    /\ \/ game' = game /\ (game = None => UNCHANGED <<scene, loads, timers, answers>>)
       \/ /\ game # None
          /\ game' \in GameRec
          /\ game'.story = game.story
          /\ game'.attempt = game.attempt
          /\ game.story = None => game'.puzzle = None

\* Another game, or none
Opens ==
    /\ UNCHANGED <<saved, made>>
    /\ \/ game' = NewGame
       \/ game' = None /\ scene' = "other" /\ loads' = <<>> /\ timers' = <<>> /\ answers' = <<>>

\* The story goes on to t, and u of it is saved on the way.
Saves ==
    /\ made' = made
    /\ game # None /\ game.story # None
    /\ \E u, t \in Story :
        /\ Advances(game.story, u) /\ Advances(u, t)
        /\ game' \in GameRec
        /\ game'.story = t
        /\ game'.attempt = [game.attempt EXCEPT !.story = u]
        /\ saved' = [game.attempt EXCEPT !.story = u]

\* The answer to the report is noted.
Notes ==
    /\ made' = made
    /\ game # None /\ game.attempt # None
    /\ \E state \in States :
        /\ game' \in GameRec
        /\ game'.story = game.story
        /\ game.story = None => game'.puzzle = None
        /\ game'.attempt = [game.attempt EXCEPT !.state = state]
        /\ saved' = [game.attempt EXCEPT !.state = state]

\* The attempt comes onto the screen.
Comes ==
    /\ game # None
    /\ \E fresh \in BOOLEAN :
        /\ saved' = Attempt(fresh)
        /\ made' = IF Attempt(fresh).id > made THEN made + 1 ELSE made
        /\ game' \in GameRec
        /\ game'.attempt = Attempt(fresh)
        /\ game'.story = Restored(Attempt(fresh).story)

\* What storyAction leaves to be waited for: at most one download more.
StepsOn ==
    /\ UNCHANGED <<scene, timers, answers, reported, strayed>>
    /\ loads' \in Seq(LoadRec)
    /\ \A i \in DOMAIN loads' :
        loads'[i].node = None => i \in DOMAIN loads /\ loads'[i] = loads[i]

LEMMA StoryActionWaits ==
    ASSUME StoryInv, NEW story \in Story, StoryAction(story)
    PROVE  StepsOn
<1>1. loads \in Seq(LoadRec) /\ UNCHANGED <<scene, timers, answers, reported, strayed>>
  BY DEF StoryInv, StoryTypeOK, StoryAction
<1>2. CASE story.node = game.story.node
  BY <1>1, <1>2 DEF StoryAction, StepsOn
<1>3. CASE story.node # game.story.node
  <2> DEFINE load == [by |-> "action", node |-> story.node,
                      fresh |-> FALSE, ended |-> FALSE, mine |-> TRUE]
  <2>1. loads' = Append(loads, load)
    BY <1>3 DEF StoryAction
  <2>2. load \in LoadRec /\ load.node # None
    BY SomeStory DEF Story, LoadRec
  <2> HIDE DEF load
  <2>3. /\ loads' \in Seq(LoadRec)
        /\ DOMAIN loads' = DOMAIN loads \cup {Len(loads) + 1}
        /\ \A i \in DOMAIN loads : loads'[i] = loads[i]
        /\ loads'[Len(loads) + 1] = load
    BY <1>1, <2>1, <2>2, LastItem
  <2> QED BY <1>1, <2>2, <2>3 DEF StepsOn
<1> QED BY <1>2, <1>3

LEMMA StoryActionSaves ==
    ASSUME StoryInv, game # None, game.story # None, NEW story,
           Advances(game.story, story), StoryAction(story)
    PROVE  Saves /\ StepsOn
<1> DEFINE a == [game.attempt EXCEPT !.story = game.story]
           b == [game.attempt EXCEPT !.story = story]
           acted == [Kept(game) EXCEPT !.story = story]
<1>1. /\ game \in GameRec /\ game.story \in Story /\ game.attempt \in AttemptRec
      /\ Advances(game.story, game.story) /\ story \in Story
  BY Played DEF Advances
<1>2. /\ a \in AttemptRec /\ b \in AttemptRec /\ [a EXCEPT !.story = story] = b
  BY <1>1 DEF AttemptRec
<1>3. Kept(game) \in GameRec /\ Kept(game).attempt = a /\ StoredBy(game) = a
  BY <1>1, KeptFields
<1>4. acted \in GameRec /\ acted.story = story /\ acted.attempt = a
  BY <1>1, <1>3 DEF GameRec
<1>5. StepsOn
  BY <1>1, StoryActionWaits
<1>6. CASE story.node # game.story.node
  <2> DEFINE next == [acted EXCEPT !.image = None, !.key = story.node]
  <2>1. game' = Drawn(next) /\ saved' = a /\ made' = made
    BY <1>3, <1>6 DEF StoryAction
  <2> HIDE DEF acted
  <2>2. next \in GameRec /\ next.story = story /\ next.attempt = a
    <3>1. story.node \in Nodes
      BY <1>1 DEF Story
    <3> HIDE DEF a
    <3> QED BY <1>4, <3>1 DEF GameRec
  <2> HIDE DEF next
  <2>3. game' \in GameRec /\ game'.story = story /\ game'.attempt = a
    BY <2>1, <2>2, DrawnFields
  <2> QED BY <1>1, <1>5, <2>1, <2>3 DEF Saves
<1>7. CASE story.node = game.story.node
  <2>1. game' = Kept(acted) /\ saved' = StoredBy(acted) /\ made' = made
    BY <1>7 DEF StoryAction
  <2> HIDE DEF acted, a, b
  <2>2. Kept(acted) \in GameRec /\ Kept(acted).story = story
        /\ Kept(acted).attempt = b /\ StoredBy(acted) = b
    BY <1>1, <1>2, <1>4, KeptFields
  <2>3. Advances(story, story)
    BY <1>1, GrowsSelf DEF Advances
  <2> QED BY <1>1, <1>5, <2>1, <2>2, <2>3 DEF Saves, b
<1> QED BY <1>6, <1>7

LEMMA OfferedStory ==
    ASSUME StoryInv, NEW button, Offers(button), button # "levels"
    PROVE  /\ game # None /\ game.story # None /\ game.story.node \in Nodes
           /\ button \in Offered(game)
<1>1. game # None /\ button \in Offered(game)
  BY DEF Offers, StoryInv, Ready
<1>2. game.story # None
  BY <1>1 DEF Offered
<1>3. game.story \in Story
  BY <1>1, <1>2, Played
<1> QED BY <1>1, <1>2, <1>3 DEF Story

LEMMA ContinueSaves ==
    ASSUME StoryInv, Continue
    PROVE  Saves /\ StepsOn
<1> DEFINE n == game.story.node
<1>1. /\ game # None /\ game.story # None /\ n \in Nodes
      /\ "story next" \in Offered(game)
  BY OfferedStory DEF Continue
<1>2. Kind[n] \notin {"choice", "ending"}
  BY <1>1 DEF Offered
<1>3. NextNode[n] \in Nodes
  BY <1>1, <1>2, StoryAssumption DEF ValidStory
<1>4. Advances(game.story, Enter(game.story, NextNode[n]))
  BY <1>1, <1>3, Played, EnterAdvances
<1> QED BY <1>1, <1>4, StoryActionSaves DEF Continue

LEMMA ChooseSaves ==
    ASSUME StoryInv, NEW n \in Nodes, Choose(n)
    PROVE  Saves /\ StepsOn
<1>1. game # None /\ game.story # None /\ n \in Options[game.story.node]
  BY OfferedStory DEF Choose
<1>2. Advances(game.story, Enter(game.story, n))
  BY <1>1, Played, EnterAdvances
<1> QED BY <1>1, <1>2, StoryActionSaves DEF Choose

LEMMA PressSpotSaves ==
    ASSUME StoryInv, NEW spot \in UNION Range(Spots), PressSpot(spot)
    PROVE  Saves /\ StepsOn
<1>1. game # None /\ game.story # None
  BY OfferedStory DEF PressSpot
<1>2. Advances(game.story, FindHotspot(game.story, spot))
  BY <1>1, Played, SpotAdvances
<1> QED BY <1>1, <1>2, StoryActionSaves DEF PressSpot

LEMMA PressItemSaves ==
    ASSUME StoryInv, NEW item \in Items, PressItem(item)
    PROVE  Saves /\ StepsOn
<1>1. /\ game # None /\ game.story # None /\ game.story.node \in Nodes
      /\ "sequence" \in Offered(game)
  BY OfferedStory DEF PressItem
<1>2. Kind[game.story.node] = "sequence"
  BY <1>1 DEF Offered
<1>3. Advances(game.story, SelectSequence(game.story, item))
  BY <1>1, <1>2, Played, SequenceAdvances
<1> QED BY <1>1, <1>3, StoryActionSaves DEF PressItem

LEMMA MovePuzzleSaves ==
    ASSUME StoryInv, MovePuzzle
    PROVE  Saves
<1>1. game # None /\ game.puzzle # None
  BY DEF MovePuzzle, Captures, StoryInv, Ready
<1>2. game.story # None
  BY <1>1 DEF StoryInv, GameHeld
<1>3. /\ game \in GameRec /\ game.story \in Story /\ game.attempt \in AttemptRec
      /\ Sound(game.story)
  BY <1>1, <1>2, Played
<1>4. game.puzzle \in Orders
  BY <1>1, <1>3 DEF GameRec
<1> DEFINE s == game.story
           Placed(order) == [s EXCEPT !.board[s.node] = order]
           Moved(order) == [game EXCEPT !.puzzle = order, !.story = Placed(order)]
<1>5. PICK order \in Moves(game.puzzle) :
        /\ saved' = StoredBy(Moved(order))
        /\ game' = IF Solved(order)
                   THEN [Kept(Moved(order)) EXCEPT !.story = CompletePuzzle(@)]
                   ELSE Kept(Moved(order))
  BY DEF MovePuzzle
<1>6. order \in Orders
  BY <1>4, MovesRearrange
<1> DEFINE u == Placed(order)
           moved == Moved(order)
           kept == Kept(moved)
           a == [game.attempt EXCEPT !.story = u]
<1>7. Advances(s, u)
  BY <1>3, <1>6, BoardAdvances
<1>8. /\ saved' = StoredBy(moved)
      /\ game' = IF Solved(order) THEN [kept EXCEPT !.story = CompletePuzzle(@)] ELSE kept
      /\ made' = made
  BY <1>5 DEF MovePuzzle
<1>9. u \in Story /\ Sound(u)
  BY <1>7 DEF Advances
<1>10. moved = [game EXCEPT !.puzzle = order, !.story = u]
  OBVIOUS
<1> HIDE DEF u, moved
<1>11. moved \in GameRec /\ moved.story = u /\ moved.attempt = game.attempt
  BY <1>3, <1>6, <1>9, <1>10 DEF GameRec
<1>12. /\ kept \in GameRec /\ kept.story = u /\ kept.attempt = a
       /\ StoredBy(moved) = a
  BY <1>3, <1>9, <1>11, KeptFields
<1> HIDE DEF kept
<1>13. Advances(u, CompletePuzzle(u)) /\ Advances(u, u)
  BY <1>9, PuzzleAdvances, GrowsSelf DEF Advances
<1>14. CASE Solved(order)
  <2> DEFINE t == CompletePuzzle(u)
  <2>1. t \in Story /\ game' = [kept EXCEPT !.story = t]
    BY <1>8, <1>12, <1>13, <1>14 DEF Advances
  <2> HIDE DEF t, a
  <2>2. game' \in GameRec /\ game'.story = t /\ game'.attempt = a
    BY <1>12, <2>1 DEF GameRec
  <2>3. Advances(u, t)
    BY <1>13 DEF t
  <2> QED BY <1>1, <1>2, <1>7, <1>8, <1>9, <1>12, <2>1, <2>2, <2>3 DEF Saves, a
<1>15. CASE ~Solved(order)
  BY <1>1, <1>2, <1>7, <1>8, <1>9, <1>12, <1>13, <1>15 DEF Saves
<1> QED BY <1>14, <1>15

\* Saving the game as it is
LEMMA KeptSaves ==
    ASSUME StoryInv, game # None, game.story # None,
           game' \in GameRec, game'.story = game.story,
           game'.attempt = Kept(game).attempt, saved' = StoredBy(game), made' = made
    PROVE  Saves
<1>1. /\ game \in GameRec /\ game.story \in Story /\ game.attempt \in AttemptRec
      /\ Advances(game.story, game.story)
  BY Played
<1>2. /\ Kept(game).attempt = [game.attempt EXCEPT !.story = game.story]
      /\ StoredBy(game) = [game.attempt EXCEPT !.story = game.story]
  BY <1>1, KeptFields
<1> QED BY <1>1, <1>2 DEF Saves

LEMMA PressFinishSaves ==
    ASSUME StoryInv, PressFinish
    PROVE  Saves
<1>1. game # None /\ game.story # None
  BY OfferedStory DEF PressFinish
<1>2. game \in GameRec /\ game.story \in Story /\ game.attempt \in AttemptRec
  BY <1>1, Played
<1>3. Kept(game) \in GameRec /\ Kept(game).story = game.story
  BY <1>2, KeptFields
<1>4. game' = Drawn([Kept(game) EXCEPT !.finishing = TRUE])
  BY DEF PressFinish, FinishAfterFeedback
<1>5. game' \in GameRec /\ game'.story = game.story /\ game'.attempt = Kept(game).attempt
  BY <1>3, <1>4, FeedbackFields
<1> QED BY <1>1, <1>5, KeptSaves DEF PressFinish

\* Leaving, and saving without leaving
LEMMA ViewSaves ==
    ASSUME StoryInv, game # None, game' = Kept(game), saved' = StoredBy(game),
           made' = made
    PROVE  Rests \/ Saves
<1>1. CASE game.story = None
  BY <1>1 DEF Kept, StoredBy, Rests
<1>2. CASE game.story # None
  <2>1. game \in GameRec /\ game.story \in Story /\ game.attempt \in AttemptRec
    BY <1>2, Played
  <2>2. Kept(game) \in GameRec /\ Kept(game).story = game.story
    BY <2>1, KeptFields
  <2> QED BY <1>2, <2>2, KeptSaves
<1> QED BY <1>1, <1>2

LEMMA MediaKinds ==
    ASSUME StoryInv, NEW i \in DOMAIN loads, NEW comes \in BOOLEAN,
           NEW shuffle \in Shuffles, MediaArrives(i, comes, shuffle)
    PROVE  Rests \/ Saves
<1>1. game # None /\ made' = made
  BY DEF StoryInv, Ready, MediaArrives
<1>2. CASE game.story = None
  BY <1>1, <1>2 DEF MediaArrives, Rests
<1>3. CASE game.story # None
  <2> DEFINE load == loads[i]
             board == game.story.board[game.story.node]
             image == IF comes /\ game.key = load.node THEN load.node ELSE game.image
             puzzle == IF Kind[load.node] # "puzzle" THEN None
                       ELSE IF board # None THEN board ELSE shuffle
             shown == [game EXCEPT !.image = image, !.puzzle = puzzle]
             ended == IF load.mine THEN game.story.completed ELSE load.ended
  <2>1. /\ game \in GameRec /\ game.story \in Story /\ game.attempt \in AttemptRec
        /\ load \in LoadRec
    BY <1>1, <1>3, Played DEF StoryInv, StoryTypeOK
  <2>2. board \in Orders \cup {None} /\ shuffle \in Orders
    BY <2>1, StoryAssumption DEF Story, Shuffled
  <2>3. image \in Nodes \cup {None} /\ puzzle \in Orders \cup {None}
    BY <2>1, <2>2 DEF GameRec, LoadRec
  <2>4. IF load.by = "open"
        THEN game' = Drawn(shown) /\ UNCHANGED saved
        ELSE /\ saved' = StoredBy(shown)
             /\ IF ended THEN FinishAfterFeedback(Kept(shown)) ELSE game' = Drawn(Kept(shown))
    BY <1>3 DEF MediaArrives
  <2> HIDE DEF image, puzzle, load, ended
  <2>5. /\ shown \in GameRec /\ shown.story = game.story /\ shown.attempt = game.attempt
    BY <2>1, <2>3 DEF GameRec
  <2> HIDE DEF shown
  <2>6. CASE load.by = "open"
    BY <1>1, <1>3, <2>4, <2>5, <2>6, DrawnFields DEF Rests
  <2>7. CASE load.by # "open"
    <3>1. /\ Kept(shown) \in GameRec /\ Kept(shown).story = game.story
          /\ Kept(shown).attempt = [game.attempt EXCEPT !.story = game.story]
          /\ StoredBy(shown) = [game.attempt EXCEPT !.story = game.story]
          /\ Kept(game).attempt = [game.attempt EXCEPT !.story = game.story]
          /\ StoredBy(game) = [game.attempt EXCEPT !.story = game.story]
      BY <2>1, <2>5, KeptFields
    <3>2. game' = Drawn(Kept(shown)) \/ game' = Drawn([Kept(shown) EXCEPT !.finishing = TRUE])
      BY <2>4, <2>7 DEF FinishAfterFeedback
    <3>3. /\ game' \in GameRec /\ game'.story = game.story
          /\ game'.attempt = Kept(shown).attempt
      BY <3>1, <3>2, DrawnFields, FeedbackFields
    <3> QED BY <1>1, <1>3, <2>4, <2>7, <3>1, <3>3, KeptSaves
  <2> QED BY <2>6, <2>7
<1> QED BY <1>2, <1>3

LEMMA AnsweredKinds ==
    ASSUME StoryInv, NEW state \in {"synced", "rejected", "sync_queued"}, Answered(state)
    PROVE  Rests \/ Notes
<1> DEFINE done == [game EXCEPT !.complete = @ \/ state # "rejected"]
           a == [game.attempt EXCEPT !.state = state]
<1>1. game # None /\ game \in GameRec /\ made' = made
  BY DEF StoryInv, Ready, StoryTypeOK, Answered
<1>2. /\ done \in GameRec /\ done.story = game.story /\ done.attempt = game.attempt
      /\ done.puzzle = game.puzzle
  BY <1>1 DEF GameRec
<1>3. CASE game.attempt = None
  <2>1. game' = done /\ UNCHANGED saved
    BY <1>3 DEF Answered
  <2> HIDE DEF done
  <2>2. game.story = None => game.puzzle = None
    BY <1>1 DEF StoryInv, GameHeld
  <2> QED BY <1>1, <1>2, <2>1, <2>2 DEF Rests
<1>4. CASE game.attempt # None
  <2>1. game.attempt \in AttemptRec
    BY <1>1, <1>4 DEF GameRec
  <2>2. a \in AttemptRec
    BY <2>1 DEF AttemptRec
  <2>3. game' = [done EXCEPT !.attempt = a] /\ saved' = game'.attempt
    BY <1>2, <1>4 DEF Answered
  <2> HIDE DEF done, a
  <2>4. /\ game' \in GameRec /\ game'.story = game.story /\ game'.attempt = a
        /\ game'.puzzle = game.puzzle
    BY <1>2, <2>2, <2>3 DEF GameRec
  <2>5. game.story = None => game'.puzzle = None
    BY <1>1, <2>4 DEF StoryInv, GameHeld
  <2> QED BY <1>1, <1>4, <2>3, <2>4, <2>5 DEF Notes, a, States
<1> QED BY <1>3, <1>4

LEMMA ComingAttempt ==
    ASSUME StoryInv, NEW fresh \in BOOLEAN
    PROVE  LET a == Attempt(fresh)
           IN  /\ a \in AttemptRec /\ a # None
               /\ a = saved \/ (a.id = made + 1 /\ a.story = None)
               /\ Restored(a.story) \in Story /\ Sound(Restored(a.story))
               /\ a.story # None => Restored(a.story) = a.story
<1> DEFINE new == [id |-> made + 1, state |-> "in_progress", story |-> None]
<1>1. new \in AttemptRec /\ new.id = made + 1 /\ new.story = None
  BY DEF StoryInv, StoryTypeOK, AttemptRec
<1>2. \/ Attempt(fresh) = saved /\ saved # None
      \/ Attempt(fresh) = new
  BY DEF Attempt
<1> HIDE DEF new
<1>3. saved # None => /\ saved \in AttemptRec
                      /\ saved.story \in Story \cup {None}
                      /\ saved.story # None => Sound(saved.story)
  BY DEF StoryInv, StoryTypeOK, SavedHeld, AttemptRec
<1> QED BY <1>1, <1>2, <1>3, BegunSound, SomeStory DEF Restored

LEMMA LevelComes ==
    ASSUME StoryInv, NEW i \in DOMAIN loads, LevelArrives(i)
    PROVE  Comes
<1> DEFINE a == Attempt(loads[i].fresh)
           story == Restored(a.story)
<1>1. game # None /\ game \in GameRec /\ loads[i] \in LoadRec
  BY DEF StoryInv, Ready, StoryTypeOK
<1>2. loads[i].fresh \in BOOLEAN
  BY <1>1 DEF LoadRec
<1>3. a \in AttemptRec /\ story \in Story
  BY <1>2, ComingAttempt
<1>4. story.node \in Nodes
  BY <1>3 DEF Story
<1>5. /\ game' = [game EXCEPT !.attempt = a, !.story = story,
                              !.image = None, !.key = story.node]
      /\ saved' = a
      /\ made' = IF a.id > made THEN made + 1 ELSE made
  BY DEF LevelArrives
<1> HIDE DEF a, story
<1>6. game' \in GameRec /\ game'.attempt = a /\ game'.story = story
  BY <1>1, <1>3, <1>4, <1>5 DEF GameRec
<1> QED BY <1>1, <1>2, <1>5, <1>6 DEF Comes, a, story

LEMMA NewGameFits ==
    /\ NewGame \in GameRec
    /\ NewGame.story = None /\ NewGame.attempt = None /\ NewGame.puzzle = None
  BY DEF NewGame, GameRec

LEMMA StepKinds ==
    ASSUME StoryInv, [Next]_vars
    PROVE  Rests \/ Opens \/ Saves \/ Notes \/ Comes
<1>1. CASE UNCHANGED vars
  BY <1>1 DEF vars, Rests
<1>2. ASSUME NEW fresh \in BOOLEAN, LoadGame(fresh) PROVE Opens
  BY <1>2 DEF LoadGame, Opens
<1>3. ASSUME NEW i \in DOMAIN loads, LevelArrives(i) PROVE Comes
  BY <1>3, LevelComes
<1>4. ASSUME NEW i \in DOMAIN loads, LevelFails(i) PROVE Rests
  BY <1>4 DEF LevelFails, Rests, StoryInv, Ready
<1>5. ASSUME NEW i \in DOMAIN loads, NEW comes \in BOOLEAN, NEW shuffle \in Shuffles,
             MediaArrives(i, comes, shuffle)
      PROVE  Rests \/ Saves
  BY <1>5, MediaKinds
<1>6. CASE Continue
  BY <1>6, ContinueSaves
<1>7. ASSUME NEW n \in Nodes, Choose(n) PROVE Saves
  BY <1>7, ChooseSaves
<1>8. ASSUME NEW spot \in UNION Range(Spots), PressSpot(spot) PROVE Saves
  BY <1>8, PressSpotSaves
<1>9. ASSUME NEW item \in Items, PressItem(item) PROVE Saves
  BY <1>9, PressItemSaves
<1>10. CASE MovePuzzle
  BY <1>10, MovePuzzleSaves
<1>11. CASE PressFinish
  BY <1>11, PressFinishSaves
<1>12. CASE SaveView
  BY <1>12, ViewSaves DEF SaveView
<1>13. CASE FinishLevel
  BY <1>13 DEF FinishLevel, Rests, StoryInv, Ready
<1>14. ASSUME NEW state \in {"synced", "rejected", "sync_queued"}, Answered(state)
       PROVE  Rests \/ Notes
  BY <1>14, AnsweredKinds
<1>15. CASE Leave
  <2>1. game # None
    BY <1>15 DEF Leave, Offers, StoryInv, Ready
  <2> QED BY <1>15, <2>1, ViewSaves DEF Leave
<1>16. CASE Crash
  BY <1>16 DEF Crash, Opens
<1> QED BY <1>1, <1>2, <1>3, <1>4, <1>5, <1>6, <1>7, <1>8, <1>9, <1>10, <1>11, <1>12,
           <1>13, <1>14, <1>15, <1>16 DEF Next

-----------------------------------------------------------------------------
(* The inductive invariant                                                 *)

Reports == [mine : BOOLEAN]

LEMMA ReportsDisowned ==
    ASSUME NEW s \in Seq(Reports)
    PROVE  Disowned(s) \in Seq(Reports) /\ \A i \in DOMAIN Disowned(s) : ~Disowned(s)[i].mine
<1>1. DOMAIN s = 1 .. Len(s) /\ Len(s) \in Nat
  BY LenProperties
<1>2. \A i \in 1 .. Len(s) : s[i] \in Reports
  BY ElementOfSeq
<1>3. \A x \in Reports : LET y == [x EXCEPT !.mine = FALSE] IN y \in Reports /\ ~y.mine
  BY DEF Reports
<1>4. Disowned(s) = [i \in 1 .. Len(s) |-> [s[i] EXCEPT !.mine = FALSE]]
  BY <1>1 DEF Disowned
<1>5. Disowned(s) \in Seq(Reports)
  BY <1>1, <1>2, <1>3, <1>4
<1> QED BY <1>2, <1>3, <1>4, <1>5

LEMMA DownloadsDisowned ==
    ASSUME StoryInv
    PROVE  /\ DisownedLoads \in Seq(LoadRec)
           /\ \A i \in DOMAIN DisownedLoads : ~DisownedLoads[i].mine
<1>1. loads \in Seq(LoadRec)
  BY DEF StoryInv, StoryTypeOK
<1>2. DOMAIN loads = 1 .. Len(loads) /\ Len(loads) \in Nat
  BY <1>1, LenProperties
<1>3. \A i \in 1 .. Len(loads) : loads[i] \in LoadRec
  BY <1>1, ElementOfSeq
<1> DEFINE ended == game.story # None /\ game.story.completed
           disowned(x) == IF x.mine THEN [x EXCEPT !.mine = FALSE, !.ended = ended] ELSE x
<1>4. loads # <<>> => ended \in BOOLEAN
  <2> SUFFICES ASSUME loads # <<>> PROVE ended \in BOOLEAN
    OBVIOUS
  <2>1. game # None
    BY DEF StoryInv, Ready
  <2>2. CASE game.story = None
    BY <2>2
  <2>3. CASE game.story # None
    <3>1. game.story.completed \in BOOLEAN
      BY <2>1, <2>3, Played DEF Story
    <3> QED BY <2>3, <3>1
  <2> QED BY <2>2, <2>3
<1> HIDE DEF ended
<1>5. \A i \in 1 .. Len(loads) : disowned(loads[i]) \in LoadRec /\ ~disowned(loads[i]).mine
  <2> TAKE i \in 1 .. Len(loads)
  <2>1. ended \in BOOLEAN
    BY <1>2, <1>4, EmptySeq
  <2> QED BY <1>3, <2>1 DEF LoadRec
<1>6. DisownedLoads = [i \in 1 .. Len(loads) |-> disowned(loads[i])]
  BY <1>2 DEF DisownedLoads, ended
<1> HIDE DEF disowned
<1>7. DisownedLoads \in Seq(LoadRec)
  BY <1>2, <1>5, <1>6
<1> QED BY <1>5, <1>6, <1>7

LEMMA TailReports ==
    ASSUME NEW s \in Seq(Reports), s # <<>>
    PROVE  /\ Tail(s) \in Seq(Reports) /\ Head(s) \in Reports
           /\ 1 \in DOMAIN s /\ Head(s) = s[1]
           /\ \A i \in DOMAIN Tail(s) : i + 1 \in DOMAIN s /\ Tail(s)[i] = s[i + 1]
  BY HeadTailProperties, LenProperties, EmptySeq

\* What waits, and what has been reported
Waiting ==
    /\ scene \in {"game", "other"}
    /\ loads \in Seq(LoadRec)
    /\ timers \in Seq(Reports)
    /\ answers \in Seq(Reports)
    /\ reported \in SUBSET Nat
    /\ strayed \in BOOLEAN
    /\ \A a \in reported : a <= made

LEMMA WaitingNow ==
    ASSUME StoryInv
    PROVE  Waiting /\ made \in Nat
  BY DEF StoryInv, StoryTypeOK, SavedHeld, Waiting, Reports

LEMMA StepsOnWaits ==
    ASSUME StoryInv, StepsOn, made' = made
    PROVE  Waiting'
  BY WaitingNow DEF Waiting, StepsOn

\* finishAfterFeedback sets at most one timer.
LEMMA FeedbackWaits ==
    ASSUME StoryInv, NEW g, FinishAfterFeedback(g)
    PROVE  timers' \in Seq(Reports)
<1>1. timers \in Seq(Reports) /\ [mine |-> TRUE] \in Reports
  BY WaitingNow DEF Waiting, Reports
<1>2. timers' = timers \/ timers' = Append(timers, [mine |-> TRUE])
  BY DEF FinishAfterFeedback
<1> QED BY <1>1, <1>2, LastItem

LEMMA WaitingStays ==
    ASSUME StoryInv, [Next]_vars
    PROVE  Waiting'
<1>0. /\ Waiting /\ made \in Nat /\ [mine |-> TRUE] \in Reports
      /\ loads \in Seq(LoadRec) /\ timers \in Seq(Reports) /\ answers \in Seq(Reports)
  BY WaitingNow DEF Waiting, Reports
<1>1. CASE UNCHANGED vars
  BY <1>0, <1>1 DEF vars, Waiting
<1>2. ASSUME NEW fresh \in BOOLEAN, LoadGame(fresh) PROVE Waiting'
  <2> DEFINE load == [by |-> "open", node |-> None, fresh |-> fresh,
                      ended |-> FALSE, mine |-> TRUE]
  <2>1. load \in LoadRec
    BY DEF LoadRec
  <2> HIDE DEF load
  <2>2. Append(DisownedLoads, load) \in Seq(LoadRec)
    BY <2>1, DownloadsDisowned, LastItem
  <2>3. loads' = Append(DisownedLoads, load)
    BY <1>2 DEF LoadGame, load
  <2>4. timers' \in Seq(Reports) /\ answers' \in Seq(Reports)
    BY <1>0, <1>2, ReportsDisowned DEF LoadGame
  <2> QED BY <1>0, <1>2, <2>2, <2>3, <2>4 DEF LoadGame, Waiting
<1>3. ASSUME NEW i \in DOMAIN loads, LevelArrives(i) PROVE Waiting'
  <2> DEFINE node == Restored(Attempt(loads[i].fresh).story).node
  <2>1. loads[i] \in LoadRec
    BY <1>0
  <2>2. node \in Nodes
    BY <2>1, ComingAttempt DEF LoadRec, Story
  <2>3. loads' = [loads EXCEPT ![i] = [loads[i] EXCEPT !.node = node]]
    BY <1>3 DEF LevelArrives
  <2> HIDE DEF node
  <2>4. [loads[i] EXCEPT !.node = node] \in LoadRec
    BY <2>1, <2>2 DEF LoadRec
  <2>5. loads' \in Seq(LoadRec)
    BY <1>0, <2>3, <2>4, ExceptSeq
  <2>6. strayed' \in BOOLEAN
    BY <1>0, <1>3, <2>1 DEF LevelArrives, LoadRec, Waiting
  <2>7. made' \in {made, made + 1}
    BY <1>3 DEF LevelArrives
  <2>8. \A a \in reported : a <= made'
    BY <1>0, <2>7 DEF Waiting
  <2> QED BY <1>0, <1>3, <2>5, <2>6, <2>8 DEF LevelArrives, Waiting
<1>4. ASSUME NEW i \in DOMAIN loads, LevelFails(i) PROVE Waiting'
  BY <1>0, <1>4, Removed DEF LevelFails, Waiting
<1>5. ASSUME NEW i \in DOMAIN loads, NEW comes \in BOOLEAN, NEW shuffle \in Shuffles,
             MediaArrives(i, comes, shuffle)
      PROVE  Waiting'
  <2>1. loads' \in Seq(LoadRec) /\ loads[i] \in LoadRec
    BY <1>0, <1>5, Removed DEF MediaArrives
  <2>2. strayed' \in BOOLEAN
    BY <1>0, <1>5, <2>1 DEF MediaArrives, LoadRec, Waiting
  <2>3. timers' \in Seq(Reports)
    <3>1. ASSUME NEW g, FinishAfterFeedback(g) PROVE timers' \in Seq(Reports)
      BY <3>1, FeedbackWaits
    <3> QED BY <1>0, <1>5, <3>1 DEF MediaArrives
  <2> QED BY <1>0, <1>5, <2>1, <2>2, <2>3 DEF MediaArrives, Waiting
<1>6. CASE Continue
  BY <1>6, ContinueSaves, StepsOnWaits DEF Saves
<1>7. ASSUME NEW n \in Nodes, Choose(n) PROVE Waiting'
  BY <1>7, ChooseSaves, StepsOnWaits DEF Saves
<1>8. ASSUME NEW spot \in UNION Range(Spots), PressSpot(spot) PROVE Waiting'
  BY <1>8, PressSpotSaves, StepsOnWaits DEF Saves
<1>9. ASSUME NEW item \in Items, PressItem(item) PROVE Waiting'
  BY <1>9, PressItemSaves, StepsOnWaits DEF Saves
<1>10. CASE MovePuzzle
  BY <1>0, <1>10 DEF MovePuzzle, Waiting
<1>11. CASE PressFinish
  BY <1>0, <1>11, FeedbackWaits DEF PressFinish, Waiting
<1>12. CASE SaveView
  BY <1>0, <1>12 DEF SaveView, Waiting
<1>13. CASE FinishLevel
  <2>1. game # None /\ game \in GameRec
    BY <1>13 DEF FinishLevel, StoryInv, Ready, StoryTypeOK
  <2>2. timers' \in Seq(Reports) /\ Head(timers) \in Reports
    BY <1>0, <1>13, TailReports DEF FinishLevel
  <2>3. strayed' \in BOOLEAN
    BY <1>0, <1>13, <2>2 DEF FinishLevel, Reports, Waiting
  <2>4. CASE game.attempt = None
    BY <1>0, <1>13, <2>2, <2>3, <2>4 DEF FinishLevel, Waiting
  <2>5. CASE game.attempt # None
    <3>1. game.attempt.id \in Nat /\ game.attempt.id <= made
      BY <2>1, <2>5 DEF GameRec, AttemptRec, StoryInv, GameHeld, SavedHeld
    <3>2. answers' \in Seq(Reports)
      BY <1>0, <1>13, <2>5, LastItem DEF FinishLevel
    <3> QED BY <1>0, <1>13, <2>2, <2>3, <2>5, <3>1, <3>2 DEF FinishLevel, Waiting
  <2> QED BY <2>4, <2>5
<1>14. ASSUME NEW state \in {"synced", "rejected", "sync_queued"}, Answered(state)
       PROVE  Waiting'
  <2>1. answers' \in Seq(Reports) /\ Head(answers) \in Reports
    BY <1>0, <1>14, TailReports DEF Answered
  <2>2. strayed' \in BOOLEAN
    BY <1>0, <1>14, <2>1 DEF Answered, Reports, Waiting
  <2> QED BY <1>0, <1>14, <2>1, <2>2 DEF Answered, Waiting
<1>15. CASE Leave
  BY <1>0, <1>15 DEF Leave, Waiting
<1>16. CASE Crash
  BY <1>0, <1>16, EmptySeq DEF Crash, Waiting
<1> QED BY <1>1, <1>2, <1>3, <1>4, <1>5, <1>6, <1>7, <1>8, <1>9, <1>10, <1>11, <1>12,
           <1>13, <1>14, <1>15, <1>16 DEF Next

\* The game and the saved attempt
Held ==
    /\ game \in GameRec \cup {None}
    /\ saved \in AttemptRec \cup {None}
    /\ made \in Nat
    /\ Ready
    /\ GameHeld
    /\ saved # None => /\ saved.id <= made
                       /\ saved.story # None => Sound(saved.story)

LEMMA RestsHolds ==
    ASSUME StoryInv, Rests
    PROVE  Held'
<1>1. Held /\ saved' = saved /\ made' = made
  BY DEF StoryInv, StoryTypeOK, SavedHeld, Held, Rests
<1>2. CASE game' = game /\ (game = None => UNCHANGED <<scene, loads, timers, answers>>)
  BY <1>1, <1>2 DEF Held, Ready, GameHeld
<1>3. CASE /\ game # None
           /\ game' \in GameRec
           /\ game'.story = game.story
           /\ game'.attempt = game.attempt
           /\ game.story = None => game'.puzzle = None
  <2>1. game' # None
    BY <1>3, SomeStory
  <2> QED BY <1>1, <1>3, <2>1 DEF Held, Ready, GameHeld
<1> QED BY <1>2, <1>3 DEF Rests

LEMMA OpensHolds ==
    ASSUME StoryInv, Opens
    PROVE  Held'
<1>1. Held /\ saved' = saved /\ made' = made
  BY DEF StoryInv, StoryTypeOK, SavedHeld, Held, Opens
<1>2. CASE game' = NewGame
  <2>1. game' \in GameRec /\ game' # None /\ game'.story = None
        /\ game'.attempt = None /\ game'.puzzle = None
    BY <1>2, NewGameFits, SomeStory
  <2> QED BY <1>1, <2>1 DEF Held, Ready, GameHeld
<1>3. CASE game' = None /\ scene' = "other"
           /\ loads' = <<>> /\ timers' = <<>> /\ answers' = <<>>
  BY <1>1, <1>3 DEF Held, Ready, GameHeld
<1> QED BY <1>2, <1>3 DEF Opens

LEMMA SavesHolds ==
    ASSUME StoryInv, Saves
    PROVE  Held'
<1>1. Held /\ made' = made /\ game # None /\ game.story # None
  BY DEF StoryInv, StoryTypeOK, SavedHeld, Held, Saves
<1>2. /\ game \in GameRec /\ game.story \in Story /\ game.attempt \in AttemptRec
      /\ game.attempt # None /\ saved = game.attempt
  BY <1>1, Played
<1>3. PICK u \in Story, t \in Story :
        /\ Advances(game.story, u) /\ Advances(u, t)
        /\ game' \in GameRec
        /\ game'.story = t
        /\ game'.attempt = [game.attempt EXCEPT !.story = u]
        /\ saved' = [game.attempt EXCEPT !.story = u]
  BY DEF Saves
<1> DEFINE a == [game.attempt EXCEPT !.story = u]
<1>4. a \in AttemptRec /\ a.id = game.attempt.id /\ a.story = u /\ a # None
  BY <1>2, AttemptFields, SomeStory
<1>5. game' \in GameRec /\ game'.attempt = a /\ saved' = a /\ game'.story = t
  BY <1>3
<1> HIDE DEF a
<1>6. /\ game' # None /\ u # None /\ t # None
      /\ Sound(u) /\ Sound(t) /\ Grows(u, t)
  BY <1>3, SomeStory DEF Advances
<1>7. GameHeld' /\ Ready'
  BY <1>4, <1>5, <1>6 DEF GameHeld, Ready
<1>8. saved'.id <= made' /\ Sound(saved'.story)
  BY <1>1, <1>2, <1>4, <1>5, <1>6 DEF Held
<1> QED BY <1>1, <1>4, <1>5, <1>7, <1>8 DEF Held

LEMMA NotesHolds ==
    ASSUME StoryInv, Notes
    PROVE  Held'
<1>1. Held /\ made' = made /\ game # None /\ game.attempt # None
  BY DEF StoryInv, StoryTypeOK, SavedHeld, Held, Notes
<1>2. /\ game \in GameRec /\ game.attempt \in AttemptRec
      /\ game.story # None /\ saved = game.attempt
  BY <1>1 DEF Held, GameHeld, GameRec
<1>3. PICK state \in States :
        /\ game' \in GameRec
        /\ game'.story = game.story
        /\ game.story = None => game'.puzzle = None
        /\ game'.attempt = [game.attempt EXCEPT !.state = state]
        /\ saved' = [game.attempt EXCEPT !.state = state]
  BY DEF Notes
<1> DEFINE a == [game.attempt EXCEPT !.state = state]
<1>4. a \in AttemptRec /\ a.id = game.attempt.id /\ a.story = game.attempt.story
  BY <1>2 DEF AttemptRec, States
<1>5. game' \in GameRec /\ game'.attempt = a /\ saved' = a /\ game'.story = game.story
  BY <1>3
<1> HIDE DEF a
<1>6. game' # None /\ a # None
  BY <1>4, <1>5, SomeStory
<1>7. GameHeld' /\ Ready'
  BY <1>1, <1>2, <1>4, <1>5, <1>6 DEF Held, GameHeld, Ready
<1>8. saved'.id <= made' /\ (saved'.story # None => Sound(saved'.story))
  BY <1>1, <1>2, <1>4, <1>5 DEF Held
<1> QED BY <1>1, <1>4, <1>5, <1>7, <1>8 DEF Held

LEMMA ComesHolds ==
    ASSUME StoryInv, Comes
    PROVE  Held'
<1>1. Held /\ game # None
  BY DEF StoryInv, StoryTypeOK, SavedHeld, Held, Comes
<1>2. PICK fresh \in BOOLEAN :
        /\ saved' = Attempt(fresh)
        /\ made' = IF Attempt(fresh).id > made THEN made + 1 ELSE made
        /\ game' \in GameRec
        /\ game'.attempt = Attempt(fresh)
        /\ game'.story = Restored(Attempt(fresh).story)
  BY DEF Comes
<1> DEFINE a == Attempt(fresh)
           story == Restored(a.story)
<1>3. /\ a \in AttemptRec /\ a # None
      /\ a = saved \/ (a.id = made + 1 /\ a.story = None)
      /\ story \in Story /\ Sound(story)
      /\ a.story # None => story = a.story
  BY ComingAttempt
<1>4. /\ saved' = a /\ game' \in GameRec /\ game'.attempt = a /\ game'.story = story
      /\ made' = IF a.id > made THEN made + 1 ELSE made
  BY <1>2
<1> HIDE DEF a, story
<1>5. game' # None /\ story # None
  BY <1>3, <1>4, SomeStory
<1>6. GameHeld' /\ Ready'
  BY <1>3, <1>4, <1>5, GrowsSelf DEF GameHeld, Ready
<1>7. made' \in Nat /\ a.id <= made'
  BY <1>1, <1>3, <1>4 DEF Held, AttemptRec
<1>8. a.story # None => Sound(a.story)
  BY <1>3
<1> QED BY <1>3, <1>4, <1>6, <1>7, <1>8 DEF Held

LEMMA StoryInvStays ==
    ASSUME StoryInv, [Next]_vars
    PROVE  StoryInv'
<1>1. Held'
  BY StepKinds, RestsHolds, OpensHolds, SavesHolds, NotesHolds, ComesHolds
<1>2. Waiting'
  BY WaitingStays
<1> QED BY <1>1, <1>2 DEF Held, Waiting, Reports, StoryInv, StoryTypeOK, SavedHeld

LEMMA StoryInvBegins == Init => StoryInv
<1> SUFFICES ASSUME Init PROVE StoryInv
  OBVIOUS
<1>1. StoryTypeOK
  BY EmptySeq DEF Init, StoryTypeOK
<1>2. Ready /\ GameHeld /\ SavedHeld
  BY DEF Init, Ready, GameHeld, SavedHeld
<1> QED BY <1>1, <1>2 DEF StoryInv

\* The attempt on the screen is the one that is saved, its story has at most gone
\* on, and what is saved of a story is a state the runtime can be in.
LEMMA StoryInvHolds == Spec => []StoryInv
  BY StoryInvBegins, StoryInvStays, PTL DEF Spec

\* Whatever arrives late, is left or is opened again: on the screen is a story of
\* the runtime or none, with an attempt and a puzzle of the kind they should be,
\* and what waits and what is saved keep their shape (state of OddSpotApp).
THEOREM StoryTypeCorrect == Spec => []StoryTypeOK
<1>1. StoryInv => StoryTypeOK
  BY DEF StoryInv
<1> QED BY <1>1, StoryInvHolds, PTL

-----------------------------------------------------------------------------
(* Each step does one of six things to the puzzle and to the boards.       *)

\* What is saved of the boards: as before, or as they are on the screen.
BoardsSaved ==
    \/ saved' = saved
    \/ saved # None /\ saved' # None /\ saved'.story = saved.story
    \/ saved' # None /\ saved'.story # None /\ saved'.story.board = game.story.board

\* Nothing is opened, saved or moved.
BoardsIdle == game' = game /\ saved' = saved

\* The puzzle and the boards stay; the node or its picture may not.
BoardsRest ==
    /\ game # None /\ game' # None
    /\ game'.puzzle = game.puzzle
    /\ game'.story = None <=> game.story = None
    /\ game.story = None => saved' = saved
    /\ game.story # None =>
        /\ BoardsSaved
        /\ game'.story.board = game.story.board
        /\ game'.image # None => /\ game'.image = game.image
                                 /\ game'.story.node = game.story.node

\* The picture of a node has come, or has not, and its puzzle is read.
BoardsShown ==
    /\ game # None /\ game' # None /\ game.story # None
    /\ game'.story = game.story
    /\ BoardsSaved
    /\ LET board == game.story.board[game.story.node]
       IN  \/ game'.puzzle = None
           \/ game'.puzzle = board /\ board # None
           \/ game'.puzzle \in Shuffles /\ board = None

\* A group is moved, and the puzzle is perhaps solved by that.
BoardsMove ==
    /\ game # None /\ game' # None /\ game.story # None /\ game.puzzle # None
    /\ game'.story # None /\ saved' # None /\ saved'.story # None
    /\ \E order \in Moves(game.puzzle) :
        LET boards == [game.story.board EXCEPT ![game.story.node] = order]
        IN  /\ game'.puzzle = order
            /\ saved'.story.board = boards
            /\ \/ game'.story.board = boards /\ game'.story.node = game.story.node
               \/ /\ Solved(order)
                  /\ \/ game'.story.board = boards
                     \/ game'.story.board = [boards EXCEPT ![game.story.node] = None]

\* The attempt comes onto the screen.
BoardsCome ==
    /\ game # None /\ game' # None
    /\ game'.puzzle = game.puzzle /\ game'.image = None
    /\ \E fresh \in BOOLEAN :
        saved' = Attempt(fresh) /\ game'.story = Restored(Attempt(fresh).story)

LEMMA BoardsThrough ==
    ASSUME NEW s \in Story
    PROVE  /\ \A n \in Nodes : Enter(s, n).board = s.board
           /\ \A spot : FindHotspot(s, spot).board = s.board
           /\ \A item : SelectSequence(s, item).board = s.board
           /\ \/ CompletePuzzle(s).board = s.board
              \/ CompletePuzzle(s).board = [s.board EXCEPT ![s.node] = None]
<1>1. \A t \in Story : \A n : Enter(t, n).board = t.board
  BY DEF Enter, Story
<1>2. \A spot : FindHotspot(s, spot).board = s.board
  BY DEF FindHotspot, Story
<1>3. ASSUME NEW item PROVE SelectSequence(s, item).board = s.board
  <2> DEFINE picked == Append(s.picked[s.node], item)
             chosen == [s EXCEPT !.picked[s.node] = picked]
             none == [s EXCEPT !.picked[s.node] = <<>>]
  <2>1. \A n : Enter(chosen, n).board = s.board
    BY DEF Enter, Story
  <2>2. chosen.board = s.board /\ none.board = s.board
    BY DEF Story
  <2>3. \/ SelectSequence(s, item) = chosen
        \/ SelectSequence(s, item) = none
        \/ SelectSequence(s, item) = Enter(chosen, NextNode[s.node])
    BY DEF SelectSequence
  <2> QED BY <2>1, <2>2, <2>3
<1>4. CASE Kind[s.node] = "puzzle"
  <2> DEFINE t == [s EXCEPT !.board[s.node] = None]
  <2>1. t.board = [s.board EXCEPT ![s.node] = None]
    BY DEF Story
  <2>2. \A n : Enter(t, n).board = t.board
    BY DEF Enter, Story
  <2> QED BY <1>1, <1>2, <1>3, <1>4, <2>1, <2>2 DEF CompletePuzzle
<1>5. CASE Kind[s.node] # "puzzle"
  BY <1>1, <1>2, <1>3, <1>5 DEF CompletePuzzle
<1> QED BY <1>4, <1>5

LEMMA StoryActionBoards ==
    ASSUME StoryInv, game # None, game.story # None, NEW story \in Story,
           story.board = game.story.board, StoryAction(story)
    PROVE  BoardsRest
<1> DEFINE a == [game.attempt EXCEPT !.story = game.story]
           b == [game.attempt EXCEPT !.story = story]
           acted == [Kept(game) EXCEPT !.story = story]
<1>1. /\ game \in GameRec /\ game.story \in Story /\ game.attempt \in AttemptRec
  BY Played
<1>2. /\ a \in AttemptRec /\ a.story = game.story /\ a # None
      /\ b \in AttemptRec /\ b.story = story /\ b # None
      /\ [a EXCEPT !.story = story] = b
  BY <1>1, AttemptFields, SomeStory DEF AttemptRec
<1>3. /\ Kept(game) \in GameRec /\ Kept(game).attempt = a /\ StoredBy(game) = a
      /\ Kept(game).puzzle = game.puzzle /\ Kept(game).image = game.image
  BY <1>1, KeptFields
<1>4. /\ acted \in GameRec /\ acted.story = story /\ acted.attempt = a
      /\ acted.puzzle = game.puzzle /\ acted.image = game.image
  BY <1>1, <1>3 DEF GameRec
<1>5. story # None /\ story.node \in Nodes
  BY SomeStory DEF Story
<1>6. CASE story.node # game.story.node
  <2> DEFINE next == [acted EXCEPT !.image = None, !.key = story.node]
  <2>1. game' = Drawn(next) /\ saved' = a
    BY <1>3, <1>6 DEF StoryAction
  <2> HIDE DEF acted, a, b
  <2>2. /\ next \in GameRec /\ next.story = story
        /\ next.puzzle = game.puzzle /\ next.image = None
    BY <1>4, <1>5 DEF GameRec
  <2> HIDE DEF next
  <2>3. /\ game' \in GameRec /\ game'.story = story
        /\ game'.puzzle = game.puzzle /\ game'.image = None
    BY <2>1, <2>2, DrawnFields
  <2> QED BY <1>1, <1>2, <1>5, <2>1, <2>3, SomeStory DEF BoardsRest, BoardsSaved
<1>7. CASE story.node = game.story.node
  <2>1. game' = Kept(acted) /\ saved' = StoredBy(acted)
    BY <1>7 DEF StoryAction
  <2> HIDE DEF acted, a, b
  <2>2. /\ Kept(acted) \in GameRec /\ Kept(acted).story = story
        /\ Kept(acted).puzzle = game.puzzle /\ Kept(acted).image = game.image
        /\ StoredBy(acted) = b
    BY <1>1, <1>2, <1>4, KeptFields
  <2> QED BY <1>1, <1>2, <1>5, <1>7, <2>1, <2>2, SomeStory DEF BoardsRest, BoardsSaved
<1> QED BY <1>6, <1>7

LEMMA MovePuzzleBoards ==
    ASSUME StoryInv, MovePuzzle
    PROVE  BoardsMove
<1>1. game # None /\ game.puzzle # None
  BY DEF MovePuzzle, Captures, StoryInv, Ready
<1>2. game.story # None
  BY <1>1 DEF StoryInv, GameHeld
<1>3. game \in GameRec /\ game.story \in Story /\ game.attempt \in AttemptRec
  BY <1>1, <1>2, Played
<1>4. game.puzzle \in Orders
  BY <1>1, <1>3 DEF GameRec
<1> DEFINE s == game.story
           Placed(order) == [s EXCEPT !.board[s.node] = order]
           Moved(order) == [game EXCEPT !.puzzle = order, !.story = Placed(order)]
<1>5. PICK order \in Moves(game.puzzle) :
        /\ saved' = StoredBy(Moved(order))
        /\ game' = IF Solved(order)
                   THEN [Kept(Moved(order)) EXCEPT !.story = CompletePuzzle(@)]
                   ELSE Kept(Moved(order))
  BY DEF MovePuzzle
<1>6. order \in Orders
  BY <1>4, MovesRearrange
<1> DEFINE u == Placed(order)
           moved == Moved(order)
           kept == Kept(moved)
           a == [game.attempt EXCEPT !.story = u]
<1>7. u \in Story /\ u.node = s.node /\ u # None
      /\ u.board = [s.board EXCEPT ![s.node] = order]
  BY <1>3, <1>6, SomeStory DEF Story
<1>8. /\ saved' = StoredBy(moved)
      /\ game' = IF Solved(order) THEN [kept EXCEPT !.story = CompletePuzzle(@)] ELSE kept
  BY <1>5
<1>9. moved = [game EXCEPT !.puzzle = order, !.story = u]
  OBVIOUS
<1> HIDE DEF u, moved
<1>10. /\ moved \in GameRec /\ moved.story = u /\ moved.attempt = game.attempt
       /\ moved.puzzle = order
  BY <1>3, <1>6, <1>7, <1>9 DEF GameRec
<1>11. /\ kept \in GameRec /\ kept.story = u /\ kept.puzzle = order
       /\ StoredBy(moved) = a
  BY <1>3, <1>7, <1>10, KeptFields
<1>12. a \in AttemptRec /\ a.story = u /\ a # None
  BY <1>3, <1>7, AttemptFields, SomeStory
<1> HIDE DEF kept, a
<1>13. CASE Solved(order)
  <2> DEFINE t == CompletePuzzle(u)
  <2>1. game' = [kept EXCEPT !.story = t]
    BY <1>8, <1>11, <1>13
  <2>2. \/ t.board = u.board
        \/ t.board = [u.board EXCEPT ![s.node] = None]
    BY <1>7, BoardsThrough
  <2>3. t \in Story
    <3>1. Sound(u)
      BY <1>3, <1>6, <1>1, <1>2, Played, BoardAdvances DEF u, Advances
    <3> QED BY <1>7, <3>1, PuzzleAdvances DEF Advances
  <2> HIDE DEF t
  <2>4. game' \in GameRec /\ game'.story = t /\ game'.puzzle = order
    BY <1>11, <2>1, <2>3 DEF GameRec
  <2> QED BY <1>1, <1>2, <1>5, <1>7, <1>8, <1>11, <1>12, <1>13, <2>2, <2>3, <2>4, SomeStory
          DEF BoardsMove
<1>14. CASE ~Solved(order)
  <2>1. game' = kept
    BY <1>8, <1>14
  <2> QED BY <1>1, <1>2, <1>5, <1>7, <1>8, <1>11, <1>12, <2>1, SomeStory DEF BoardsMove
<1> QED BY <1>13, <1>14

\* The game is kept and saved as it is.
LEMMA KeptBoards ==
    ASSUME StoryInv, game # None, game.story # None, NEW g \in GameRec,
           g.story = game.story, g.puzzle = game.puzzle, g.image = game.image,
           game' = g, saved' = StoredBy(game)
    PROVE  BoardsRest
<1>1. game \in GameRec /\ game.story \in Story /\ game.attempt \in AttemptRec
  BY Played
<1>2. StoredBy(game) = [game.attempt EXCEPT !.story = game.story]
  BY <1>1, KeptFields
<1>3. saved' # None /\ saved'.story = game.story
  BY <1>1, <1>2, AttemptFields, SomeStory
<1> QED BY <1>1, <1>3, SomeStory DEF BoardsRest, BoardsSaved

LEMMA ViewBoards ==
    ASSUME StoryInv, game # None, game' = Kept(game), saved' = StoredBy(game)
    PROVE  BoardsIdle \/ BoardsRest
<1>1. CASE game.story = None
  BY <1>1 DEF Kept, StoredBy, BoardsIdle
<1>2. CASE game.story # None
  <2>1. game \in GameRec /\ game.story \in Story /\ game.attempt \in AttemptRec
    BY <1>2, Played
  <2> QED BY <1>2, <2>1, KeptFields, KeptBoards
<1> QED BY <1>1, <1>2

LEMMA PressFinishBoards ==
    ASSUME StoryInv, PressFinish
    PROVE  BoardsRest
<1>1. game # None /\ game.story # None
  BY OfferedStory DEF PressFinish
<1>2. game \in GameRec /\ game.story \in Story /\ game.attempt \in AttemptRec
  BY <1>1, Played
<1>3. /\ Kept(game) \in GameRec /\ Kept(game).story = game.story
      /\ Kept(game).puzzle = game.puzzle /\ Kept(game).image = game.image
  BY <1>2, KeptFields
<1>4. game' = Drawn([Kept(game) EXCEPT !.finishing = TRUE])
  BY DEF PressFinish, FinishAfterFeedback
<1> DEFINE g == Drawn([Kept(game) EXCEPT !.finishing = TRUE])
<1>5. /\ g \in GameRec /\ g.story = game.story
      /\ g.puzzle = game.puzzle /\ g.image = game.image
  BY <1>3, FeedbackFields
<1> HIDE DEF g
<1> QED BY <1>1, <1>4, <1>5, KeptBoards DEF PressFinish, g

LEMMA MediaBoards ==
    ASSUME StoryInv, NEW i \in DOMAIN loads, NEW comes \in BOOLEAN,
           NEW shuffle \in Shuffles, MediaArrives(i, comes, shuffle)
    PROVE  BoardsIdle \/ BoardsShown
<1>1. game # None
  BY DEF StoryInv, Ready, MediaArrives
<1>2. CASE game.story = None
  BY <1>2 DEF MediaArrives, BoardsIdle
<1>3. CASE game.story # None
  <2> DEFINE load == loads[i]
             board == game.story.board[game.story.node]
             image == IF comes /\ game.key = load.node THEN load.node ELSE game.image
             puzzle == IF Kind[load.node] # "puzzle" THEN None
                       ELSE IF board # None THEN board ELSE shuffle
             shown == [game EXCEPT !.image = image, !.puzzle = puzzle]
             ended == IF load.mine THEN game.story.completed ELSE load.ended
  <2>1. /\ game \in GameRec /\ game.story \in Story /\ game.attempt \in AttemptRec
        /\ load \in LoadRec
    BY <1>1, <1>3, Played DEF StoryInv, StoryTypeOK
  <2>2. board \in Orders \cup {None} /\ shuffle \in Orders
    BY <2>1, StoryAssumption DEF Story, Shuffled
  <2>3. image \in Nodes \cup {None} /\ puzzle \in Orders \cup {None}
    BY <2>1, <2>2 DEF GameRec, LoadRec
  <2>4. IF load.by = "open"
        THEN game' = Drawn(shown) /\ UNCHANGED saved
        ELSE /\ saved' = StoredBy(shown)
             /\ IF ended THEN FinishAfterFeedback(Kept(shown)) ELSE game' = Drawn(Kept(shown))
    BY <1>3 DEF MediaArrives
  <2>5. \/ puzzle = None
        \/ puzzle = board /\ board # None
        \/ puzzle \in Shuffles /\ board = None
    OBVIOUS
  <2> HIDE DEF image, puzzle, load, ended
  <2>6. /\ shown \in GameRec /\ shown.story = game.story /\ shown.attempt = game.attempt
        /\ shown.puzzle = puzzle
    BY <2>1, <2>3 DEF GameRec
  <2> HIDE DEF shown, board
  <2>7. /\ Kept(shown) \in GameRec /\ Kept(shown).story = game.story
        /\ Kept(shown).puzzle = puzzle
        /\ StoredBy(shown) = [game.attempt EXCEPT !.story = game.story]
    BY <2>1, <2>6, KeptFields
  <2>8. saved' = saved \/ (saved' # None /\ saved'.story = game.story)
    <3> DEFINE a == [game.attempt EXCEPT !.story = game.story]
    <3>1. a # None /\ a.story = game.story
      BY <2>1, AttemptFields, SomeStory
    <3> HIDE DEF a
    <3>2. saved' = saved \/ saved' = a
      BY <2>4, <2>7 DEF a
    <3> QED BY <3>1, <3>2
  <2>9. \/ game' = Drawn(shown) \/ game' = Drawn(Kept(shown))
        \/ game' = Drawn([Kept(shown) EXCEPT !.finishing = TRUE])
    BY <2>4 DEF FinishAfterFeedback
  <2>10. game' \in GameRec /\ game'.story = game.story /\ game'.puzzle = puzzle
    BY <2>6, <2>7, <2>9, DrawnFields, FeedbackFields
  <2> QED BY <1>1, <1>3, <2>5, <2>8, <2>10, SomeStory DEF BoardsShown, BoardsSaved, board
<1> QED BY <1>2, <1>3

LEMMA AnsweredBoards ==
    ASSUME StoryInv, NEW state \in {"synced", "rejected", "sync_queued"}, Answered(state)
    PROVE  BoardsRest
<1> DEFINE done == [game EXCEPT !.complete = @ \/ state # "rejected"]
           a == [game.attempt EXCEPT !.state = state]
<1>1. game # None /\ game \in GameRec
  BY DEF StoryInv, Ready, StoryTypeOK, Answered
<1>2. /\ done \in GameRec /\ done.story = game.story /\ done.attempt = game.attempt
      /\ done.puzzle = game.puzzle /\ done.image = game.image
  BY <1>1 DEF GameRec
<1>3. CASE game.attempt = None
  <2>1. game' = done /\ UNCHANGED saved
    BY <1>3 DEF Answered
  <2> HIDE DEF done
  <2> QED BY <1>1, <1>2, <2>1, SomeStory DEF BoardsRest, BoardsSaved
<1>4. CASE game.attempt # None
  <2>1. game.attempt \in AttemptRec /\ saved = game.attempt /\ game.story # None
    BY <1>1, <1>4 DEF GameRec, StoryInv, GameHeld
  <2>2. a \in AttemptRec /\ a.story = game.attempt.story
    BY <2>1 DEF AttemptRec
  <2>3. game' = [done EXCEPT !.attempt = a] /\ saved' = game'.attempt
    BY <1>2, <1>4 DEF Answered
  <2> HIDE DEF done, a
  <2>4. /\ game' \in GameRec /\ game'.story = game.story /\ game'.attempt = a
        /\ game'.puzzle = game.puzzle /\ game'.image = game.image
    BY <1>2, <2>2, <2>3 DEF GameRec
  <2> QED BY <1>1, <1>4, <2>1, <2>2, <2>3, <2>4, SomeStory DEF BoardsRest, BoardsSaved
<1> QED BY <1>3, <1>4

LEMMA LevelBoards ==
    ASSUME StoryInv, NEW i \in DOMAIN loads, LevelArrives(i)
    PROVE  BoardsCome
<1> DEFINE a == Attempt(loads[i].fresh)
           story == Restored(a.story)
<1>1. game # None /\ game \in GameRec /\ loads[i] \in LoadRec
  BY DEF StoryInv, Ready, StoryTypeOK
<1>2. loads[i].fresh \in BOOLEAN
  BY <1>1 DEF LoadRec
<1>3. a \in AttemptRec /\ story \in Story
  BY <1>2, ComingAttempt
<1>4. story.node \in Nodes
  BY <1>3 DEF Story
<1>5. /\ game' = [game EXCEPT !.attempt = a, !.story = story,
                              !.image = None, !.key = story.node]
      /\ saved' = a
  BY DEF LevelArrives
<1> HIDE DEF a, story
<1>6. /\ game' \in GameRec /\ game'.story = story
      /\ game'.puzzle = game.puzzle /\ game'.image = None
  BY <1>1, <1>3, <1>4, <1>5 DEF GameRec
<1> QED BY <1>1, <1>2, <1>5, <1>6, SomeStory DEF BoardsCome, a, story

LEMMA BoardKinds ==
    ASSUME StoryInv, [Next]_vars
    PROVE  \/ BoardsIdle \/ BoardsRest \/ BoardsShown \/ BoardsMove \/ BoardsCome
           \/ Opens
<1>1. CASE UNCHANGED vars
  BY <1>1 DEF vars, BoardsIdle
<1>2. ASSUME NEW fresh \in BOOLEAN, LoadGame(fresh) PROVE Opens
  BY <1>2 DEF LoadGame, Opens
<1>3. ASSUME NEW i \in DOMAIN loads, LevelArrives(i) PROVE BoardsCome
  BY <1>3, LevelBoards
<1>4. ASSUME NEW i \in DOMAIN loads, LevelFails(i) PROVE BoardsIdle
  BY <1>4 DEF LevelFails, BoardsIdle
<1>5. ASSUME NEW i \in DOMAIN loads, NEW comes \in BOOLEAN, NEW shuffle \in Shuffles,
             MediaArrives(i, comes, shuffle)
      PROVE  BoardsIdle \/ BoardsShown
  BY <1>5, MediaBoards
<1>6. ASSUME game # None, game.story # None
      PROVE  /\ game.story \in Story
             /\ \A n \in Nodes : n \in Options[game.story.node] \cup {NextNode[game.story.node]}
                  => Enter(game.story, n) \in Story
  BY <1>6, Played, EnterFields
<1>7. CASE Continue
  <2> DEFINE n == game.story.node
  <2>1. /\ game # None /\ game.story # None /\ n \in Nodes
        /\ "story next" \in Offered(game)
    BY <1>7, OfferedStory DEF Continue
  <2>2. NextNode[n] \in Nodes
    BY <2>1, StoryAssumption DEF ValidStory, Offered
  <2> QED BY <1>6, <1>7, <2>1, <2>2, BoardsThrough, StoryActionBoards DEF Continue
<1>8. ASSUME NEW n \in Nodes, Choose(n) PROVE BoardsRest
  <2>1. game # None /\ game.story # None /\ n \in Options[game.story.node]
    BY <1>8, OfferedStory DEF Choose
  <2> QED BY <1>6, <1>8, <2>1, BoardsThrough, StoryActionBoards DEF Choose
<1>9. ASSUME NEW spot \in UNION Range(Spots), PressSpot(spot) PROVE BoardsRest
  <2>1. game # None /\ game.story # None
    BY <1>9, OfferedStory DEF PressSpot
  <2>2. FindHotspot(game.story, spot) \in Story
    BY <1>6, <2>1, SpotFields
  <2> QED BY <1>6, <1>9, <2>1, <2>2, BoardsThrough, StoryActionBoards DEF PressSpot
<1>10. ASSUME NEW item \in Items, PressItem(item) PROVE BoardsRest
  <2>1. /\ game # None /\ game.story # None /\ game.story.node \in Nodes
        /\ "sequence" \in Offered(game)
    BY <1>10, OfferedStory DEF PressItem
  <2>2. Kind[game.story.node] = "sequence"
    BY <2>1 DEF Offered
  <2>3. SelectSequence(game.story, item) \in Story
    BY <2>1, <2>2, Played, SequenceAdvances DEF Advances
  <2> QED BY <1>6, <1>10, <2>1, <2>3, BoardsThrough, StoryActionBoards DEF PressItem
<1>11. CASE MovePuzzle
  BY <1>11, MovePuzzleBoards
<1>12. CASE PressFinish
  BY <1>12, PressFinishBoards
<1>13. CASE SaveView
  BY <1>13, ViewBoards DEF SaveView
<1>14. CASE FinishLevel
  BY <1>14 DEF FinishLevel, BoardsIdle
<1>15. ASSUME NEW state \in {"synced", "rejected", "sync_queued"}, Answered(state)
       PROVE  BoardsRest
  BY <1>15, AnsweredBoards
<1>16. CASE Leave
  <2>1. game # None
    BY <1>16 DEF Leave, Offers, StoryInv, Ready
  <2> QED BY <1>16, <2>1, ViewBoards DEF Leave
<1>17. CASE Crash
  BY <1>17 DEF Crash, Opens
<1> QED BY <1>1, <1>2, <1>3, <1>4, <1>5, <1>7, <1>8, <1>9, <1>10, <1>11, <1>12, <1>13,
           <1>14, <1>15, <1>16, <1>17 DEF Next

-----------------------------------------------------------------------------
(* What holds of the orders a puzzle begins with, and is kept by moves,    *)
(* holds of every puzzle that is shown or saved.                           *)

\* The puzzle on the screen and the boards of both stories are orders of S.
ShownFrom(S) ==
    game # None =>
        /\ game.puzzle \in S \cup {None}
        /\ game.story # None => \A n \in Nodes : game.story.board[n] \in S \cup {None}
SavedFrom(S) ==
    (saved # None /\ saved.story # None) =>
        \A n \in Nodes : saved.story.board[n] \in S \cup {None}
BoardsFrom(S) == ShownFrom(S) /\ SavedFrom(S)

LEMMA BoardsFromStays ==
    ASSUME StoryInv, [Next]_vars, NEW S, Shuffles \subseteq S,
           \A order \in Orders \cap S : Moves(order) \subseteq S, BoardsFrom(S)
    PROVE  BoardsFrom(S)'
<1>1. ASSUME game # None, game.story # None
      PROVE  /\ game.story \in Story /\ game.story.node \in Nodes
             /\ DOMAIN game.story.board = Nodes
             /\ \A n \in Nodes : game.story.board[n] \in S \cup {None}
  BY <1>1, Played DEF Story, BoardsFrom, ShownFrom
<1>2. CASE BoardsIdle
  BY <1>2 DEF BoardsIdle, BoardsFrom, ShownFrom, SavedFrom
<1>3. CASE BoardsRest
  BY <1>1, <1>3 DEF BoardsRest, BoardsSaved, BoardsFrom, ShownFrom, SavedFrom
<1>4. CASE BoardsShown
  BY <1>1, <1>4 DEF BoardsShown, BoardsSaved, BoardsFrom, ShownFrom, SavedFrom
<1>5. CASE BoardsMove
  <2> DEFINE n == game.story.node
  <2>1. PICK order \in Moves(game.puzzle) :
          LET boards == [game.story.board EXCEPT ![n] = order]
          IN  /\ game'.puzzle = order
              /\ saved'.story.board = boards
              /\ \/ game'.story.board = boards
                 \/ game'.story.board = [boards EXCEPT ![n] = None]
    BY <1>5 DEF BoardsMove
  <2>2. game.puzzle \in Orders \cap S
    <3>1. game # None /\ game.puzzle # None
      BY <1>5 DEF BoardsMove
    <3>2. game.puzzle \in Orders
      BY <3>1 DEF StoryInv, StoryTypeOK, GameRec
    <3> QED BY <3>1, <3>2 DEF BoardsFrom, ShownFrom
  <2>3. order \in S
    BY <2>1, <2>2
  <2> DEFINE boards == [game.story.board EXCEPT ![n] = order]
             without == [boards EXCEPT ![n] = None]
  <2>4. \A m \in Nodes : boards[m] \in S \cup {None} /\ without[m] \in S \cup {None}
    BY <1>1, <1>5, <2>3 DEF BoardsMove
  <2>5. /\ saved'.story.board = boards
        /\ game'.story.board = boards \/ game'.story.board = without
    BY <2>1
  <2> HIDE DEF boards, without
  <2> QED BY <2>1, <2>3, <2>4, <2>5 DEF BoardsFrom, ShownFrom, SavedFrom
<1>6. CASE BoardsCome
  <2>1. PICK fresh \in BOOLEAN :
          saved' = Attempt(fresh) /\ game'.story = Restored(Attempt(fresh).story)
    BY <1>6 DEF BoardsCome
  <2> DEFINE a == Attempt(fresh)
  <2>2. /\ a = saved \/ a.story = None
        /\ a.story # None => Restored(a.story) = a.story
        /\ a.story = None => Restored(a.story) = Begun
    BY ComingAttempt DEF Restored
  <2> HIDE DEF a
  <2>3. saved' = a /\ game'.story = Restored(a.story)
    BY <2>1 DEF a
  <2>4. saved = None \/ saved.story = None
        \/ \A n \in Nodes : saved.story.board[n] \in S \cup {None}
    BY DEF BoardsFrom, SavedFrom
  <2>5. \A n \in Nodes : Begun.board[n] = None
    BY DEF Begun
  <2>6. SavedFrom(S)'
    BY <2>2, <2>3, <2>4 DEF SavedFrom
  <2>7. ASSUME NEW n \in Nodes PROVE game'.story.board[n] \in S \cup {None}
    <3>1. CASE a.story = None
      BY <2>2, <2>3, <2>5, <3>1
    <3>2. CASE a.story # None
      <4>1. saved' = saved /\ game'.story = saved.story /\ saved.story # None
        BY <2>2, <2>3, <3>2
      <4>2. saved # None
        BY <2>3, <3>2, <4>1, ComingAttempt DEF a
      <4> QED BY <2>4, <4>1, <4>2
    <3> QED BY <3>1, <3>2
  <2>8. game'.puzzle \in S \cup {None}
    BY <1>6 DEF BoardsCome, BoardsFrom, ShownFrom
  <2> QED BY <2>6, <2>7, <2>8 DEF BoardsFrom, ShownFrom
<1>7. CASE Opens
  <2>1. saved' = saved /\ (game' = None \/ game' = NewGame)
    BY <1>7 DEF Opens
  <2> QED BY <2>1, NewGameFits DEF BoardsFrom, ShownFrom, SavedFrom
<1> QED BY <1>2, <1>3, <1>4, <1>5, <1>6, <1>7, BoardKinds

\* Late, lost and repeated downloads, a restart and a resume bring no order onto the
\* screen or into the storage that was not shuffled and moved there
\* (loadStoryNodeMedia, movePuzzle, createStoryState): a set of orders that has the
\* shuffled ones and is closed under moves has every puzzle.
THEOREM BoardsComeByMoves ==
    ASSUME NEW CONSTANT S, Shuffles \subseteq S,
           \A order \in Orders \cap S : Moves(order) \subseteq S
    PROVE  Spec => []BoardsFrom(S)
<1>1. Init => BoardsFrom(S)
  BY DEF Init, BoardsFrom, ShownFrom, SavedFrom
<1>2. StoryInv /\ BoardsFrom(S) /\ [Next]_vars => BoardsFrom(S)'
  BY BoardsFromStays
<1> QED BY <1>1, <1>2, StoryInvHolds, PTL DEF Spec

\* On a grid whose moves spoil nothing, begun with orders that can be put together,
\* every puzzle that is shown can be (movePuzzleGroup, loadStoryNodeMedia).
THEOREM BoardsStaySolvable ==
    (MovesSpoilNothing /\ Shuffles \subseteq Solvable) => (Spec => []BoardSolvable)
<1> SUFFICES ASSUME MovesSpoilNothing, Shuffles \subseteq Solvable
             PROVE  Spec => []BoardSolvable
  OBVIOUS
<1>1. ASSUME NEW order \in Orders \cap Solvable, NEW next \in Moves(order)
      PROVE  next \in Solvable
  <2> DEFINE step == <<order, next>>
  <2>1. step \in Steps
    BY DEF Steps
  <2> QED BY <2>1, <1>1 DEF MovesSpoilNothing
<1>2. Init => BoardsFrom(Solvable)
  BY DEF Init, BoardsFrom, ShownFrom, SavedFrom
<1>3. StoryInv /\ BoardsFrom(Solvable) /\ [Next]_vars => BoardsFrom(Solvable)'
  <2>1. \A order \in Orders \cap Solvable : Moves(order) \subseteq Solvable
    BY <1>1
  <2>2. Solvable' = Solvable
    OBVIOUS
  <2> QED BY <2>1, <2>2, BoardsFromStays
<1>4. BoardsFrom(Solvable) => BoardSolvable
  BY DEF BoardsFrom, ShownFrom, BoardSolvable
<1> QED BY <1>2, <1>3, <1>4, StoryInvHolds, PTL DEF Spec

-----------------------------------------------------------------------------
(* What was put together of a puzzle is kept                               *)

LEMMA MoveKeepsPieces ==
    ASSUME NEW order, NEW next \in Moves(order)
    PROVE  Pieces(order) \subseteq Pieces(next)
<1>1. PICK s \in Cells, t \in Cells : next = Move(order, s, t)
  BY DEF Moves
<1>2. next # NoMove
  BY DEF Moves
<1> QED BY <1>1, <1>2 DEF Move, Breaks

\* The solved picture has every pair of pieces side by side.
LEMMA SolvedHasAll ==
    ASSUME NEW board \in Orders, NEW order \in Orders, Solved(order)
    PROVE  Pieces(board) \subseteq Pieces(order)
<1> SUFFICES ASSUME NEW pair \in Joined(board)
             PROVE  <<board[pair[1]], board[pair[2]]>> \in Pieces(order)
  BY DEF Pieces
<1> DEFINE a == board[pair[1]]
           b == board[pair[2]]
           spot == <<a, b>>
<1>1. spot \in Neighbours /\ a \in Cells /\ b \in Cells
  BY DEF Joined, Neighbours
<1>2. order[a] = a /\ order[b] = b
  BY <1>1 DEF Solved
<1>3. spot \in Joined(order)
  BY <1>1, <1>2 DEF Joined, Cells
<1> HIDE DEF a, b
<1>4. <<order[spot[1]], order[spot[2]]>> = spot
  BY <1>2
<1>5. spot \in Pieces(order)
  BY <1>3, <1>4 DEF Pieces
<1> QED BY <1>5 DEF a, b

\* What is saved of a board is what is shown, unless it is solved; and the puzzle
\* that is shown with the picture of its node is the board, unless it is solved.
Settled(board) == board # None /\ Solved(board)
SavedAsShown ==
    (game # None /\ game.story # None /\ saved # None /\ saved.story # None) =>
        \A n \in Nodes : \/ saved.story.board[n] = game.story.board[n]
                         \/ Settled(saved.story.board[n])
PuzzleAsShown ==
    (game # None /\ game.story # None /\ game.image = game.story.node /\ game.puzzle # None) =>
        LET board == game.story.board[game.story.node]
        IN  board = None \/ game.puzzle = board \/ Solved(game.puzzle)
AsShown == SavedAsShown /\ PuzzleAsShown

LEMMA AsShownStays ==
    ASSUME StoryInv, [Next]_vars, AsShown
    PROVE  AsShown'
<1>1. ASSUME game # None, game.story # None
      PROVE  /\ game.story \in Story /\ game.story.node \in Nodes
             /\ DOMAIN game.story.board = Nodes
             /\ saved # None
  BY <1>1, Played, SomeStory DEF Story
<1>2. CASE BoardsIdle
  BY <1>2 DEF BoardsIdle, AsShown, SavedAsShown, PuzzleAsShown
<1>3. CASE BoardsRest
  <2>1. SavedAsShown'
    BY <1>1, <1>3 DEF BoardsRest, BoardsSaved, AsShown, SavedAsShown
  <2>2. PuzzleAsShown'
    <3> SUFFICES ASSUME game'.story # None, game'.image = game'.story.node,
                        game'.puzzle # None
                 PROVE  LET board == game'.story.board[game'.story.node]
                        IN  board = None \/ game'.puzzle = board \/ Solved(game'.puzzle)
      BY DEF PuzzleAsShown
    <3>1. /\ game # None /\ game.story # None /\ game'.story.board = game.story.board
          /\ game'.puzzle = game.puzzle
      BY <1>3 DEF BoardsRest
    <3>2. game'.image # None
      <4>1. StoryInv'
        BY StoryInvStays
      <4>2. game'.story \in Story
        BY <1>3, <4>1 DEF BoardsRest, StoryInv, StoryTypeOK, GameRec
      <4> QED BY <4>2, SomeStory DEF Story
    <3>3. game'.image = game.image /\ game'.story.node = game.story.node
      BY <1>3, <3>1, <3>2 DEF BoardsRest
    <3> QED BY <3>1, <3>3 DEF AsShown, PuzzleAsShown
  <2> QED BY <2>1, <2>2 DEF AsShown
<1>4. CASE BoardsShown
  BY <1>1, <1>4 DEF BoardsShown, BoardsSaved, AsShown, SavedAsShown, PuzzleAsShown
<1>5. CASE BoardsMove
  <2> DEFINE n == game.story.node
  <2>1. PICK order \in Moves(game.puzzle) :
          LET boards == [game.story.board EXCEPT ![n] = order]
          IN  /\ game'.puzzle = order
              /\ saved'.story.board = boards
              /\ \/ game'.story.board = boards /\ game'.story.node = n
                 \/ /\ Solved(order)
                    /\ \/ game'.story.board = boards
                       \/ game'.story.board = [boards EXCEPT ![n] = None]
    BY <1>5 DEF BoardsMove
  <2>2. /\ game # None /\ game.story # None
        /\ n \in Nodes /\ DOMAIN game.story.board = Nodes
    BY <1>1, <1>5 DEF BoardsMove
  <2> DEFINE boards == [game.story.board EXCEPT ![n] = order]
             without == [boards EXCEPT ![n] = None]
  <2>3. /\ boards[n] = order
        /\ \A m \in Nodes \ {n} : without[m] = boards[m]
    BY <2>2
  <2>4. order # None
    <3>1. game.puzzle \in Orders
      BY <1>5 DEF BoardsMove, StoryInv, StoryTypeOK, GameRec
    <3> QED BY <3>1, MovesRearrange, NoneAssumption
  <2>5. /\ saved'.story.board = boards
        /\ \/ game'.story.board = boards /\ game'.story.node = n
           \/ Solved(order) /\ (game'.story.board = boards \/ game'.story.board = without)
    BY <2>1
  <2> HIDE DEF boards, without, n
  <2>6. SavedAsShown'
    <3> SUFFICES ASSUME NEW m \in Nodes
                 PROVE  saved'.story.board[m] = game'.story.board[m]
                        \/ Settled(saved'.story.board[m])
      BY DEF SavedAsShown, Settled
    <3> QED BY <2>3, <2>4, <2>5 DEF Settled
  <2>7. PuzzleAsShown'
    BY <2>1, <2>3, <2>5 DEF PuzzleAsShown
  <2> QED BY <2>6, <2>7 DEF AsShown
<1>6. CASE BoardsCome
  <2>1. PICK fresh \in BOOLEAN :
          saved' = Attempt(fresh) /\ game'.story = Restored(Attempt(fresh).story)
    BY <1>6 DEF BoardsCome
  <2> DEFINE a == Attempt(fresh)
  <2>2. a.story # None => Restored(a.story) = a.story
    BY DEF Restored
  <2>3. Restored(a.story) \in Story
    BY ComingAttempt
  <2> HIDE DEF a
  <2>4. saved' = a /\ game'.story = Restored(a.story)
    BY <2>1 DEF a
  <2>5. game'.image # game'.story.node
    BY <1>6, <2>3, <2>4, SomeStory DEF BoardsCome, Story
  <2> QED BY <2>2, <2>4, <2>5 DEF AsShown, SavedAsShown, PuzzleAsShown
<1>7. CASE Opens
  <2>1. saved' = saved /\ (game' = None \/ game' = NewGame)
    BY <1>7 DEF Opens
  <2> QED BY <2>1, NewGameFits DEF AsShown, SavedAsShown, PuzzleAsShown
<1> QED BY <1>2, <1>3, <1>4, <1>5, <1>6, <1>7, BoardKinds

\* An unsolved board that is saved keeps what was put together of it.
LEMMA PiecesStay ==
    ASSUME StoryInv, [Next]_vars, AsShown, saved # None, saved'.id = saved.id,
           saved.story # None, InPlace, NEW n \in Nodes,
           saved.story.board[n] \notin {None, saved'.story.board[n]},
           ~Solved(saved.story.board[n])
    PROVE  /\ saved'.story.board[n] # None
           /\ Pieces(saved.story.board[n]) \subseteq Pieces(saved'.story.board[n])
<1> DEFINE board == saved.story.board[n]
<1>1. ASSUME game # None, game.story # None
      PROVE  /\ game.story.board[n] = board
             /\ game.story.node \in Nodes /\ DOMAIN game.story.board = Nodes
             /\ board \in Orders
  <2>1. game.story \in Story
    BY <1>1, Played
  <2>2. game.story.board[n] = board
    BY <1>1 DEF AsShown, SavedAsShown, Settled
  <2> QED BY <2>1, <2>2 DEF Story
<1>2. CASE BoardsIdle
  BY <1>2 DEF BoardsIdle
<1>3. CASE BoardsRest
  BY <1>1, <1>3 DEF BoardsRest, BoardsSaved
<1>4. CASE BoardsShown
  BY <1>1, <1>4 DEF BoardsShown, BoardsSaved
<1>5. CASE BoardsMove
  <2>1. PICK order \in Moves(game.puzzle) :
          saved'.story.board = [game.story.board EXCEPT ![game.story.node] = order]
    BY <1>5 DEF BoardsMove
  <2>2. game # None /\ game.story # None /\ game.puzzle # None
    BY <1>5 DEF BoardsMove
  <2>3. game.puzzle \in Orders
    BY <2>2 DEF StoryInv, StoryTypeOK, GameRec
  <2>4. order \in Orders /\ Pieces(game.puzzle) \subseteq Pieces(order)
    BY <2>3, MovesRearrange, MoveKeepsPieces
  <2>5. n = game.story.node /\ saved'.story.board[n] = order
    BY <1>1, <2>1, <2>2
  <2>6. game.puzzle = board \/ Solved(game.puzzle)
    BY <1>1, <2>2, <2>5 DEF InPlace, AsShown, PuzzleAsShown
  <2>7. Pieces(board) \subseteq Pieces(game.puzzle)
    BY <1>1, <2>2, <2>3, <2>6, SolvedHasAll
  <2> QED BY <2>4, <2>5, <2>7, NoneAssumption
<1>6. CASE BoardsCome
  <2>1. PICK fresh \in BOOLEAN : saved' = Attempt(fresh)
    BY <1>6 DEF BoardsCome
  <2>2. Attempt(fresh) = saved \/ Attempt(fresh).id = made + 1
    BY ComingAttempt
  <2>3. saved.id # made + 1
    BY DEF StoryInv, StoryTypeOK, SavedHeld, AttemptRec
  <2> QED BY <2>1, <2>2, <2>3
<1>7. CASE Opens
  BY <1>7 DEF Opens
<1> QED BY <1>2, <1>3, <1>4, <1>5, <1>6, <1>7, BoardKinds

-----------------------------------------------------------------------------
(* What is saved is not lost                                               *)

LEMMA KeptBySaves ==
    ASSUME StoryInv, Saves
    PROVE  /\ saved # None /\ saved'.id = saved.id
           /\ saved'.story # None
           /\ saved.story # None => Grows(saved.story, saved'.story)
           /\ game.story.completed => saved'.story.completed
           /\ game'.attempt = saved'
<1>1. game # None /\ game.story # None
  BY DEF Saves
<1>2. /\ game \in GameRec /\ game.story \in Story /\ game.attempt \in AttemptRec
      /\ game.attempt # None /\ saved = game.attempt
  BY <1>1, Played
<1>3. PICK u \in Story :
        /\ Advances(game.story, u)
        /\ game'.attempt = [game.attempt EXCEPT !.story = u]
        /\ saved' = [game.attempt EXCEPT !.story = u]
  BY DEF Saves
<1> DEFINE a == [game.attempt EXCEPT !.story = u]
<1>4. a.id = game.attempt.id /\ a.story = u
  BY <1>2, AttemptFields
<1>5. saved' = a /\ game'.attempt = a
  BY <1>3
<1> HIDE DEF a
<1>6. u # None /\ Grows(game.story, u)
  BY <1>3, SomeStory DEF Advances
<1>7. saved.story # None => Grows(saved.story, game.story)
  BY <1>1, <1>2 DEF StoryInv, GameHeld
<1>8. saved.story # None => Grows(saved.story, u)
  BY <1>6, <1>7, GrowsOn
<1> QED BY <1>2, <1>4, <1>5, <1>6, <1>8 DEF Grows

LEMMA KeptByNotes ==
    ASSUME StoryInv, Notes
    PROVE  /\ saved # None /\ saved'.id = saved.id /\ saved'.story = saved.story
           /\ game'.attempt = saved' /\ saved' # None
<1>1. game # None /\ game.attempt # None
  BY DEF Notes
<1>2. game.attempt \in AttemptRec /\ saved = game.attempt
  BY <1>1 DEF StoryInv, StoryTypeOK, GameHeld, GameRec
<1>3. PICK state \in States :
        /\ game'.attempt = [game.attempt EXCEPT !.state = state]
        /\ saved' = [game.attempt EXCEPT !.state = state]
  BY DEF Notes
<1> DEFINE a == [game.attempt EXCEPT !.state = state]
<1>4. a \in AttemptRec /\ a.id = game.attempt.id /\ a.story = game.attempt.story
  BY <1>2 DEF AttemptRec, States
<1>5. saved' = a /\ game'.attempt = a
  BY <1>3
<1> HIDE DEF a
<1> QED BY <1>1, <1>2, <1>4, <1>5, SomeStory

\* An attempt that comes is the one that is saved, or one that never was reported.
LEMMA KeptByComes ==
    ASSUME StoryInv, Comes
    PROVE  \/ saved # None /\ saved' = saved
           \/ (saved # None => saved'.id # saved.id) /\ saved'.id \notin reported
<1>1. PICK fresh \in BOOLEAN : saved' = Attempt(fresh)
  BY DEF Comes
<1> DEFINE a == Attempt(fresh)
<1>2. a # None /\ (a = saved \/ (a.id = made + 1 /\ a.story = None))
  BY ComingAttempt
<1> HIDE DEF a
<1>3. saved' = a
  BY <1>1 DEF a
<1>4. made + 1 \notin reported /\ (saved # None => saved.id # made + 1)
  BY DEF StoryInv, StoryTypeOK, SavedHeld, AttemptRec
<1> QED BY <1>2, <1>3, <1>4

\* What is saved of an attempt is kept through every later save, resume, restart and
\* late download (saveAttempt, loadGame): its hotspots, its ending, and what was put
\* together of its puzzles.
THEOREM StoryKept == Spec => StoryIsKept
<1> DEFINE Keeps ==
        (saved # None /\ saved'.id = saved.id /\ saved.story # None) =>
            /\ saved'.story # None
            /\ saved.story.completed => saved'.story.completed
            /\ \A n \in Nodes : saved.story.spots[n] \subseteq saved'.story.spots[n]
            /\ InPlace => \A n \in Nodes :
                LET board == saved.story.board[n]
                    next == saved'.story.board[n]
                IN  board \notin {None, next} /\ ~Solved(board) =>
                        next # None /\ Pieces(board) \subseteq Pieces(next)
<1>1. StoryInv /\ AsShown /\ [Next]_vars => [Keeps]_vars
  <2> SUFFICES ASSUME StoryInv, AsShown, [Next]_vars, saved # None, saved'.id = saved.id,
                      saved.story # None
               PROVE  Keeps
    OBVIOUS
  <2>1. saved'.story # None /\ Grows(saved.story, saved'.story)
    <3>1. CASE saved' = saved
      BY <3>1, GrowsSelf
    <3>2. CASE Saves
      BY <3>2, KeptBySaves
    <3>3. CASE Notes
      BY <3>3, KeptByNotes, GrowsSelf
    <3>4. CASE Comes
      BY <3>4, KeptByComes, GrowsSelf
    <3> QED BY <3>1, <3>2, <3>3, <3>4, StepKinds DEF Rests, Opens
  <2>2. ASSUME InPlace, NEW n \in Nodes,
               saved.story.board[n] \notin {None, saved'.story.board[n]},
               ~Solved(saved.story.board[n])
        PROVE  /\ saved'.story.board[n] # None
               /\ Pieces(saved.story.board[n]) \subseteq Pieces(saved'.story.board[n])
    BY <2>2, PiecesStay
  <2> QED BY <2>1, <2>2 DEF Grows
<1>2. Init => AsShown
  BY DEF Init, AsShown, SavedAsShown, PuzzleAsShown
<1>3. StoryInv /\ AsShown /\ [Next]_vars => AsShown'
  BY AsShownStays
<1> QED BY <1>1, <1>2, <1>3, StoryInvHolds, PTL DEF Spec, StoryIsKept

-----------------------------------------------------------------------------
(* Only a story at its ending is reported                                  *)

\* The game on the screen has reached its ending, and that is saved.
Finished ==
    game # None /\ game.attempt # None
    /\ game.attempt.story # None /\ game.attempt.story.completed

SavedAtEnd == saved # None /\ saved.story # None /\ saved.story.completed

\* Opening a level that is waited for: there is at most one of the game on the
\* screen, and it has no attempt yet.
LoadsFit ==
    \A i \in DOMAIN loads : loads[i].mine /\ loads[i].node = None =>
        /\ game.attempt = None
        /\ \A j \in DOMAIN loads : loads[j].mine /\ loads[j].node = None => i = j
TimersFit == \A i \in DOMAIN timers : timers[i].mine => Finished
ReportsFit == saved # None /\ saved.id \in reported => SavedAtEnd

Fits == LoadsFit /\ TimersFit /\ ReportsFit

\* As long as nothing has strayed
Straight == ~strayed => Fits

LEMMA FinishedIsSaved ==
    ASSUME StoryInv, Finished
    PROVE  SavedAtEnd
  BY DEF StoryInv, GameHeld, Finished, SavedAtEnd

\* An ending that is reached stays, and no step but the coming of an attempt
\* changes which attempt there is.
LEMMA EndStays ==
    ASSUME StoryInv, Rests \/ Saves \/ Notes
    PROVE  /\ Finished => Finished'
           /\ SavedAtEnd => SavedAtEnd'
           /\ saved' # None => saved # None /\ saved'.id = saved.id
           /\ game # None => (game'.attempt = None <=> game.attempt = None)
<1>1. CASE Rests
  <2>1. saved' = saved /\ (game # None => game'.attempt = game.attempt /\ game' # None)
    BY <1>1, SomeStory DEF Rests
  <2> QED BY <2>1 DEF Finished, SavedAtEnd
<1>2. CASE Saves
  <2>1. /\ saved # None /\ saved'.id = saved.id
        /\ saved'.story # None
        /\ saved.story # None => Grows(saved.story, saved'.story)
        /\ game'.attempt = saved'
    BY <1>2, KeptBySaves
  <2>2. game # None /\ game.story # None /\ game' \in GameRec /\ saved' \in AttemptRec
    <3>1. game # None /\ game.story # None /\ game' \in GameRec
      BY <1>2 DEF Saves
    <3>2. game.attempt \in AttemptRec
      BY <3>1, Played
    <3>3. PICK u \in Story : saved' = [game.attempt EXCEPT !.story = u]
      BY <1>2 DEF Saves
    <3> QED BY <3>1, <3>2, <3>3, AttemptFields
  <2>3. game' # None /\ saved' # None
    BY <2>2, SomeStory
  <2>4. saved = game.attempt
    BY <2>2, Played
  <2> QED BY <2>1, <2>2, <2>3, <2>4 DEF Finished, SavedAtEnd, Grows
<1>3. CASE Notes
  <2>1. /\ saved # None /\ saved'.id = saved.id /\ saved'.story = saved.story
        /\ game'.attempt = saved' /\ saved' # None
    BY <1>3, KeptByNotes
  <2>2. game # None /\ game.attempt # None /\ game' # None
    BY <1>3, SomeStory DEF Notes
  <2>3. saved = game.attempt
    BY <2>2 DEF StoryInv, GameHeld
  <2> QED BY <2>1, <2>2, <2>3 DEF Finished, SavedAtEnd
<1> QED BY <1>1, <1>2, <1>3

\* A step of the story that reports nothing and leaves what waits, or lets it wait
\* for one picture more
LEMMA FitsOn ==
    ASSUME StoryInv, Straight, Rests \/ Saves \/ Notes,
           reported' = reported,
           strayed' = strayed,
           \A i \in DOMAIN loads' : loads'[i].node = None =>
                i \in DOMAIN loads /\ loads'[i] = loads[i],
           \A i \in DOMAIN timers' : timers'[i].mine =>
                Finished' \/ (i \in DOMAIN timers /\ timers'[i] = timers[i]),
           game # None \/ loads' = loads
    PROVE  Straight'
<1> SUFFICES ASSUME ~strayed' PROVE Fits'
  BY DEF Straight
<1>1. Fits
  BY DEF Straight
<1>2. TimersFit' /\ ReportsFit'
  BY <1>1, EndStays DEF Fits, TimersFit, ReportsFit
<1>3. LoadsFit'
  <2>1. CASE game # None
    BY <1>1, <2>1, EndStays DEF Fits, LoadsFit
  <2>2. CASE game = None
    BY <2>2 DEF StoryInv, Ready, LoadsFit
  <2> QED BY <2>1, <2>2
<1> QED BY <1>2, <1>3 DEF Fits

\* storyAction
LEMMA StepsOnFits ==
    ASSUME StoryInv, Straight, Saves, StepsOn
    PROVE  Straight'
<1>1. game # None
  BY DEF Saves
<1> QED BY <1>1, FitsOn DEF StepsOn

\* A download that has ended leaves the others as they were.
LEMMA OthersWait ==
    ASSUME StoryInv, NEW i \in DOMAIN loads, loads' = RemoveAt(loads, i), LoadsFit,
           game'.attempt = None <=> game.attempt = None
    PROVE  LoadsFit'
<1>1. loads \in Seq(LoadRec) /\ DOMAIN loads = 1 .. Len(loads) /\ Len(loads) \in Nat
  BY LenProperties DEF StoryInv, StoryTypeOK
<1> DEFINE from(j) == IF j < i THEN j ELSE j + 1
<1>2. /\ DOMAIN loads' = 1 .. (Len(loads) - 1)
      /\ \A j \in DOMAIN loads' : from(j) \in DOMAIN loads /\ loads'[j] = loads[from(j)]
  BY <1>1, Removed, LenProperties
<1>3. \A j, k \in DOMAIN loads' : from(j) = from(k) => j = k
  BY <1>1, <1>2
<1> HIDE DEF from
<1> QED BY <1>2, <1>3 DEF LoadsFit

LEMMA LoadGameFits ==
    ASSUME StoryInv, Straight, NEW fresh \in BOOLEAN, LoadGame(fresh)
    PROVE  Straight'
<1> SUFFICES ASSUME ~strayed' PROVE Fits'
  BY DEF Straight
<1>1. ReportsFit
  BY DEF Straight, Fits, LoadGame
<1>2. game'.attempt = None
  BY NewGameFits DEF LoadGame
<1> DEFINE load == [by |-> "open", node |-> None, fresh |-> fresh,
                    ended |-> FALSE, mine |-> TRUE]
<1>3. loads' = Append(DisownedLoads, load) /\ load \in LoadRec
  BY DEF LoadGame, LoadRec
<1> HIDE DEF load
<1>4. /\ DOMAIN loads' = DOMAIN DisownedLoads \cup {Len(DisownedLoads) + 1}
      /\ \A i \in DOMAIN DisownedLoads : ~loads'[i].mine
  BY <1>3, DownloadsDisowned, LastItem
<1>5. LoadsFit'
  BY <1>2, <1>4 DEF LoadsFit
<1>6. TimersFit'
  BY WaitingNow, ReportsDisowned DEF LoadGame, TimersFit, Waiting
<1>7. ReportsFit'
  BY <1>1 DEF LoadGame, ReportsFit, SavedAtEnd
<1> QED BY <1>5, <1>6, <1>7 DEF Fits

\* The level comes to the game it was loaded for: nothing else is waited for.
LEMMA LevelArrivesFits ==
    ASSUME StoryInv, Straight, NEW i \in DOMAIN loads, LevelArrives(i)
    PROVE  Straight'
<1> SUFFICES ASSUME ~strayed' PROVE Fits'
  BY DEF Straight
<1>1. loads \in Seq(LoadRec) /\ loads[i] \in LoadRec
  BY DEF StoryInv, StoryTypeOK
<1>2. ~strayed /\ loads[i].mine /\ loads[i].node = None
  BY <1>1 DEF LevelArrives, LoadRec
<1>3. Fits
  BY <1>2 DEF Straight
<1>4. /\ game.attempt = None
      /\ \A j \in DOMAIN loads : loads[j].mine /\ loads[j].node = None => i = j
  BY <1>2, <1>3 DEF Fits, LoadsFit
<1> DEFINE node == Restored(Attempt(loads[i].fresh).story).node
<1>5. node \in Nodes
  BY <1>1, ComingAttempt DEF LoadRec, Story
<1>6. loads' = [loads EXCEPT ![i] = [loads[i] EXCEPT !.node = node]]
  BY DEF LevelArrives
<1> HIDE DEF node
<1>7. [loads[i] EXCEPT !.node = node].node = node
  BY <1>1 DEF LoadRec
<1>8. /\ DOMAIN loads' = DOMAIN loads
      /\ loads'[i].node = node
      /\ \A j \in DOMAIN loads \ {i} : loads'[j] = loads[j]
  BY <1>6, <1>7
<1>9. LoadsFit'
  BY <1>4, <1>5, <1>8, SomeStory DEF LoadsFit
<1>10. TimersFit'
  BY <1>3, <1>4 DEF Fits, TimersFit, Finished, LevelArrives
<1>11. ReportsFit'
  <2>1. \/ saved # None /\ saved' = saved
        \/ saved'.id \notin reported
    BY LevelComes, KeptByComes
  <2> QED BY <1>3, <2>1 DEF Fits, ReportsFit, SavedAtEnd, LevelArrives
<1> QED BY <1>9, <1>10, <1>11 DEF Fits

LEMMA MediaArrivesFits ==
    ASSUME StoryInv, Straight, NEW i \in DOMAIN loads, NEW comes \in BOOLEAN,
           NEW shuffle \in Shuffles, MediaArrives(i, comes, shuffle)
    PROVE  Straight'
<1> SUFFICES ASSUME ~strayed' PROVE Fits'
  BY DEF Straight
<1>1. loads[i] \in LoadRec /\ timers \in Seq(Reports) /\ game # None
  BY WaitingNow DEF StoryInv, StoryTypeOK, Ready, Waiting
<1>2. ~strayed /\ loads[i].mine /\ loads' = RemoveAt(loads, i) /\ reported' = reported
  BY <1>1 DEF MediaArrives, LoadRec
<1>3. Fits
  BY <1>2 DEF Straight
<1>4. Rests \/ Saves
  BY MediaKinds
<1>5. LoadsFit' /\ ReportsFit'
  BY <1>1, <1>2, <1>3, <1>4, EndStays, OthersWait DEF Fits, ReportsFit
<1>6. CASE timers' = timers
  BY <1>3, <1>4, <1>5, <1>6, EndStays DEF Fits, TimersFit
<1>7. CASE timers' # timers
  <2>1. /\ game.story # None /\ game.story.completed /\ loads[i].by # "open"
        /\ timers' = Append(timers, [mine |-> TRUE])
    BY <1>2, <1>7 DEF MediaArrives, FinishAfterFeedback
  <2>2. Finished'
    <3> DEFINE board == game.story.board[game.story.node]
               image == IF comes /\ game.key = loads[i].node THEN loads[i].node ELSE game.image
               puzzle == IF Kind[loads[i].node] # "puzzle" THEN None
                         ELSE IF board # None THEN board ELSE shuffle
               shown == [game EXCEPT !.image = image, !.puzzle = puzzle]
    <3>1. game \in GameRec /\ game.story \in Story /\ game.attempt \in AttemptRec
      BY <1>1, <2>1, Played
    <3>2. image \in Nodes \cup {None} /\ puzzle \in Orders \cup {None}
      BY <1>1, <3>1, StoryAssumption DEF GameRec, LoadRec, Story, Shuffled
    <3>3. FinishAfterFeedback(Kept(shown))
      BY <1>2, <1>7, <2>1 DEF MediaArrives
    <3> HIDE DEF image, puzzle
    <3>4. shown \in GameRec /\ shown.story = game.story /\ shown.attempt = game.attempt
      BY <3>1, <3>2 DEF GameRec
    <3> HIDE DEF shown
    <3>5. /\ Kept(shown) \in GameRec
          /\ Kept(shown).attempt = [game.attempt EXCEPT !.story = game.story]
      BY <3>1, <3>4, KeptFields
    <3>6. game' \in GameRec /\ game'.attempt = [game.attempt EXCEPT !.story = game.story]
      BY <3>3, <3>5, FeedbackFields DEF FinishAfterFeedback
    <3>7. [game.attempt EXCEPT !.story = game.story] \in AttemptRec
          /\ [game.attempt EXCEPT !.story = game.story].story = game.story
      BY <3>1, AttemptFields
    <3> QED BY <2>1, <3>6, <3>7, SomeStory DEF Finished
  <2> QED BY <1>5, <2>2 DEF Fits, TimersFit
<1> QED BY <1>5, <1>6, <1>7 DEF Fits

\* The button of an ending is drawn where the story is completed, and the touch
\* saves it before the timer is set.
LEMMA PressFinishFits ==
    ASSUME StoryInv, Straight, PressFinish
    PROVE  Straight'
<1>1. /\ game # None /\ game.story # None /\ game.story.node \in Nodes
      /\ "story finish" \in Offered(game)
  BY OfferedStory DEF PressFinish
<1>2. Kind[game.story.node] = "ending"
  BY <1>1 DEF Offered
<1>3. game.story.completed
  BY <1>1, <1>2, Played DEF Sound, EndKnown
<1>4. Saves
  BY PressFinishSaves
<1>5. Finished'
  <2>1. saved'.story # None /\ saved'.story.completed /\ game'.attempt = saved'
    BY <1>3, <1>4, KeptBySaves
  <2>2. game' # None /\ saved' # None
    BY <1>4, StoryInvStays, SomeStory DEF Next, Saves, StoryInv, GameHeld
  <2> QED BY <2>1, <2>2 DEF Finished
<1>6. UNCHANGED <<loads, reported, strayed>>
  BY DEF PressFinish
<1> QED BY <1>1, <1>4, <1>5, <1>6, FitsOn

\* The timer fires where the story is finished and saved.
LEMMA FinishLevelFits ==
    ASSUME StoryInv, Straight, FinishLevel
    PROVE  Straight'
<1> SUFFICES ASSUME ~strayed' PROVE Fits'
  BY DEF Straight
<1>1. timers \in Seq(Reports) /\ timers # <<>> /\ timers' = Tail(timers)
  BY WaitingNow DEF Waiting, FinishLevel
<1>2. ~strayed /\ Head(timers).mine
  BY <1>1, TailReports DEF FinishLevel, Reports
<1>3. Fits
  BY <1>2 DEF Straight
<1>4. Finished
  BY <1>1, <1>2, <1>3, TailReports DEF Fits, TimersFit
<1>5. SavedAtEnd
  BY <1>4, FinishedIsSaved
<1>6. UNCHANGED <<game, loads, saved>>
  BY DEF FinishLevel
<1>7. TimersFit'
  BY <1>4, <1>6 DEF TimersFit, Finished
<1>8. LoadsFit' /\ ReportsFit'
  BY <1>3, <1>5, <1>6 DEF Fits, LoadsFit, ReportsFit, SavedAtEnd
<1> QED BY <1>7, <1>8 DEF Fits

LEMMA AnsweredFits ==
    ASSUME StoryInv, Straight,
           NEW state \in {"synced", "rejected", "sync_queued"}, Answered(state)
    PROVE  Straight'
<1> SUFFICES ASSUME ~strayed' PROVE Fits'
  BY DEF Straight
<1>1. ~strayed
  BY DEF Answered
<1>2. Fits
  BY <1>1 DEF Straight
<1>3. Rests \/ Notes
  BY AnsweredKinds
<1>4. UNCHANGED <<loads, timers, reported>> /\ game # None
  BY DEF Answered, StoryInv, Ready
<1> QED BY <1>2, <1>3, <1>4, EndStays DEF Fits, LoadsFit, TimersFit, ReportsFit

LEMMA StraightStays ==
    ASSUME StoryInv, Straight, [Next]_vars
    PROVE  Straight'
<1>1. CASE UNCHANGED vars
  BY <1>1 DEF vars, Straight, Fits, LoadsFit, TimersFit, ReportsFit, Finished, SavedAtEnd
<1>2. ASSUME NEW fresh \in BOOLEAN, LoadGame(fresh) PROVE Straight'
  BY <1>2, LoadGameFits
<1>3. ASSUME NEW i \in DOMAIN loads, LevelArrives(i) PROVE Straight'
  BY <1>3, LevelArrivesFits
<1>4. ASSUME NEW i \in DOMAIN loads, LevelFails(i) PROVE Straight'
  <2>1. loads' = RemoveAt(loads, i) /\ UNCHANGED <<game, timers, saved, reported, strayed>>
    BY <1>4 DEF LevelFails
  <2>2. LoadsFit => LoadsFit'
    BY <2>1, OthersWait
  <2> QED BY <2>1, <2>2
          DEF Straight, Fits, TimersFit, ReportsFit, Finished, SavedAtEnd
<1>5. ASSUME NEW i \in DOMAIN loads, NEW comes \in BOOLEAN, NEW shuffle \in Shuffles,
             MediaArrives(i, comes, shuffle)
      PROVE  Straight'
  BY <1>5, MediaArrivesFits
<1>6. CASE Continue
  BY <1>6, ContinueSaves, StepsOnFits
<1>7. ASSUME NEW n \in Nodes, Choose(n) PROVE Straight'
  BY <1>7, ChooseSaves, StepsOnFits
<1>8. ASSUME NEW spot \in UNION Range(Spots), PressSpot(spot) PROVE Straight'
  BY <1>8, PressSpotSaves, StepsOnFits
<1>9. ASSUME NEW item \in Items, PressItem(item) PROVE Straight'
  BY <1>9, PressItemSaves, StepsOnFits
<1>10. CASE MovePuzzle
  <2>1. UNCHANGED <<loads, timers, reported, strayed>>
    BY <1>10 DEF MovePuzzle
  <2> QED BY <1>10, <2>1, MovePuzzleSaves, FitsOn
<1>11. CASE PressFinish
  BY <1>11, PressFinishFits
<1>12. CASE SaveView
  <2>1. UNCHANGED <<loads, timers, reported, strayed>>
    BY <1>12 DEF SaveView
  <2>2. Rests \/ Saves
    BY <1>12, ViewSaves DEF SaveView
  <2> QED BY <2>1, <2>2, FitsOn
<1>13. CASE FinishLevel
  BY <1>13, FinishLevelFits
<1>14. ASSUME NEW state \in {"synced", "rejected", "sync_queued"}, Answered(state)
       PROVE  Straight'
  BY <1>14, AnsweredFits
<1>15. CASE Leave
  <2>1. UNCHANGED <<loads, timers, reported, strayed>>
    BY <1>15 DEF Leave
  <2>2. game # None
    BY <1>15 DEF Leave, Offers, StoryInv, Ready
  <2>3. Rests \/ Saves
    BY <1>15, <2>2, ViewSaves DEF Leave
  <2> QED BY <2>1, <2>3, FitsOn
<1>16. CASE Crash
  BY <1>16 DEF Crash, Straight, Fits, LoadsFit, TimersFit, ReportsFit, SavedAtEnd
<1> QED BY <1>1, <1>2, <1>3, <1>4, <1>5, <1>6, <1>7, <1>8, <1>9, <1>10, <1>11, <1>12,
           <1>13, <1>14, <1>15, <1>16 DEF Next

\* As long as no download, timer or answer acts on a game it was not for, an
\* attempt that is reported complete is saved at its ending (finishLevel).
THEOREM ReportedWhenEnded == Spec => []ReportedAtEnd
<1>1. Init => Straight
  BY DEF Init, Straight, Fits, LoadsFit, TimersFit, ReportsFit
<1>2. Straight => ReportedAtEnd
  BY DEF Straight, Fits, ReportsFit, SavedAtEnd, ReportedAtEnd
<1> QED BY <1>1, <1>2, StoryInvHolds, StraightStays, PTL DEF Spec

-----------------------------------------------------------------------------
(* There is always a way on                                                *)

\* The board has a move left, or is solved.
Movable ==
    (game # None /\ game.puzzle # None) => Solved(game.puzzle) \/ Moves(game.puzzle) # {}

\* If no story leads back to a sequence it has solved, a node that is shown with
\* its picture offers a button, a hotspot, an item or a move (renderStoryGame): the
\* one thing that can hold the player is a board without a move (movePuzzleGroup).
THEOREM StoryGoesOn == SequencesOnce => (Spec => [](Movable => GoesOn))
<1> SUFFICES ASSUME SequencesOnce PROVE Spec => [](Movable => GoesOn)
  OBVIOUS
<1>1. StoryInv => (Movable => GoesOn)
  <2> SUFFICES ASSUME StoryInv, Movable, scene = "game", game.story # None, Current(game)
               PROVE  LET n == game.story.node
                      IN  \/ Offered(game) \cap {"story next", "story finish", "choice"} # {}
                          \/ Kind[n] = "hotspot" /\ Spots[n] # game.story.spots[n]
                          \/ Kind[n] = "sequence" /\ Range(Answer[n]) # Range(game.story.picked[n])
                          \/ Kind[n] = "puzzle" /\ (Solved(game.puzzle) \/ Moves(game.puzzle) # {})
    BY DEF GoesOn
  <2> DEFINE n == game.story.node
  <2>1. game # None
    BY DEF StoryInv, Ready
  <2>2. game \in GameRec /\ game.story \in Story /\ Sound(game.story)
    BY <2>1, Played
  <2>3. /\ n \in Nodes /\ game.story.picked[n] \in Seq(Items)
        /\ game.image = n /\ game.image # None
        /\ game.puzzle # None <=> Kind[n] = "puzzle"
    BY <2>2, SomeStory DEF Story, Current
  <2>4. CASE Kind[n] = "hotspot"
    <3>1. CASE Cardinality(game.story.spots[n]) >= Required[n]
      <4>1. "story next" \in Offered(game)
        BY <2>4, <3>1 DEF Offered
      <4> QED BY <4>1
    <3>2. CASE ~(Cardinality(game.story.spots[n]) >= Required[n])
      <4>1. \A m \in Nodes : Required[m] \in 0 .. Cardinality(Spots[m])
        BY StoryAssumption DEF ValidStory
      <4>2. Required[n] \in Int /\ Required[n] <= Cardinality(Spots[n])
        BY <2>3, <4>1
      <4>3. Spots[n] # game.story.spots[n]
        BY <3>2, <4>2
      <4> QED BY <2>4, <4>3
    <3> QED BY <3>1, <3>2
  <2>5. CASE Kind[n] = "sequence"
    <3>1. Len(game.story.picked[n]) < Len(Answer[n])
      BY <2>2, <2>3, <2>5, BeyondFits DEF Sound, SequencesOpen
    <3> QED BY <2>3, <2>5, <3>1, ShortIsOpen
  <2>6. CASE Kind[n] = "puzzle"
    BY <2>1, <2>3, <2>6 DEF Movable
  <2>7. CASE Kind[n] \notin {"hotspot", "sequence", "puzzle"}
    <3>1. Offered(game) \cap {"story next", "story finish", "choice"} # {}
      <4>1. CASE Kind[n] = "choice"
        <5>1. "choice" \in Offered(game)
          BY <4>1 DEF Offered
        <5> QED BY <5>1
      <4>2. CASE Kind[n] = "ending"
        <5>1. "story finish" \in Offered(game)
          BY <4>2 DEF Offered
        <5> QED BY <5>1
      <4>3. CASE Kind[n] \notin {"choice", "ending"}
        <5>1. "story next" \in Offered(game)
          BY <2>7, <4>3 DEF Offered
        <5> QED BY <5>1
      <4> QED BY <4>1, <4>2, <4>3
    <3> QED BY <3>1
  <2> QED BY <2>4, <2>5, <2>6, <2>7
<1> QED BY <1>1, StoryInvHolds, PTL

\* The puzzle on the screen is solved or has two pieces left that are put together
\* with no other.
Unfinished ==
    (game # None /\ game.puzzle # None) =>
        \/ Solved(game.puzzle)
        \/ \E s, t \in Cells : s # t /\ Loose(game.puzzle, s) /\ Loose(game.puzzle, t)

\* Such a puzzle never holds the player, since two loose pieces can change places
\* (movePuzzleGroup): only boards of groups and one piece at most can.
THEOREM LooseGoesOn == SequencesOnce => (Spec => [](Unfinished => GoesOn))
<1> SUFFICES ASSUME SequencesOnce PROVE Spec => [](Unfinished => GoesOn)
  OBVIOUS
<1>1. StoryInv => (Unfinished => Movable)
  <2> SUFFICES ASSUME StoryInv, Unfinished, game # None, game.puzzle # None,
                      ~Solved(game.puzzle)
               PROVE  Moves(game.puzzle) # {}
    BY DEF Movable
  <2>1. game.puzzle \in Orders
    BY DEF StoryInv, StoryTypeOK, GameRec
  <2> QED BY <2>1, TwoLoosePiecesMove DEF Unfinished
<1>2. Spec => [](Movable => GoesOn)
  BY StoryGoesOn
<1> QED BY <1>1, <1>2, StoryInvHolds, PTL

=============================================================================
