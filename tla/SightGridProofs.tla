--------------------------- MODULE SightGridProofs ---------------------------
(***************************************************************************)
(* The geometry of SightGrid, and SightWalk's properties, for a world and  *)
(* sectors of any size.  The argument is about quotients: those of two     *)
(* numbers at most a divisor apart differ by one at most, so the corners   *)
(* of a square no wider than a sector name every sector that the square    *)
(* touches.                                                                *)
(***************************************************************************)
EXTENDS SightWalk, TLAPS

(* Multiplication by a natural number is monotone. *)
LEMMA TimesMonotone ==
    ASSUME NEW n \in Nat, NEW a \in Int, NEW b \in Int, a <= b
    PROVE  n * a <= n * b
<1>1. PICK d \in Nat : b = a + d
  <2>1. b - a \in Nat /\ b = a + (b - a)
    OBVIOUS
  <2>2. QED
    BY <2>1
<1>2. n * b = n * a + n * d /\ n * d \in Nat /\ n * a \in Int
  BY <1>1
<1>3. QED
  BY <1>2

(* What a quotient is. *)
LEMMA Quotient ==
    ASSUME NEW n \in Nat \ {0}, NEW a \in Int
    PROVE  /\ a \div n \in Int
           /\ n * (a \div n) \in Int
           /\ n * (a \div n) <= a
           /\ a < n * (a \div n) + n
OBVIOUS

LEMMA QuotientMonotone ==
    ASSUME NEW n \in Nat \ {0}, NEW a \in Int, NEW b \in Int, a <= b
    PROVE  a \div n <= b \div n
<1> DEFINE p == a \div n
           q == b \div n
<1>1. /\ p \in Int /\ n * p \in Int /\ n * p <= a
      /\ q \in Int /\ n * q \in Int /\ b < n * q + n
  BY Quotient
<1> HIDE DEF p, q
<1>2. SUFFICES ASSUME q + 1 <= p PROVE FALSE
  BY <1>1 DEF p, q
<1>3. n * (q + 1) <= n * p
  BY <1>1, <1>2, TimesMonotone
<1>4. n * (q + 1) = n * q + n
  BY <1>1
<1>5. QED
  BY <1>1, <1>3, <1>4

(* Numbers at most a divisor apart have neighbouring quotients. *)
LEMMA QuotientNext ==
    ASSUME NEW n \in Nat \ {0}, NEW a \in Int, NEW b \in Int, b <= a + n
    PROVE  b \div n <= (a \div n) + 1
<1> DEFINE p == a \div n
           q == b \div n
<1>1. /\ p \in Int /\ n * p \in Int /\ a < n * p + n
      /\ q \in Int /\ n * q \in Int /\ n * q <= b
  BY Quotient
<1> HIDE DEF p, q
<1>2. SUFFICES ASSUME p + 2 <= q PROVE FALSE
  BY <1>1 DEF p, q
<1>3. n * (p + 2) <= n * q
  BY <1>1, <1>2, TimesMonotone
<1>4. n * (p + 2) = n * p + n + n
  BY <1>1
<1>5. QED
  BY <1>1, <1>3, <1>4

(* A distance whose square is within that of the radius is within it. *)
LEMMA Within ==
    ASSUME NEW r \in Nat, NEW d \in Int, NEW e \in Int, d * d + e * e <= r * r
    PROVE  -r <= d /\ d <= r
<1>1. e * e \in Nat
  <2>1. CASE e >= 0
    BY <2>1
  <2>2. CASE e < 0
    <3>1. -e \in Nat /\ e * e = (-e) * (-e)
      BY <2>2
    <3>2. QED
      BY <3>1
  <2>3. QED
    BY <2>1, <2>2
<1>2. \A x \in Nat : x > r => x * x > r * r
  <2>1. TAKE x \in Nat
  <2>2. HAVE x > r
  <2>3. x * r >= r * r /\ x * x >= x * (r + 1)
    BY <2>2, TimesMonotone
  <2>4. x * (r + 1) = x * r + x /\ x * r \in Int /\ x * x \in Int /\ r * r \in Int
    OBVIOUS
  <2>5. QED
    BY <2>2, <2>3, <2>4
<1>3. d * d <= r * r /\ d * d \in Int /\ r * r \in Int
  BY <1>1
<1>4. CASE d >= 0
  BY <1>2, <1>3, <1>4
<1>5. CASE d < 0
  <2>1. -d \in Nat /\ (-d) * (-d) = d * d
    BY <1>5
  <2>2. ~(-d > r)
    BY <2>1, <1>2, <1>3
  <2>3. QED
    BY <2>2, <1>5
<1>6. QED
  BY <1>4, <1>5

-----------------------------------------------------------------------------
(* The indices of coordinates that the grid covers. *)

LEMMA GridTypes ==
    /\ World \in Nat /\ Margin \in Nat /\ Cell \in Nat /\ CellCount \in Nat
    /\ SectorSize \in Nat \ {0} /\ SightRad \in Nat
    /\ SectorCount \in Nat \ {0}
    /\ SectorCount * SectorSize \in Nat
    /\ 2 * SightRad <= SectorSize /\ SectorCount <= CellCount
    /\ World - Margin + SightRad < SectorCount * SectorSize
    /\ Start \in Coordinates
<1>1. /\ World \in Nat /\ Margin \in Nat /\ Cell \in Nat /\ CellCount \in Nat
      /\ SectorSize \in Nat \ {0} /\ SightRad \in Nat
      /\ 2 * SightRad <= SectorSize /\ SectorCount <= CellCount
      /\ World - Margin + SightRad < SectorCount * SectorSize
      /\ Start \in Margin..(World - Margin)
  BY SightGridAssumption
<1>2. SectorCount \in Int
  BY <1>1, Quotient DEF SectorCount
<1>3. 0 < SectorCount * SectorSize /\ SectorCount * SectorSize \in Int
  BY <1>1, <1>2
<1>4. SectorCount > 0
  <2>1. SUFFICES ASSUME SectorCount <= 0 PROVE FALSE
    BY <1>2
  <2>2. SectorSize * SectorCount <= SectorSize * 0
    BY <1>1, <1>2, <2>1, TimesMonotone
  <2>3. SectorSize * SectorCount = SectorCount * SectorSize /\ SectorSize * 0 = 0
    BY <1>1, <1>2
  <2>4. QED
    BY <2>2, <2>3, <1>3
<1>5. QED
  BY <1>1, <1>2, <1>3, <1>4 DEF Coordinates

(* The index of a coordinate: the clamps only ever replace what is below 0.*)
LEMMA IndexIs ==
    ASSUME NEW c \in Int, c < SectorCount * SectorSize
    PROVE  /\ Index(c) \in 0..(SectorCount - 1)
           /\ c < 0 => Index(c) = 0
           /\ c >= 0 => Index(c) = c \div SectorSize
<1> USE GridTypes
<1>1. CASE c < 0
  <2>1. (-c) \div SectorSize \in Int /\ 0 \div SectorSize <= (-c) \div SectorSize
    BY <1>1, Quotient, QuotientMonotone
  <2>2. 0 \div SectorSize = 0
    OBVIOUS
  <2>3. Truncated(c) \in Int /\ Truncated(c) <= 0
    BY <1>1, <2>1, <2>2 DEF Truncated
  <2>4. Index(c) = 0
    BY <2>3 DEF Index
  <2>5. QED
    BY <1>1, <2>4
<1>2. CASE c >= 0
  <2> DEFINE q == c \div SectorSize
  <2>1. q \in Int /\ SectorSize * q \in Int /\ SectorSize * q <= c /\ c < SectorSize * q + SectorSize
    BY Quotient
  <2>2. Truncated(c) = q
    BY <1>2 DEF Truncated
  <2> HIDE DEF q
  <2>3. q < SectorCount
    <3>1. SUFFICES ASSUME SectorCount <= q PROVE FALSE
      BY <2>1
    <3>2. SectorSize * SectorCount <= SectorSize * q
      BY <2>1, <3>1, TimesMonotone
    <3>3. SectorSize * SectorCount = SectorCount * SectorSize
      OBVIOUS
    <3>4. QED
      BY <3>2, <3>3, <2>1
  <2>4. 0 <= q
    <3>1. SUFFICES ASSUME q + 1 <= 0 PROVE FALSE
      BY <2>1
    <3>2. SectorSize * (q + 1) <= SectorSize * 0
      BY <2>1, <3>1, TimesMonotone
    <3>3. SectorSize * (q + 1) = SectorSize * q + SectorSize /\ SectorSize * 0 = 0
      BY <2>1
    <3>4. QED
      BY <3>2, <3>3, <2>1, <1>2
  <2>5. Index(c) = q
    BY <2>1, <2>2, <2>3, <2>4 DEF Index
  <2>6. QED
    BY <1>2, <2>1, <2>3, <2>4, <2>5 DEF q
<1>3. QED
  BY <1>1, <1>2

LEMMA IndexMonotone ==
    ASSUME NEW a \in Int, NEW b \in Int, a <= b, b < SectorCount * SectorSize
    PROVE  Index(a) <= Index(b)
<1> USE GridTypes
<1>1. a < SectorCount * SectorSize
  OBVIOUS
<1>2. Index(a) \in Nat /\ Index(b) \in Nat
  BY <1>1, IndexIs
<1>3. CASE a < 0
  BY <1>1, <1>2, <1>3, IndexIs
<1>4. CASE a >= 0
  <2>1. Index(a) = a \div SectorSize /\ Index(b) = b \div SectorSize
    BY <1>1, <1>4, IndexIs
  <2>2. QED
    BY <2>1, QuotientMonotone
<1>5. QED
  BY <1>3, <1>4

(* The coordinates a sight square spans have two indices at most, those of *)
(* its ends, provided it does not stick out of the first row or column.    *)
LEMMA EndsSuffice ==
    ASSUME NEW x \in Coordinates, NEW y \in Coordinates,
           -SightRad <= y - x, y - x <= SightRad, Index(x - SightRad) > 0
    PROVE  Index(y) \in {Index(x - SightRad), Index(x + SightRad)}
<1> USE GridTypes
<1> DEFINE low == x - SightRad
           high == x + SightRad
<1>1. /\ low \in Int /\ high \in Int /\ y \in Int
      /\ low <= y /\ y <= high /\ low <= high /\ high <= low + SectorSize
      /\ high < SectorCount * SectorSize
  BY DEF Coordinates
<1> HIDE DEF low, high
<1>2. /\ low < SectorCount * SectorSize
      /\ y < SectorCount * SectorSize
  BY <1>1
<1>3. /\ Index(low) \in Nat /\ Index(high) \in Nat /\ Index(y) \in Nat
  BY <1>1, <1>2, IndexIs
<1>4. Index(low) <= Index(y) /\ Index(y) <= Index(high)
  BY <1>1, <1>2, IndexMonotone
<1>5. low >= 0 /\ high >= 0
  <2>1. Index(low) > 0
    BY DEF low
  <2>2. QED
    BY <2>1, <1>1, <1>2, IndexIs
<1>6. Index(high) <= Index(low) + 1
  <2>1. Index(low) = low \div SectorSize /\ Index(high) = high \div SectorSize
    BY <1>1, <1>2, <1>5, IndexIs
  <2>2. QED
    BY <2>1, <1>1, QuotientNext
<1>7. Index(y) = Index(low) \/ Index(y) = Index(high)
  BY <1>3, <1>4, <1>6
<1>8. QED
  BY <1>7 DEF low, high

-----------------------------------------------------------------------------
(* Steps. *)

LEMMA StepsStay ==
    ASSUME NEW p \in Positions, NEW dir \in Directions
    PROVE  TryMove(p, dir) \in Positions
<1>1. \A c \in Coordinates : StepBack(c) \in Coordinates /\ StepForth(c) \in Coordinates
  BY GridTypes DEF Coordinates, StepBack, StepForth
<1>2. p[1] \in Coordinates /\ p[2] \in Coordinates /\ p = <<p[1], p[2]>>
  BY DEF Positions
<1>3. QED
  BY <1>1, <1>2 DEF TryMove, Directions, Positions

-----------------------------------------------------------------------------
(* Corners. *)

LEMMA PositionsAreIndexed ==
    ASSUME NEW p \in Positions, NEW c \in Corners(p) \cup {p}
    PROVE  PickCoords(c) \in Sectors
<1> USE GridTypes
<1>1. p[1] \in Coordinates /\ p[2] \in Coordinates /\ p = <<p[1], p[2]>>
  BY DEF Positions
<1>2. PICK dx \in {-1, 0, 1}, dy \in {-1, 0, 1} :
         c[1] = p[1] + dx * SightRad /\ c[2] = p[2] + dy * SightRad
  <2>1. CASE c = p
    <3>1. c[1] = p[1] + 0 * SightRad /\ c[2] = p[2] + 0 * SightRad
      BY <2>1, <1>1 DEF Coordinates
    <3>2. QED
      BY <3>1
  <2>2. CASE c \in Corners(p)
    BY <2>2 DEF Corners, Corner
  <2>3. QED
    BY <2>1, <2>2
<1>3. \A i \in {1, 2} : c[i] \in Int /\ c[i] < SectorCount * SectorSize
  BY <1>1, <1>2 DEF Coordinates
<1>4. Index(c[1]) \in 0..(SectorCount - 1) /\ Index(c[2]) \in 0..(SectorCount - 1)
  BY <1>3, IndexIs
<1>5. QED
  BY <1>4 DEF PickCoords, Sectors

(* Every place of the world has a sector, also beyond the margin.          *)
LEMMA AnywhereHasSector ==
    ASSUME NEW p \in Anywhere
    PROVE  PickCoords(p) \in Sectors
<1> USE GridTypes
<1>1. \A i \in {1, 2} : p[i] \in Int /\ p[i] < SectorCount * SectorSize
  BY SightGridAssumption DEF Anywhere
<1>2. Index(p[1]) \in 0..(SectorCount - 1) /\ Index(p[2]) \in 0..(SectorCount - 1)
  BY <1>1, IndexIs
<1>3. QED
  BY <1>2 DEF PickCoords, Sectors

(* UpdateSight takes rosters of the grid, its own sector's among them.     *)
LEMMA SearchInGrid ==
    ASSUME NEW p \in Positions
    PROVE  SearchedSectors(p) \subseteq Sectors /\ PickCoords(p) \in SearchedSectors(p)
<1>1. /\ Corner(p, -1, -1) \in Corners(p) /\ Corner(p, 1, -1) \in Corners(p)
      /\ Corner(p, -1, 1) \in Corners(p) /\ Corner(p, 1, 1) \in Corners(p)
  BY DEF Corners
<1>2. \A c \in Corners(p) \cup {p} : PickCoords(c) \in Sectors
  BY PositionsAreIndexed
<1>3. QED
  BY <1>1, <1>2 DEF SearchedSectors

LEMMA PositionsAreAnywhere == Positions \subseteq Anywhere /\ StartPosition \in Positions
<1> USE GridTypes
<1>1. Coordinates \subseteq 0..World
  BY DEF Coordinates
<1>2. QED
  BY <1>1 DEF Positions, Anywhere, StartPosition

(* Sight goes both ways, and everybody is in its own. *)
LEMMA SightIsSymmetric ==
    ASSUME NEW p \in Anywhere, NEW q \in Anywhere
    PROVE  (InSight(p, q) <=> InSight(q, p)) /\ InSight(p, p)
<1>1. \A a, b \in Int : (a - b) * (a - b) = (b - a) * (b - a)
  <2>1. TAKE a, b \in Int
  <2>2. b - a = -(a - b)
    OBVIOUS
  <2>3. \A x \in Int : (-x) * (-x) = x * x
    OBVIOUS
  <2>4. QED
    BY <2>2, <2>3
<1>2. /\ p[1] \in Int /\ p[2] \in Int /\ q[1] \in Int /\ q[2] \in Int
  BY GridTypes DEF Anywhere
<1>3. SightDistance(p, q) = SightDistance(q, p)
  BY <1>1, <1>2 DEF SightDistance
<1>4. SightDistance(p, p) = 0
  BY <1>2 DEF SightDistance
<1>5. \A r \in Nat : 0 <= r * r
  OBVIOUS
<1>6. 0 <= SightRad * SightRad
  BY <1>5, GridTypes
<1>7. QED
  BY <1>3, <1>4, <1>6 DEF InSight

-----------------------------------------------------------------------------
(* The two characters of SightWalk. *)

(* The characters stay within the margin of the world, whatever their      *)
(* steps (TryMoveLT and its fellows).                                      *)
THEOREM StaysInTheWorld == WalkSpec => []InTheWorld
<1>1. WalkInit => InTheWorld
  BY GridTypes DEF WalkInit, InTheWorld, StartPosition, Positions
<1>2. InTheWorld /\ [WalkNext]_walkVars => InTheWorld'
  <2>1. SUFFICES ASSUME InTheWorld, [WalkNext]_walkVars PROVE InTheWorld'
    OBVIOUS
  <2>2. CASE UNCHANGED walkVars
    BY <2>1, <2>2 DEF InTheWorld, walkVars
  <2>3. ASSUME NEW dir \in Directions, Walk(dir) PROVE InTheWorld'
    BY <2>1, <2>3, StepsStay DEF InTheWorld, Walk
  <2>4. ASSUME NEW dir \in Directions, OtherWalks(dir) PROVE InTheWorld'
    BY <2>1, <2>4, StepsStay DEF InTheWorld, OtherWalks
  <2>5. QED
    BY <2>1, <2>2, <2>3, <2>4 DEF WalkNext
<1>3. QED
  BY <1>1, <1>2, PTL DEF WalkSpec

(* The search never leaves the grid: SightManager::At does not throw.      *)
THEOREM CornersExist == WalkSpec => []CornersHaveSectors
<1>1. InTheWorld => CornersHaveSectors
  BY PositionsAreIndexed DEF InTheWorld, CornersHaveSectors
<1>2. QED
  BY <1>1, StaysInTheWorld, PTL

(* Away from the first row and column of sectors, UpdateSight takes the    *)
(* roster of everybody in sight.                                           *)
THEOREM InnerFound == WalkSpec => []InnerSeesAll
<1>1. InTheWorld => InnerSeesAll
  <2> USE GridTypes
  <2>1. SUFFICES ASSUME walker \in Positions, passer \in Positions,
                        Inner(walker), InSight(walker, passer)
                 PROVE  PickCoords(passer) \in SearchedSectors(walker)
    BY DEF InTheWorld, InnerSeesAll
  <2>2. /\ walker[1] \in Coordinates /\ walker[2] \in Coordinates
        /\ passer[1] \in Coordinates /\ passer[2] \in Coordinates
    BY <2>1 DEF Positions
  <2>3. \A i \in {1, 2} : walker[i] \in Int /\ passer[i] \in Int
    BY <2>2 DEF Coordinates
  <2>4. /\ -SightRad <= walker[1] - passer[1] /\ walker[1] - passer[1] <= SightRad
        /\ -SightRad <= walker[2] - passer[2] /\ walker[2] - passer[2] <= SightRad
    <3> DEFINE d == walker[1] - passer[1]
               e == walker[2] - passer[2]
    <3>1. d \in Int /\ e \in Int
      BY <2>3
    <3>2. d * d + e * e <= SightRad * SightRad
      BY <2>1 DEF InSight, SightDistance
    <3> HIDE DEF d, e
    <3>3. d * d \in Int /\ e * e \in Int
      BY <3>1
    <3>4. e * e + d * d <= SightRad * SightRad
      BY <3>2, <3>3
    <3>5. -SightRad <= d /\ d <= SightRad
      BY <3>1, <3>2, Within
    <3>6. -SightRad <= e /\ e <= SightRad
      BY <3>1, <3>4, Within
    <3>7. QED
      BY <3>5, <3>6 DEF d, e
  <2> DEFINE lu == Corner(walker, -1, -1)
             ru == Corner(walker, 1, -1)
             ld == Corner(walker, -1, 1)
             rd == Corner(walker, 1, 1)
             lx == Index(walker[1] - SightRad)
             hx == Index(walker[1] + SightRad)
             ly == Index(walker[2] - SightRad)
             hy == Index(walker[2] + SightRad)
  <2>5. /\ PickCoords(lu) = <<ly, lx>> /\ PickCoords(ru) = <<ly, hx>>
        /\ PickCoords(ld) = <<hy, lx>> /\ PickCoords(rd) = <<hy, hx>>
    <3>1. \A i \in {1, 2} : /\ walker[i] + (-1) * SightRad = walker[i] - SightRad
                            /\ walker[i] + 1 * SightRad = walker[i] + SightRad
      BY <2>3
    <3>2. QED
      BY <3>1 DEF PickCoords, Corner
  <2>6. lu \in Corners(walker) /\ ru \in Corners(walker) /\ ld \in Corners(walker) /\ rd \in Corners(walker)
    BY DEF Corners
  <2> HIDE DEF lu, ru, ld, rd
  <2>7. lx > 0 /\ hx > 0 /\ ly > 0 /\ hy > 0
    BY <2>1, <2>5, <2>6 DEF Inner
  <2>8. \A i \in {lx, hx, ly, hy} : i \in 0..(SectorCount - 1)
    <3>1. /\ PickCoords(lu) \in Sectors /\ PickCoords(rd) \in Sectors
      BY <2>1, <2>6, PositionsAreIndexed
    <3>2. QED
      BY <3>1, <2>5 DEF Sectors
  <2>9. Index(passer[1]) \in {lx, hx} /\ Index(passer[2]) \in {ly, hy}
    <3>1. Index(walker[1] - SightRad) > 0 /\ Index(walker[2] - SightRad) > 0
      BY <2>7
    <3>2. /\ -SightRad <= passer[1] - walker[1] /\ passer[1] - walker[1] <= SightRad
          /\ -SightRad <= passer[2] - walker[2] /\ passer[2] - walker[2] <= SightRad
      BY <2>3, <2>4
    <3>3. QED
      BY <2>2, <3>1, <3>2, EndsSuffice
  <2>10. /\ lx < CellCount /\ hx < CellCount /\ ly < CellCount /\ hy < CellCount
    BY <2>8
  <2>11. \A s \in {<<ly, lx>>, <<ly, hx>>, <<hy, lx>>, <<hy, hx>>} : s \in SearchedSectors(walker)
    BY <2>5, <2>7, <2>10 DEF SearchedSectors, lu, ru, ld, rd
  <2>12. PickCoords(passer) \in {<<ly, lx>>, <<ly, hx>>, <<hy, lx>>, <<hy, hx>>}
    BY <2>9 DEF PickCoords
  <2>13. QED
    BY <2>11, <2>12
<1>2. QED
  BY <1>1, StaysInTheWorld, PTL
=============================================================================
