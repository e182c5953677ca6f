------------------------------ MODULE SightGrid ------------------------------
(***************************************************************************)
(* The geometry of the world: where a character may walk, which sector of  *)
(* the grid a position belongs to (SightManager), which sectors            *)
(* UpdateSight searches for other characters, who is in sight of whom, and *)
(* whom an attack touches.  A position is <<x, y>>; a sector is named by   *)
(* what PickCoords returns, its row first.                                 *)
(***************************************************************************)
EXTENDS Integers

CONSTANTS
    World,       \* WORLD_W = WORLD_H: the side of the world
    Margin,      \* how near its edge a character may come (8)
    Cell,        \* CELL_W = CELL_H: the length of a step
    SectorSize,  \* SIGHT_W = SIGHT_H: the side of a sector
    SightRad,    \* SIGHT_RAD_W = SIGHT_RAD_H
    CellCount,   \* WORLD_CELLS_CNT_H = WORLD_CELLS_CNT_V
    Box,         \* half the side of a bounding box (16)
    Start        \* the coordinates a player starts at (100)

(* SectorCount is ceil(w / sector_w) of SightManager's constructor.        *)
SectorCount == (World + SectorSize - 1) \div SectorSize

(* The relations between the constants of Commons.hpp that the code relies *)
(* on: a sight square spans at most two sectors a side, and the last       *)
(* sector reaches far enough beyond the world to hold a corner of the      *)
(* square.                                                                 *)
ASSUME SightGridAssumption ==
    /\ World \in Nat /\ Margin \in Nat /\ Cell \in Nat /\ CellCount \in Nat
    /\ SectorSize \in Nat \ {0} /\ SightRad \in Nat /\ Box \in Nat
    /\ Start \in Margin..(World - Margin)
    /\ 2 * SightRad <= SectorSize /\ Margin <= SightRad
    /\ World - Margin + SightRad < SectorCount * SectorSize
    /\ SectorCount <= CellCount

Directions == {"LEFT", "RIGHT", "UP", "DOWN"}
Coordinates == Margin..(World - Margin)
Positions == Coordinates \X Coordinates
StartPosition == <<Start, Start>>
Anywhere == (0..World) \X (0..World)
Sectors == (0..(SectorCount - 1)) \X (0..(SectorCount - 1))

-----------------------------------------------------------------------------
(* Session::TryMoveLT and its fellows: a step, cut short at the margin.    *)
(* A character has moved when its position differs.                        *)
(* A bug to be caught: the edge of the world is taken for its margin. *)
StepBackToEdge(c) == IF 0 < c - Cell THEN c - Cell ELSE 0
StepBack(c) == IF Margin < c - Cell THEN c - Cell ELSE Margin
(* A bug to be caught: a step that is not cut short. *)
StepForthUnbounded(c) == c + Cell
StepForth(c) == IF c + Cell < World - Margin THEN c + Cell ELSE World - Margin

TryMove(pos, dir) ==
    CASE dir = "LEFT"  -> <<StepBack(pos[1]), pos[2]>>
      [] dir = "RIGHT" -> <<StepForth(pos[1]), pos[2]>>
      [] dir = "UP"    -> <<pos[1], StepBack(pos[2])>>
      [] dir = "DOWN"  -> <<pos[1], StepForth(pos[2])>>

(* The index of a coordinate: a quotient, truncated towards zero, and      *)
(* clamped - to the number of cells, not of sectors.                       *)
Truncated(c) == IF c < 0 THEN -((-c) \div SectorSize) ELSE c \div SectorSize
Index(c) ==
    LET i == Truncated(c)
    IN IF i < 0 THEN 0 ELSE IF i > CellCount - 1 THEN CellCount - 1 ELSE i

PickCoords(pos) == <<Index(pos[2]), Index(pos[1])>>

(* The corners of the sight square. *)
Corner(pos, dx, dy) == <<pos[1] + dx * SightRad, pos[2] + dy * SightRad>>
Corners(pos) == {Corner(pos, dx, dy) : dx, dy \in {-1, 1}}

(* A bug to be caught: one corner forgotten. *)
SearchedSectorsButOne(pos) ==
    LET lu == PickCoords(Corner(pos, -1, -1))
        ru == PickCoords(Corner(pos, 1, -1))
        ld == PickCoords(Corner(pos, -1, 1))
    IN {PickCoords(pos)}
       \cup {s \in {lu} : 0 < s[1] /\ 0 < s[2]}
       \cup {s \in {ru} : 0 < s[2]}
       \cup {s \in {ld} : 0 < s[1]}

(* The sectors UpdateSight takes the lists of: its own, and that of each   *)
(* corner that passes a test.  The tests on the low side want an index     *)
(* above 0, those on the high side compare with the number of cells, which *)
(* no index reaches.                                                       *)
SearchedSectors(pos) ==
    LET lu == PickCoords(Corner(pos, -1, -1))
        ru == PickCoords(Corner(pos, 1, -1))
        ld == PickCoords(Corner(pos, -1, 1))
        rd == PickCoords(Corner(pos, 1, 1))
    IN {PickCoords(pos)}
       \cup {s \in {lu} : 0 < s[1] /\ 0 < s[2]}
       \cup {s \in {ru} : s[1] < CellCount /\ 0 < s[2]}
       \cup {s \in {ld} : 0 < s[1] /\ s[2] < CellCount}
       \cup {s \in {rd} : s[1] < CellCount /\ s[2] < CellCount}

(* SightDistance is a square, and so is the magnitude it is compared with. *)
SightDistance(p, q) ==
    (p[1] - q[1]) * (p[1] - q[1]) + (p[2] - q[2]) * (p[2] - q[2])
InSight(p, q) == SightDistance(p, q) <= SightRad * SightRad

(* Session::CheckCollision: two strict and two weak comparisons, so that a *)
(* box to the right or below may touch and one to the left or above not.   *)
CheckCollision(p, q) ==
    ~ \/ q[1] + Box <= p[1] - Box
      \/ q[2] + Box <= p[2] - Box
      \/ p[1] + Box < q[1] - Box
      \/ p[2] + Box < q[2] - Box

-----------------------------------------------------------------------------
(* What the search is for. *)

(* The sectors that the sight square touches, and that it would have to    *)
(* search to see everybody in it.                                          *)
TouchedSectors(pos) == {PickCoords(c) : c \in Corners(pos) \cup {pos}}

(* No corner of the square lies in the first row or column of sectors.     *)
Inner(pos) == \A c \in Corners(pos) : PickCoords(c)[1] > 0 /\ PickCoords(c)[2] > 0

=============================================================================
