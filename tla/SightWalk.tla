------------------------------ MODULE SightWalk ------------------------------
(***************************************************************************)
(* Two characters walk about the world: does the search of UpdateSight     *)
(* stay inside the grid of sectors, and does it find who is in sight?      *)
(***************************************************************************)
EXTENDS SightGrid

VARIABLES
    walker,   \* the position of the character UpdateSight is called for
    passer    \* and that of another one

walkVars == <<walker, passer>>

(* ProceedSignIn puts both at the same place; ENTITY_MOVE moves them on.   *)
WalkInit == walker = StartPosition /\ passer = StartPosition

Walk(dir) == walker' = TryMove(walker, dir) /\ UNCHANGED passer
OtherWalks(dir) == passer' = TryMove(passer, dir) /\ UNCHANGED walker

WalkNext == \E dir \in Directions : Walk(dir) \/ OtherWalks(dir)
WalkSpec == WalkInit /\ [][WalkNext]_walkVars

-----------------------------------------------------------------------------
(* Walking never leaves the world's margin. *)
InTheWorld == walker \in Positions /\ passer \in Positions

(* SightManager::At is called for a sector of the grid, whichever corner   *)
(* of the square it is called for: `at` never throws, although PickCoords  *)
(* clamps to the number of cells and not to that of sectors.               *)
CornersHaveSectors ==
    \A c \in Corners(walker) \cup {walker} : PickCoords(c) \in Sectors

(* Away from the first row and column of sectors, whoever is in sight is   *)
(* on a roster that UpdateSight takes.                                     *)
InnerSeesAll ==
    Inner(walker) /\ InSight(walker, passer) => PickCoords(passer) \in SearchedSectors(walker)

(* "2. 시야 사각형에 닿는 구역들을 찾는다": the sectors that are searched are    *)
(* those that the square of sight touches.                                 *)
TouchedAreSearched == TouchedSectors(walker) \subseteq SearchedSectors(walker)

=============================================================================
