-------------------------- MODULE SightRaceProofs --------------------------
(***************************************************************************)
(* What isOwned, the rosters and a player's view list keep for any number  *)
(* of players and workers although Acquire does not wait.  Two operations  *)
(* of one player may be handled at a time: what the argument says of a     *)
(* player, it says of those that are not in mixed.                         *)
(***************************************************************************)
EXTENDS SightRace, SightGridProofs

(* The sectors a worker has taken and is going to give back. *)
Holds(w) ==
    CASE pc[w] \in {"registerAdd", "registerRelease", "try", "setArea", "read", "readRelease"}
           -> {here[w]}
      [] pc[w] \in {"add", "remove", "release"} -> {here[w]} \cup ({area[who[w]]} \ {NoSector})
      [] pc[w] \in {"cornerRead", "cornerRelease"} -> {spot[w]}
      [] pc[w] \in {"cleanRemove", "cleanRelease"} -> {area[who[w]]}
      [] OTHER -> {}

(* The sectors whose rosters have the worker's player. *)
Listed(w) ==
    CASE pc[w] = "remove" -> {area[who[w]], here[w]}
      [] pc[w] \in {"release", "setArea"} -> {here[w]}
      [] pc[w] \in {"cleanRelease", "cleanViews", "clean"} -> {}
      [] OTHER -> {area[who[w]]}

(* The variables the argument is about have their types. *)
ShapeInv ==
    /\ pc \in [Workers -> Steps]
    /\ who \in [Workers -> Players \cup {NoPlayer}]
    /\ DOMAIN here = Workers /\ DOMAIN spot = Workers
    /\ DOMAIN stage = Players /\ DOMAIN area = Players
    /\ roster \in [Sectors -> SUBSET Players]
    /\ \A w \in Workers : pc[w] = "idle" <=> who[w] = NoPlayer

(* Two workers have the same player only if it is in mixed, and nobody is  *)
(* handled before it signs in.                                             *)
ExclusiveInv ==
    /\ \A v, w \in Running : v # w => who[v] # who[w] \/ who[w] \in mixed
    /\ \A w \in Running : stage[who[w]] # "away"
    /\ \A p \in Players : stage[p] = "away" => area[p] = NoSector
    /\ \A w \in Workers : pc[w] \in {"register", "registerAdd"} =>
         who[w] \in mixed \/ area[who[w]] = NoSector
    /\ \A w \in Workers :
         pc[w] \in {"registerAdd", "acquire", "try", "add", "remove", "release", "setArea"}
           => here[w] # NoSector
    /\ \A w \in Workers : pc[w] \in {"add", "remove"} =>
         who[w] \in mixed \/ area[who[w]] # here[w]

FlagInv == mixed = {} => \A s \in owned : \E w \in Workers : s \in Holds(w)

RosterInv ==
    /\ \A w \in Running, s \in Sectors : who[w] \notin mixed =>
         (who[w] \in roster[s] <=> s \in Listed(w))
    /\ \A p \in Players \ mixed, s \in Sectors :
         ~Handled(p) => (p \in roster[s] <=> area[p] = s)

IInv == ShapeInv /\ ExclusiveInv /\ FlagInv /\ RosterInv

LEMMA AddedTo ==
    ASSUME roster \in [Sectors -> SUBSET Players], NEW p \in Players, NEW s, AddTo(s, p)
    PROVE  /\ roster' \in [Sectors -> SUBSET Players]
           /\ \A t \in Sectors, q \in Players :
                q \in roster'[t] <=> q \in roster[t] \/ (t = s /\ q = p)
<1>1. DOMAIN roster' = Sectors
  BY DEF AddTo
<1>2. \A t \in Sectors : roster'[t] = IF t = s THEN roster[t] \cup {p} ELSE roster[t]
  BY DEF AddTo
<1>3. roster' \in [Sectors -> SUBSET Players]
  <2>1. \A t \in Sectors : roster'[t] \in SUBSET Players
    BY <1>2
  <2>2. roster' = [t \in Sectors |-> roster'[t]]
    BY <1>1 DEF AddTo
  <2>3. QED
    BY <2>1, <2>2
<1>4. QED
  BY <1>2, <1>3

LEMMA RemovedFrom ==
    ASSUME roster \in [Sectors -> SUBSET Players], NEW p \in Players, NEW s, RemoveFrom(s, p)
    PROVE  /\ roster' \in [Sectors -> SUBSET Players]
           /\ \A t \in Sectors, q \in Players :
                q \in roster'[t] <=> q \in roster[t] /\ ~(t = s /\ q = p)
<1>1. DOMAIN roster' = Sectors
  BY DEF RemoveFrom
<1>2. \A t \in Sectors : roster'[t] = IF t = s THEN roster[t] \ {p} ELSE roster[t]
  BY DEF RemoveFrom
<1>3. roster' \in [Sectors -> SUBSET Players]
  <2>1. \A t \in Sectors : roster'[t] \in SUBSET Players
    BY <1>2
  <2>2. roster' = [t \in Sectors |-> roster'[t]]
    BY <1>1 DEF RemoveFrom
  <2>3. QED
    BY <2>1, <2>2
<1>4. QED
  BY <1>2, <1>3

LEMMA PairIsSector == \A at : PickCoords(at) # NoSector
BY DEF PickCoords, NoSector

LEMMA NoSectorIsNone == NoSector \notin Sectors
BY DEF NoSector, Sectors

LEMMA ShapeStep == ASSUME IInv, NEW w \in Workers, Step(w) PROVE ShapeInv'
<1> USE DEF Running, Handled, Goto, SectorStep, Acquire, Release, Take, Return, Meet, Part,
     playerVars, listVars, placeVars, historyVars, Steps, ShapeInv
<1>1. CASE Register(w)
  BY <1>1 DEF IInv, ShapeInv, Register
<1>2. CASE RegisterAdd(w)
  <2>1. who[w] \in Players
    BY <1>2 DEF IInv, RegisterAdd
  <2>2. roster' \in [Sectors -> SUBSET Players]
    BY <1>2, <2>1, AddedTo DEF IInv, RegisterAdd
  <2>3. QED
    BY <1>2, <2>2 DEF IInv, RegisterAdd
<1>3. CASE RegisterRelease(w)
  BY <1>3 DEF IInv, ShapeInv, RegisterRelease
<1>4. CASE Copy(w)
  BY <1>4 DEF IInv, ShapeInv, Copy
<1>5. CASE AcquireHere(w)
  BY <1>5 DEF IInv, ShapeInv, AcquireHere
<1>6. CASE TryAcquire(w)
  BY <1>6 DEF IInv, ShapeInv, TryAcquire
<1>7. CASE Add(w)
  <2>1. who[w] \in Players
    BY <1>7 DEF IInv, Add
  <2>2. roster' \in [Sectors -> SUBSET Players]
    BY <1>7, <2>1, AddedTo DEF IInv, Add
  <2>3. QED
    BY <1>7, <2>2 DEF IInv, Add
<1>8. CASE Remove(w)
  <2>1. who[w] \in Players
    BY <1>8 DEF IInv, Remove
  <2>2. roster' \in [Sectors -> SUBSET Players]
    BY <1>8, <2>1, RemovedFrom DEF IInv, Remove
  <2>3. QED
    BY <1>8, <2>2 DEF IInv, Remove
<1>9. CASE ReleasePrevious(w)
  BY <1>9 DEF IInv, ShapeInv, ReleasePrevious
<1>10. CASE SetSightArea(w)
  BY <1>10 DEF IInv, ShapeInv, SetSightArea
<1>11. CASE Read(w)
  BY <1>11 DEF IInv, ShapeInv, Read
<1>12. CASE ReadRelease(w)
  BY <1>12 DEF IInv, ShapeInv, ReadRelease
<1>13. CASE SkipCorner(w)
  BY <1>13 DEF IInv, ShapeInv, SkipCorner
<1>14. CASE AcquireCorner(w)
  BY <1>14 DEF IInv, ShapeInv, AcquireCorner
<1>15. CASE ReadCorner(w)
  BY <1>15 DEF IInv, ShapeInv, ReadCorner
<1>16. CASE ReleaseCorner(w)
  BY <1>16 DEF IInv, ShapeInv, ReleaseCorner
<1>17. CASE AssignSight(w)
  BY <1>17 DEF IInv, ShapeInv, AssignSight
<1>18. CASE Compare(w)
  BY <1>18 DEF IInv, ShapeInv, Compare
<1>19. CASE Lose(w)
  BY <1>19 DEF IInv, ShapeInv, Lose
<1>20. CASE Finish(w)
  BY <1>20 DEF IInv, ShapeInv, Finish
<1>21. CASE CleanAcquire(w)
  BY <1>21 DEF IInv, ShapeInv, CleanAcquire
<1>22. CASE CleanRemove(w)
  <2>1. who[w] \in Players
    BY <1>22 DEF IInv, CleanRemove
  <2>2. roster' \in [Sectors -> SUBSET Players]
    BY <1>22, <2>1, RemovedFrom DEF IInv, CleanRemove
  <2>3. QED
    BY <1>22, <2>2 DEF IInv, CleanRemove
<1>23. CASE CleanRelease(w)
  BY <1>23 DEF IInv, ShapeInv, CleanRelease
<1>24. CASE CleanViews(w)
  BY <1>24 DEF IInv, ShapeInv, CleanViews
<1>25. CASE Clean(w)
  BY <1>25 DEF IInv, ShapeInv, Clean
<1>26. CASE Dereference(w)
  BY <1>26 DEF IInv, ShapeInv, Dereference
<1>27. QED
  BY <1>1, <1>2, <1>3, <1>4, <1>5, <1>6, <1>7, <1>8, <1>9, <1>10, <1>11, <1>12, <1>13,
     <1>14, <1>15, <1>16, <1>17, <1>18, <1>19, <1>20, <1>21, <1>22, <1>23, <1>24, <1>25, <1>26 DEF Step

LEMMA ExclusiveStep == ASSUME IInv, NEW w \in Workers, Step(w) PROVE ExclusiveInv'
<1> USE DEF Running, Handled, Goto, SectorStep, Acquire, Release, Take, Return, Meet, Part,
     playerVars, listVars, placeVars, historyVars, Steps, ShapeInv
<1>1. CASE Register(w)
  BY <1>1, PairIsSector DEF IInv, ExclusiveInv, Register
<1>2. CASE RegisterAdd(w)
  BY <1>2 DEF IInv, ExclusiveInv, RegisterAdd
<1>3. CASE RegisterRelease(w)
  BY <1>3 DEF IInv, ExclusiveInv, RegisterRelease
<1>4. CASE Copy(w)
  BY <1>4, PairIsSector DEF IInv, ExclusiveInv, Copy
<1>5. CASE AcquireHere(w)
  BY <1>5 DEF IInv, ExclusiveInv, AcquireHere
<1>6. CASE TryAcquire(w)
  <2>1. /\ UNCHANGED <<who, stage, area, here, mixed>> /\ pc[w] = "try"
        /\ pc' = [pc EXCEPT ![w] = pc'[w]] /\ pc'[w] \in {"add", "read"}
        /\ pc'[w] = "add" => area[who[w]] # here[w]
    BY <1>6 DEF IInv, ExclusiveInv, TryAcquire
  <2>2. QED
    BY <1>6, <2>1 DEF IInv, ExclusiveInv
<1>7. CASE Add(w)
  BY <1>7 DEF IInv, ExclusiveInv, Add
<1>8. CASE Remove(w)
  BY <1>8 DEF IInv, ExclusiveInv, Remove
<1>9. CASE ReleasePrevious(w)
  BY <1>9 DEF IInv, ExclusiveInv, ReleasePrevious
<1>10. CASE SetSightArea(w)
  BY <1>10 DEF IInv, ExclusiveInv, SetSightArea
<1>11. CASE Read(w)
  BY <1>11 DEF IInv, ExclusiveInv, Read
<1>12. CASE ReadRelease(w)
  BY <1>12 DEF IInv, ExclusiveInv, ReadRelease
<1>13. CASE SkipCorner(w)
  BY <1>13 DEF IInv, ExclusiveInv, SkipCorner
<1>14. CASE AcquireCorner(w)
  BY <1>14 DEF IInv, ExclusiveInv, AcquireCorner
<1>15. CASE ReadCorner(w)
  BY <1>15 DEF IInv, ExclusiveInv, ReadCorner
<1>16. CASE ReleaseCorner(w)
  BY <1>16 DEF IInv, ExclusiveInv, ReleaseCorner
<1>17. CASE AssignSight(w)
  BY <1>17 DEF IInv, ExclusiveInv, AssignSight
<1>18. CASE Compare(w)
  BY <1>18 DEF IInv, ExclusiveInv, Compare
<1>19. CASE Lose(w)
  BY <1>19 DEF IInv, ExclusiveInv, Lose
<1>20. CASE Finish(w)
  BY <1>20 DEF IInv, ExclusiveInv, Finish
<1>21. CASE CleanAcquire(w)
  BY <1>21 DEF IInv, ExclusiveInv, CleanAcquire
<1>22. CASE CleanRemove(w)
  BY <1>22 DEF IInv, ExclusiveInv, CleanRemove
<1>23. CASE CleanRelease(w)
  BY <1>23 DEF IInv, ExclusiveInv, CleanRelease
<1>24. CASE CleanViews(w)
  BY <1>24 DEF IInv, ExclusiveInv, CleanViews
<1>25. CASE Clean(w)
  BY <1>25 DEF IInv, ExclusiveInv, Clean
<1>26. CASE Dereference(w)
  BY <1>26 DEF IInv, ExclusiveInv, Dereference
<1>27. QED
  BY <1>1, <1>2, <1>3, <1>4, <1>5, <1>6, <1>7, <1>8, <1>9, <1>10, <1>11, <1>12, <1>13,
     <1>14, <1>15, <1>16, <1>17, <1>18, <1>19, <1>20, <1>21, <1>22, <1>23, <1>24, <1>25, <1>26 DEF Step

LEMMA FlagStep == ASSUME IInv, NEW w \in Workers, Step(w) PROVE FlagInv'
<1> USE DEF Running, Handled, Goto, SectorStep, Acquire, Release, Take, Return, Meet, Part,
     playerVars, listVars, placeVars, historyVars, Steps, ShapeInv, Holds
<1>1. CASE Register(w)
  BY <1>1 DEF IInv, FlagInv, Register
<1>2. CASE RegisterAdd(w)
  BY <1>2 DEF IInv, ExclusiveInv, FlagInv, RegisterAdd
<1>3. CASE RegisterRelease(w)
  BY <1>3 DEF IInv, FlagInv, RegisterRelease
<1>4. CASE Copy(w)
  BY <1>4 DEF IInv, FlagInv, Copy
<1>5. CASE AcquireHere(w)
  BY <1>5 DEF IInv, FlagInv, AcquireHere
<1>6. CASE TryAcquire(w)
  BY <1>6 DEF IInv, FlagInv, TryAcquire
<1>7. CASE Add(w)
  BY <1>7 DEF IInv, FlagInv, Add
<1>8. CASE Remove(w)
  BY <1>8 DEF IInv, ExclusiveInv, FlagInv, Remove
<1>9. CASE ReleasePrevious(w)
  BY <1>9 DEF IInv, FlagInv, ReleasePrevious
<1>10. CASE SetSightArea(w)
  BY <1>10 DEF IInv, ExclusiveInv, FlagInv, SetSightArea
<1>11. CASE Read(w)
  BY <1>11 DEF IInv, FlagInv, Read
<1>12. CASE ReadRelease(w)
  BY <1>12 DEF IInv, FlagInv, ReadRelease
<1>13. CASE SkipCorner(w)
  BY <1>13 DEF IInv, FlagInv, SkipCorner
<1>14. CASE AcquireCorner(w)
  BY <1>14 DEF IInv, FlagInv, AcquireCorner
<1>15. CASE ReadCorner(w)
  BY <1>15 DEF IInv, FlagInv, ReadCorner
<1>16. CASE ReleaseCorner(w)
  BY <1>16 DEF IInv, FlagInv, ReleaseCorner
<1>17. CASE AssignSight(w)
  BY <1>17 DEF IInv, FlagInv, AssignSight
<1>18. CASE Compare(w)
  BY <1>18 DEF IInv, FlagInv, Compare
<1>19. CASE Lose(w)
  BY <1>19 DEF IInv, FlagInv, Lose
<1>20. CASE Finish(w)
  BY <1>20 DEF IInv, FlagInv, Finish
<1>21. CASE CleanAcquire(w)
  BY <1>21 DEF IInv, FlagInv, CleanAcquire
<1>22. CASE CleanRemove(w)
  BY <1>22 DEF IInv, FlagInv, CleanRemove
<1>23. CASE CleanRelease(w)
  BY <1>23 DEF IInv, FlagInv, CleanRelease
<1>24. CASE CleanViews(w)
  BY <1>24 DEF IInv, FlagInv, CleanViews
<1>25. CASE Clean(w)
  BY <1>25 DEF IInv, ExclusiveInv, FlagInv, Clean
<1>26. CASE Dereference(w)
  BY <1>26 DEF IInv, FlagInv, Dereference
<1>27. QED
  BY <1>1, <1>2, <1>3, <1>4, <1>5, <1>6, <1>7, <1>8, <1>9, <1>10, <1>11, <1>12, <1>13,
     <1>14, <1>15, <1>16, <1>17, <1>18, <1>19, <1>20, <1>21, <1>22, <1>23, <1>24, <1>25, <1>26 DEF Step

LEMMA RosterStep == ASSUME IInv, NEW w \in Workers, Step(w) PROVE RosterInv'
<1> USE DEF Running, Handled, Goto, SectorStep, Acquire, Release, Take, Return, Meet, Part,
     playerVars, listVars, placeVars, historyVars, Steps, ShapeInv, Listed
<1>1. CASE Register(w)
  BY <1>1 DEF IInv, RosterInv, Register
<1>2. CASE RegisterAdd(w)
  <2>1. who[w] \in Players
    BY <1>2 DEF IInv, RegisterAdd
  <2>2. QED
    BY <1>2, <2>1, AddedTo, NoSectorIsNone DEF IInv, ExclusiveInv, RosterInv, RegisterAdd
<1>3. CASE RegisterRelease(w)
  BY <1>3 DEF IInv, RosterInv, RegisterRelease
<1>4. CASE Copy(w)
  BY <1>4 DEF IInv, RosterInv, Copy
<1>5. CASE AcquireHere(w)
  BY <1>5 DEF IInv, RosterInv, AcquireHere
<1>6. CASE TryAcquire(w)
  BY <1>6 DEF IInv, RosterInv, TryAcquire
<1>7. CASE Add(w)
  <2>1. who[w] \in Players
    BY <1>7 DEF IInv, Add
  <2>2. QED
    BY <1>7, <2>1, AddedTo, NoSectorIsNone DEF IInv, ExclusiveInv, RosterInv, Add
<1>8. CASE Remove(w)
  <2>1. who[w] \in Players
    BY <1>8 DEF IInv, Remove
  <2>2. QED
    BY <1>8, <2>1, RemovedFrom, NoSectorIsNone DEF IInv, ExclusiveInv, RosterInv, Remove
<1>9. CASE ReleasePrevious(w)
  BY <1>9 DEF IInv, RosterInv, ReleasePrevious
<1>10. CASE SetSightArea(w)
  BY <1>10 DEF IInv, RosterInv, SetSightArea
<1>11. CASE Read(w)
  BY <1>11 DEF IInv, RosterInv, Read
<1>12. CASE ReadRelease(w)
  BY <1>12 DEF IInv, RosterInv, ReadRelease
<1>13. CASE SkipCorner(w)
  BY <1>13 DEF IInv, RosterInv, SkipCorner
<1>14. CASE AcquireCorner(w)
  BY <1>14 DEF IInv, RosterInv, AcquireCorner
<1>15. CASE ReadCorner(w)
  BY <1>15 DEF IInv, RosterInv, ReadCorner
<1>16. CASE ReleaseCorner(w)
  BY <1>16 DEF IInv, RosterInv, ReleaseCorner
<1>17. CASE AssignSight(w)
  BY <1>17 DEF IInv, RosterInv, AssignSight
<1>18. CASE Compare(w)
  BY <1>18 DEF IInv, RosterInv, Compare
<1>19. CASE Lose(w)
  BY <1>19 DEF IInv, RosterInv, Lose
<1>20. CASE Finish(w)
  BY <1>20 DEF IInv, RosterInv, Finish
<1>21. CASE CleanAcquire(w)
  BY <1>21 DEF IInv, RosterInv, CleanAcquire
<1>22. CASE CleanRemove(w)
  <2>1. who[w] \in Players
    BY <1>22 DEF IInv, CleanRemove
  <2>2. QED
    BY <1>22, <2>1, RemovedFrom, NoSectorIsNone DEF IInv, ExclusiveInv, RosterInv, CleanRemove
<1>23. CASE CleanRelease(w)
  BY <1>23 DEF IInv, RosterInv, CleanRelease
<1>24. CASE CleanViews(w)
  BY <1>24 DEF IInv, RosterInv, CleanViews
<1>25. CASE Clean(w)
  BY <1>25, NoSectorIsNone DEF IInv, ExclusiveInv, RosterInv, Clean
<1>26. CASE Dereference(w)
  BY <1>26 DEF IInv, RosterInv, Dereference
<1>27. QED
  BY <1>1, <1>2, <1>3, <1>4, <1>5, <1>6, <1>7, <1>8, <1>9, <1>10, <1>11, <1>12, <1>13,
     <1>14, <1>15, <1>16, <1>17, <1>18, <1>19, <1>20, <1>21, <1>22, <1>23, <1>24, <1>25, <1>26 DEF Step

(* An operation begins: if another worker has one of its player, the       *)
(* player is in mixed from now on.                                         *)
LEMMA BeginStep ==
    ASSUME IInv, NEW w \in Workers, NEW p \in Players,
           Enter(w, p) \/ Move(w, p) \/ Leave(w, p)
    PROVE  IInv'
<1>1. /\ pc[w] = "idle"
      /\ mixed' = (IF Handled(p) THEN mixed \cup {p} ELSE mixed)
      /\ UNCHANGED <<area, roster, owned, here, spot>>
      /\ \E step \in {"register", "copy", "cleanAcquire"} : pc' = [pc EXCEPT ![w] = step]
      /\ who' = [who EXCEPT ![w] = p]
      /\ pc'[w] = "register" => stage[p] = "away"
      /\ DOMAIN stage' = Players /\ stage'[p] # "away"
      /\ \A q \in Players : q # p => stage'[q] = stage[q]
  BY DEF Enter, Move, Leave, Begin, Goto, playerVars, placeVars, IInv, ShapeInv
<1>2. p # NoPlayer
  BY SightRaceAssumption
<1>3. ShapeInv'
  BY <1>1, <1>2 DEF IInv, ShapeInv, Steps
<1>4. ExclusiveInv'
  BY <1>1 DEF IInv, ShapeInv, ExclusiveInv, Running, Handled, Steps
<1>5. FlagInv'
  BY <1>1 DEF IInv, ShapeInv, FlagInv, Holds
<1>6. RosterInv'
  BY <1>1 DEF IInv, ShapeInv, ExclusiveInv, RosterInv, Listed, Running, Handled
<1>7. QED
  BY <1>3, <1>4, <1>5, <1>6 DEF IInv

LEMMA RaceInit == Init => IInv
BY NoSectorIsNone
   DEF Init, IInv, ShapeInv, ExclusiveInv, FlagInv, RosterInv, Holds, Listed, Running,
       Handled, Steps

LEMMA RaceStutter == IInv /\ UNCHANGED vars => IInv'
BY DEF vars, playerVars, placeVars, listVars, historyVars, IInv, ShapeInv, ExclusiveInv, FlagInv,
       RosterInv, Holds, Listed, Running, Handled

LEMMA RaceInvariant == Spec => []IInv
<1>1. IInv /\ [Next]_vars => IInv'
  <2>1. ASSUME IInv, NEW w \in Workers, Step(w) PROVE IInv'
    BY <2>1, ShapeStep, ExclusiveStep, FlagStep, RosterStep DEF IInv
  <2>2. QED
    BY <2>1, BeginStep, RaceStutter DEF Next
<1>2. QED
  BY <1>1, RaceInit, PTL DEF Spec

(* Although Acquire does not wait and Release frees what others hold, no   *)
(* sector's isOwned stays set until two operations of one player are       *)
(* handled at a time: for any number of players, workers and sectors.      *)
THEOREM RaceFlagsReturn == Spec => []FlagsReturn
<1>1. IInv => FlagsReturn
  BY DEF IInv, FlagInv, FlagsReturn, Holds, Running
<1>2. QED
  BY <1>1, RaceInvariant, PTL

(* UpdateSight and CleanupSight keep each player on the roster of the      *)
(* sector its session remembers and on no other, however the workers       *)
(* interleave, also where TryAcquire fails, and whatever two operations of *)
(* one other player do.                                                    *)
THEOREM RaceOneRoster == Spec => []OneRoster
<1>1. IInv => OneRoster
  BY DEF IInv, RosterInv, OneRoster
<1>2. QED
  BY <1>1, RaceInvariant, PTL

(* The sectors a worker remembers are sectors when it uses them.           *)
SectorsInv ==
    /\ \A w \in Workers :
         pc[w] \in {"registerAdd", "registerRelease", "acquire", "try", "add", "remove",
                    "release", "setArea", "read", "readRelease"} => here[w] \in Sectors
    /\ \A w \in Workers : pc[w] \in {"cornerRead", "cornerRelease"} =>
         spot[w] \in Sectors /\ corner[w] \in 1..4
    /\ \A w \in Workers : pc[w] = "corner" => corner[w] \in 1..5

TypeInv == TypeOK /\ SectorsInv

LEMMA CornerIsSector ==
    ASSUME NEW at \in Positions, NEW k \in 1..4
    PROVE  CornerSector(at, k) \in Sectors
<1>1. CornerOffsets[k][1] \in {-1, 1} /\ CornerOffsets[k][2] \in {-1, 1}
  BY DEF CornerOffsets
<1>2. Corner(at, CornerOffsets[k][1], CornerOffsets[k][2]) \in Corners(at)
  BY <1>1 DEF Corners
<1>3. QED
  BY <1>2, PositionsAreIndexed DEF CornerSector

LEMMA ViewsPatched ==
    ASSUME view \in [Players -> SUBSET Players], NEW p \in Players, NEW q \in Players,
           Meet(p, q) \/ Part(p, q) \/ view' = [view EXCEPT ![p] = @ \ {q}]
    PROVE  view' \in [Players -> SUBSET Players]
<1>1. CASE Meet(p, q)
  BY <1>1 DEF Meet
<1>2. CASE Part(p, q)
  BY <1>2 DEF Part
<1>3. QED
  BY <1>1, <1>2

LEMMA TypeStep == ASSUME TypeInv, NEW w \in Workers, Step(w) PROVE TypeOK'
<1> USE DEF Running, Handled, Goto, SectorStep, Acquire, Release, AddTo, RemoveFrom, Take,
     Return, Meet, Part, playerVars, listVars, placeVars, historyVars, Steps
<1>1. CASE Register(w)
  BY <1>1, PositionsAreIndexed DEF TypeInv, TypeOK, SectorsInv, Register
<1>2. CASE RegisterAdd(w)
  BY <1>2 DEF TypeInv, TypeOK, SectorsInv, RegisterAdd
<1>3. CASE RegisterRelease(w)
  BY <1>3 DEF TypeInv, TypeOK, SectorsInv, RegisterRelease
<1>4. CASE Copy(w)
  BY <1>4, PositionsAreIndexed DEF TypeInv, TypeOK, SectorsInv, Copy
<1>5. CASE AcquireHere(w)
  BY <1>5 DEF TypeInv, TypeOK, SectorsInv, AcquireHere
<1>6. CASE TryAcquire(w)
  BY <1>6 DEF TypeInv, TypeOK, SectorsInv, TryAcquire
<1>7. CASE Add(w)
  BY <1>7 DEF TypeInv, TypeOK, SectorsInv, Add
<1>8. CASE Remove(w)
  BY <1>8 DEF TypeInv, TypeOK, SectorsInv, Remove
<1>9. CASE ReleasePrevious(w)
  BY <1>9 DEF TypeInv, TypeOK, SectorsInv, ReleasePrevious
<1>10. CASE SetSightArea(w)
  BY <1>10 DEF TypeInv, TypeOK, SectorsInv, SetSightArea
<1>11. CASE Read(w)
  BY <1>11 DEF TypeInv, TypeOK, SectorsInv, Read
<1>12. CASE ReadRelease(w)
  BY <1>12 DEF TypeInv, TypeOK, SectorsInv, ReadRelease
<1>13. CASE SkipCorner(w)
  BY <1>13 DEF TypeInv, TypeOK, SectorsInv, SkipCorner
<1>14. CASE AcquireCorner(w)
  BY <1>14, CornerIsSector DEF TypeInv, TypeOK, SectorsInv, AcquireCorner
<1>15. CASE ReadCorner(w)
  BY <1>15 DEF TypeInv, TypeOK, SectorsInv, ReadCorner
<1>16. CASE ReleaseCorner(w)
  BY <1>16 DEF TypeInv, TypeOK, SectorsInv, ReleaseCorner
<1>17. CASE AssignSight(w)
  BY <1>17 DEF TypeInv, TypeOK, SectorsInv, AssignSight
<1>18. CASE Compare(w)
  <2>1. PICK q \in rest[w] :
          /\ rest' = [rest EXCEPT ![w] = @ \ {q}]
          /\ \/ Meet(who[w], q) \/ Part(who[w], q) \/ UNCHANGED view
             \/ view' = [view EXCEPT ![who[w]] = @ \ {q}]
          /\ UNCHANGED before \/ before' = [before EXCEPT ![w] = @ \ {q}]
    BY <1>18 DEF Compare
  <2>2. who[w] \in Players /\ q \in Players
    BY <1>18, <2>1 DEF TypeInv, TypeOK, Compare
  <2>3. view' \in [Players -> SUBSET Players]
    <3> HIDE DEF Meet, Part
    <3>1. QED
      BY <2>1, <2>2, ViewsPatched DEF TypeInv, TypeOK
  <2>4. rest' \in [Workers -> SUBSET Players] /\ before' \in [Workers -> SUBSET Players]
    BY <2>1 DEF TypeInv, TypeOK
  <2>5. QED
    BY <1>18, <2>3, <2>4 DEF TypeInv, TypeOK, Compare
<1>19. CASE Lose(w)
  <2>1. PICK q \in before[w] :
          /\ Part(who[w], q) \/ view' = [view EXCEPT ![who[w]] = @ \ {q}]
          /\ before' = [before EXCEPT ![w] = @ \ {q}]
    BY <1>19 DEF Lose
  <2>2. who[w] \in Players /\ q \in Players
    BY <1>19, <2>1 DEF TypeInv, TypeOK, Lose
  <2>3. view' \in [Players -> SUBSET Players]
    <3> HIDE DEF Meet, Part
    <3>1. QED
      BY <2>1, <2>2, ViewsPatched DEF TypeInv, TypeOK
  <2>4. before' \in [Workers -> SUBSET Players]
    BY <2>1 DEF TypeInv, TypeOK
  <2>5. QED
    BY <1>19, <2>3, <2>4 DEF TypeInv, TypeOK, Lose
<1>20. CASE Finish(w)
  BY <1>20 DEF TypeInv, TypeOK, SectorsInv, Finish
<1>21. CASE CleanAcquire(w)
  BY <1>21 DEF TypeInv, TypeOK, SectorsInv, CleanAcquire
<1>22. CASE CleanRemove(w)
  BY <1>22 DEF TypeInv, TypeOK, SectorsInv, CleanRemove
<1>23. CASE CleanRelease(w)
  BY <1>23 DEF TypeInv, TypeOK, SectorsInv, CleanRelease
<1>24. CASE CleanViews(w)
  BY <1>24 DEF TypeInv, TypeOK, SectorsInv, CleanViews
<1>25. CASE Clean(w)
  BY <1>25 DEF TypeInv, TypeOK, SectorsInv, Clean
<1>26. CASE Dereference(w)
  BY <1>26 DEF TypeInv, TypeOK, SectorsInv, Dereference
<1>27. QED
  BY <1>1, <1>2, <1>3, <1>4, <1>5, <1>6, <1>7, <1>8, <1>9, <1>10, <1>11, <1>12, <1>13,
     <1>14, <1>15, <1>16, <1>17, <1>18, <1>19, <1>20, <1>21, <1>22, <1>23, <1>24, <1>25, <1>26 DEF Step

LEMMA SectorsStep == ASSUME TypeInv, NEW w \in Workers, Step(w) PROVE SectorsInv'
<1> USE DEF Running, Handled, Goto, SectorStep, Acquire, Release, AddTo, RemoveFrom, Take,
     Return, Meet, Part, playerVars, listVars, placeVars, historyVars, Steps
<1>1. CASE Register(w)
  BY <1>1, PositionsAreIndexed DEF TypeInv, TypeOK, SectorsInv, Register
<1>2. CASE RegisterAdd(w)
  BY <1>2 DEF TypeInv, TypeOK, SectorsInv, RegisterAdd
<1>3. CASE RegisterRelease(w)
  BY <1>3 DEF TypeInv, TypeOK, SectorsInv, RegisterRelease
<1>4. CASE Copy(w)
  BY <1>4, PositionsAreIndexed DEF TypeInv, TypeOK, SectorsInv, Copy
<1>5. CASE AcquireHere(w)
  BY <1>5 DEF TypeInv, TypeOK, SectorsInv, AcquireHere
<1>6. CASE TryAcquire(w)
  BY <1>6 DEF TypeInv, TypeOK, SectorsInv, TryAcquire
<1>7. CASE Add(w)
  BY <1>7 DEF TypeInv, TypeOK, SectorsInv, Add
<1>8. CASE Remove(w)
  BY <1>8 DEF TypeInv, TypeOK, SectorsInv, Remove
<1>9. CASE ReleasePrevious(w)
  BY <1>9 DEF TypeInv, TypeOK, SectorsInv, ReleasePrevious
<1>10. CASE SetSightArea(w)
  BY <1>10 DEF TypeInv, TypeOK, SectorsInv, SetSightArea
<1>11. CASE Read(w)
  BY <1>11 DEF TypeInv, TypeOK, SectorsInv, Read
<1>12. CASE ReadRelease(w)
  BY <1>12 DEF TypeInv, TypeOK, SectorsInv, ReadRelease
<1>13. CASE SkipCorner(w)
  BY <1>13 DEF TypeInv, TypeOK, SectorsInv, SkipCorner
<1>14. CASE AcquireCorner(w)
  BY <1>14, CornerIsSector DEF TypeInv, TypeOK, SectorsInv, AcquireCorner
<1>15. CASE ReadCorner(w)
  BY <1>15 DEF TypeInv, TypeOK, SectorsInv, ReadCorner
<1>16. CASE ReleaseCorner(w)
  BY <1>16 DEF TypeInv, TypeOK, SectorsInv, ReleaseCorner
<1>17. CASE AssignSight(w)
  BY <1>17 DEF TypeInv, TypeOK, SectorsInv, AssignSight
<1>18. CASE Compare(w)
  BY <1>18 DEF TypeInv, TypeOK, SectorsInv, Compare
<1>19. CASE Lose(w)
  BY <1>19 DEF TypeInv, TypeOK, SectorsInv, Lose
<1>20. CASE Finish(w)
  BY <1>20 DEF TypeInv, TypeOK, SectorsInv, Finish
<1>21. CASE CleanAcquire(w)
  BY <1>21 DEF TypeInv, TypeOK, SectorsInv, CleanAcquire
<1>22. CASE CleanRemove(w)
  BY <1>22 DEF TypeInv, TypeOK, SectorsInv, CleanRemove
<1>23. CASE CleanRelease(w)
  BY <1>23 DEF TypeInv, TypeOK, SectorsInv, CleanRelease
<1>24. CASE CleanViews(w)
  BY <1>24 DEF TypeInv, TypeOK, SectorsInv, CleanViews
<1>25. CASE Clean(w)
  BY <1>25 DEF TypeInv, TypeOK, SectorsInv, Clean
<1>26. CASE Dereference(w)
  BY <1>26 DEF TypeInv, TypeOK, SectorsInv, Dereference
<1>27. QED
  BY <1>1, <1>2, <1>3, <1>4, <1>5, <1>6, <1>7, <1>8, <1>9, <1>10, <1>11, <1>12, <1>13,
     <1>14, <1>15, <1>16, <1>17, <1>18, <1>19, <1>20, <1>21, <1>22, <1>23, <1>24, <1>25, <1>26 DEF Step

LEMMA TypeBegin ==
    ASSUME TypeInv, NEW w \in Workers, NEW p \in Players,
           Enter(w, p) \/ Move(w, p) \/ Leave(w, p)
    PROVE  TypeInv'
<1>1. /\ pc[w] = "idle"
      /\ UNCHANGED <<area, view, roster, owned, placeVars, listVars, crashed>>
      /\ who' = [who EXCEPT ![w] = p] /\ alone' \subseteq Workers
      /\ mixed' \in {mixed, mixed \cup {p}}
  BY DEF Enter, Move, Leave, Begin, Goto, playerVars, Running
<1>2. p # NoPlayer
  BY SightRaceAssumption
<1>3. CASE Enter(w, p)
  BY <1>1, <1>2, <1>3 DEF Enter, Begin, Goto, TypeInv, TypeOK, SectorsInv,
     Running, Steps, placeVars, listVars
<1>4. CASE Move(w, p)
  <2>1. PICK dir \in Ways : pos' = [pos EXCEPT ![p] = TryMove(pos[p], dir)]
    BY <1>4 DEF Move
  <2>2. TryMove(pos[p], dir) \in Positions
    BY <2>1, StepsStay, SightRaceAssumption DEF TypeInv, TypeOK
  <2>3. /\ pos' \in [Players -> Positions]
        /\ moves' \in [Players -> 0..MovesMax]
    BY <1>4, <2>1, <2>2, SightRaceAssumption DEF Move, TypeInv, TypeOK
  <2>4. pc' = [pc EXCEPT ![w] = "copy"] /\ stage[p] = "in" /\ UNCHANGED stage
    BY <1>4 DEF Move, Begin, Goto
  <2>5. QED
    BY <1>1, <1>2, <2>3, <2>4 DEF TypeInv, TypeOK, SectorsInv,
       Running, Steps, placeVars, listVars
<1>5. CASE Leave(w, p)
  <2>1. /\ pc' = [pc EXCEPT ![w] = "cleanAcquire"] /\ stage[p] = "in"
        /\ UNCHANGED playerVars
    BY <1>5 DEF Leave, Begin, Goto
  <2>2. QED
    BY <1>1, <1>2, <2>1 DEF TypeInv, TypeOK, SectorsInv,
       Running, Steps, placeVars, listVars, playerVars
<1>6. QED
  BY <1>3, <1>4, <1>5

LEMMA TypeStutter == TypeInv /\ UNCHANGED vars => TypeInv'
BY DEF vars, playerVars, placeVars, listVars, historyVars, TypeInv, TypeOK, SectorsInv, Running

LEMMA TypeInit == Init => TypeInv
<1> SUFFICES ASSUME Init PROVE TypeInv
  OBVIOUS
<1>1. StartPosition \in Positions
  BY PositionsAreAnywhere
<1>2. /\ stage \in [Players -> {"away", "entering", "in", "gone"}]
      /\ pos \in [Players -> Positions] /\ area \in [Players -> Sectors \cup {NoSector}]
      /\ view \in [Players -> SUBSET Players] /\ roster \in [Sectors -> SUBSET Players]
      /\ moves \in [Players -> 0..MovesMax]
  BY <1>1, SightRaceAssumption DEF Init
<1>3. /\ owned \subseteq Sectors /\ crashed \in BOOLEAN
      /\ alone \subseteq Workers /\ mixed \subseteq Players
  BY DEF Init
<1>4. /\ pc \in [Workers -> Steps] /\ who \in [Workers -> Players \cup {NoPlayer}]
      /\ \A w \in Workers : pc[w] = "idle" /\ who[w] = NoPlayer
  BY DEF Init, Steps
<1>5. /\ here \in [Workers -> Sectors \cup {NoSector}]
      /\ spot \in [Workers -> Sectors \cup {NoSector}]
      /\ before \in [Workers -> SUBSET Players] /\ found \in [Workers -> SUBSET Players]
      /\ rest \in [Workers -> SUBSET Players] /\ corner \in [Workers -> 0..5]
  BY DEF Init
<1>6. QED
  BY <1>2, <1>3, <1>4, <1>5 DEF TypeInv, TypeOK, SectorsInv

(* Every variable keeps its type, also when two workers handle one player  *)
(* at a time and Disconnect clears mySightSector while others run.         *)
THEOREM RaceTypeCorrect == Spec => []TypeOK
<1>1. TypeInv /\ [Next]_vars => TypeInv'
  <2>1. ASSUME TypeInv, NEW w \in Workers, Step(w) PROVE TypeInv'
    BY <2>1, TypeStep, SectorsStep DEF TypeInv
  <2>2. QED
    BY <2>1, TypeBegin, TypeStutter DEF Next
<1>2. TypeInv => TypeOK
  BY DEF TypeInv
<1>3. QED
  BY <1>1, <1>2, TypeInit, PTL DEF Spec

-----------------------------------------------------------------------------
(* Null sectors. *)

(* A session that is in has a sector, and who is handled has one but while *)
(* it signs in - unless two of its operations were handled at a time.      *)
PresentInv ==
    /\ \A p \in Players \ mixed : stage[p] = "in" => area[p] # NoSector
    /\ \A w \in Running : who[w] \notin mixed =>
         pc[w] \in {"register", "registerAdd"} \/ area[who[w]] # NoSector

CrashInv == IInv /\ PresentInv /\ CrashNeedsOverlap

LEMMA PresentStep ==
    ASSUME IInv, PresentInv, NEW w \in Workers, Step(w)
    PROVE  PresentInv'
<1> USE DEF Running, Handled, Goto, SectorStep, Acquire, Release, AddTo, RemoveFrom, Take,
     Return, Meet, Part, playerVars, listVars, placeVars, historyVars, Steps
<1>1. CASE Register(w)
  BY <1>1 DEF IInv, ShapeInv, ExclusiveInv, PresentInv, Register
<1>2. CASE RegisterAdd(w)
  BY <1>2 DEF IInv, ShapeInv, ExclusiveInv, PresentInv, RegisterAdd
<1>3. CASE RegisterRelease(w)
  BY <1>3 DEF IInv, ShapeInv, ExclusiveInv, PresentInv, RegisterRelease
<1>4. CASE Copy(w)
  BY <1>4 DEF IInv, ShapeInv, ExclusiveInv, PresentInv, Copy
<1>5. CASE AcquireHere(w)
  BY <1>5 DEF IInv, ShapeInv, ExclusiveInv, PresentInv, AcquireHere
<1>6. CASE TryAcquire(w)
  <2>1. /\ UNCHANGED <<who, stage, area, mixed>> /\ pc[w] = "try"
        /\ pc' = [pc EXCEPT ![w] = pc'[w]] /\ pc'[w] \in {"add", "read"}
    BY <1>6 DEF IInv, ShapeInv, TryAcquire
  <2>2. QED
    BY <2>1 DEF IInv, ShapeInv, ExclusiveInv, PresentInv
<1>7. CASE Add(w)
  BY <1>7 DEF IInv, ShapeInv, ExclusiveInv, PresentInv, Add
<1>8. CASE Remove(w)
  BY <1>8 DEF IInv, ShapeInv, ExclusiveInv, PresentInv, Remove
<1>9. CASE ReleasePrevious(w)
  BY <1>9 DEF IInv, ShapeInv, ExclusiveInv, PresentInv, ReleasePrevious
<1>10. CASE SetSightArea(w)
  BY <1>10 DEF IInv, ShapeInv, ExclusiveInv, PresentInv, SetSightArea
<1>11. CASE Read(w)
  BY <1>11 DEF IInv, ShapeInv, ExclusiveInv, PresentInv, Read
<1>12. CASE ReadRelease(w)
  BY <1>12 DEF IInv, ShapeInv, ExclusiveInv, PresentInv, ReadRelease
<1>13. CASE SkipCorner(w)
  BY <1>13 DEF IInv, ShapeInv, ExclusiveInv, PresentInv, SkipCorner
<1>14. CASE AcquireCorner(w)
  BY <1>14 DEF IInv, ShapeInv, ExclusiveInv, PresentInv, AcquireCorner
<1>15. CASE ReadCorner(w)
  BY <1>15 DEF IInv, ShapeInv, ExclusiveInv, PresentInv, ReadCorner
<1>16. CASE ReleaseCorner(w)
  BY <1>16 DEF IInv, ShapeInv, ExclusiveInv, PresentInv, ReleaseCorner
<1>17. CASE AssignSight(w)
  BY <1>17 DEF IInv, ShapeInv, ExclusiveInv, PresentInv, AssignSight
<1>18. CASE Compare(w)
  BY <1>18 DEF IInv, ShapeInv, ExclusiveInv, PresentInv, Compare
<1>19. CASE Lose(w)
  BY <1>19 DEF IInv, ShapeInv, ExclusiveInv, PresentInv, Lose
<1>20. CASE Finish(w)
  BY <1>20 DEF IInv, ShapeInv, ExclusiveInv, PresentInv, Finish
<1>21. CASE CleanAcquire(w)
  BY <1>21 DEF IInv, ShapeInv, ExclusiveInv, PresentInv, CleanAcquire
<1>22. CASE CleanRemove(w)
  BY <1>22 DEF IInv, ShapeInv, ExclusiveInv, PresentInv, CleanRemove
<1>23. CASE CleanRelease(w)
  BY <1>23 DEF IInv, ShapeInv, ExclusiveInv, PresentInv, CleanRelease
<1>24. CASE CleanViews(w)
  BY <1>24 DEF IInv, ShapeInv, ExclusiveInv, PresentInv, CleanViews
<1>25. CASE Clean(w)
  BY <1>25 DEF IInv, ShapeInv, ExclusiveInv, PresentInv, Clean
<1>26. CASE Dereference(w)
  BY <1>26 DEF PresentInv, Dereference
<1>27. QED
  BY <1>1, <1>2, <1>3, <1>4, <1>5, <1>6, <1>7, <1>8, <1>9, <1>10, <1>11, <1>12, <1>13,
     <1>14, <1>15, <1>16, <1>17, <1>18, <1>19, <1>20, <1>21, <1>22, <1>23, <1>24, <1>25, <1>26 DEF Step

LEMMA PresentBegin ==
    ASSUME IInv, PresentInv, NEW w \in Workers, NEW p \in Players,
           Enter(w, p) \/ Move(w, p) \/ Leave(w, p)
    PROVE  PresentInv'
<1>1. /\ pc[w] = "idle" /\ UNCHANGED area
      /\ mixed' = (IF Handled(p) THEN mixed \cup {p} ELSE mixed)
      /\ who' = [who EXCEPT ![w] = p]
      /\ \/ /\ stage' = [stage EXCEPT ![p] = "entering"]
            /\ pc' = [pc EXCEPT ![w] = "register"]
         \/ /\ stage[p] = "in" /\ UNCHANGED stage
            /\ \E step \in Steps : pc' = [pc EXCEPT ![w] = step]
  BY DEF Enter, Move, Leave, Begin, Goto, playerVars, Steps
<1>2. QED
  BY <1>1 DEF IInv, ShapeInv, PresentInv, Running, Handled

LEMMA CrashStep ==
    ASSUME CrashInv, ~crashed, NEW w \in Workers, Step(w) PROVE CrashNeedsOverlap'
<1> USE DEF Goto, SectorStep, Take, Return, playerVars, listVars, placeVars, historyVars
<1>1. CASE Dereference(w)
  <2>1. who[w] \in mixed /\ pc[w] # "idle"
    BY <1>1 DEF CrashInv, PresentInv, Running, Dereference
  <2>2. QED
    BY <1>1, <2>1 DEF CrashNeedsOverlap, Running, Dereference
<1>2. CASE ~Dereference(w)
  <2>1. UNCHANGED crashed
    BY <1>2 DEF Step, Register, RegisterAdd, RegisterRelease, Copy, AcquireHere, TryAcquire,
       Add, Remove, ReleasePrevious, SetSightArea, Read, ReadRelease, SkipCorner,
       AcquireCorner, ReadCorner, ReleaseCorner, AssignSight, Compare, Lose, Finish,
       CleanAcquire, CleanRemove, CleanRelease, CleanViews, Clean
  <2>2. QED
    BY <2>1 DEF CrashNeedsOverlap
<1>3. QED
  BY <1>1, <1>2

(* A null mySightSector is used only for a player two of whose operations  *)
(* ran at a time, a move or departure and another departure: whatever the  *)
(* other workers do, for any number of players, workers and sectors.       *)
THEOREM RaceCrash == Spec => []CrashNeedsOverlap
<1>1. Init => CrashInv
  BY RaceInit DEF Init, CrashInv, PresentInv, CrashNeedsOverlap, Running
<1>2. CrashInv /\ [Next]_vars => CrashInv'
  <2>1. ASSUME CrashInv, ~crashed, NEW w \in Workers, Step(w) PROVE CrashInv'
    <3>1. IInv'
      BY <2>1, ShapeStep, ExclusiveStep, FlagStep, RosterStep DEF CrashInv, IInv
    <3>2. QED
      BY <2>1, <3>1, PresentStep, CrashStep DEF CrashInv
  <2>2. ASSUME CrashInv, ~crashed, NEW w \in Workers, NEW p \in Players,
               Enter(w, p) \/ Move(w, p) \/ Leave(w, p)
        PROVE  CrashInv'
    <3>1. ~crashed'
      BY <2>2 DEF Enter, Move, Leave, Begin
    <3>2. QED
      BY <2>2, <3>1, BeginStep, PresentBegin DEF CrashInv, CrashNeedsOverlap
  <2>3. CrashInv /\ UNCHANGED vars => CrashInv'
    BY RaceStutter DEF CrashInv, vars, playerVars, placeVars, listVars, historyVars,
       PresentInv, CrashNeedsOverlap, Running
  <2>4. QED
    BY <2>1, <2>2, <2>3 DEF Next
<1>3. QED
  BY <1>1, <1>2, PTL DEF Spec, CrashInv

-----------------------------------------------------------------------------
(* A handler with nobody beside it. *)

(* Those on a roster of the sectors, and the sectors a worker has read     *)
(* before it comes to corner k.                                            *)
RosterOf(sectors) == {q \in Players : \E s \in sectors : q \in roster[s]}
SearchedBefore(at, k) ==
    {PickCoords(at)} \cup {CornerSector(at, j) : j \in {i \in 1..4 :
                              i < k /\ Passes(CornerSector(at, i), i)}}

(* What a handler that began with nobody beside it, and so far had nobody  *)
(* beside it, has made of its player.                                      *)
LoneStep(w) ==
    LET p == who[w]
        at == pos[p]
    IN /\ pc[w] \in {"acquire", "try", "add", "remove", "release", "setArea", "read",
                     "readRelease"} => here[w] = PickCoords(at)
       /\ pc[w] \in {"read", "readRelease", "corner", "cornerRead", "cornerRelease",
                     "compare"} => (mixed = {} => area[p] = PickCoords(at))
       /\ pc[w] = "readRelease" => found[w] = RosterOf({PickCoords(at)})
       /\ pc[w] \in {"corner", "cornerRead"} =>
            found[w] = RosterOf(SearchedBefore(at, corner[w]))
       /\ pc[w] = "cornerRead" =>
            /\ spot[w] = CornerSector(at, corner[w])
            /\ Passes(spot[w], corner[w])
       /\ pc[w] = "cornerRelease" =>
            found[w] = RosterOf(SearchedBefore(at, corner[w] + 1))
       /\ pc[w] = "compare" =>
            /\ found[w] = RosterOf(SearchedSectors(at))
            /\ rest[w] \subseteq found[w]
            /\ before[w] \cap found[w] \cap Registered \subseteq rest[w]
            /\ view[p] = {q \in found[w] :
                            q \in rest[w] \/ (q \in Registered /\ InSight(at, pos[q]))}

LoneInv == \A w \in alone : Running = {w} /\ LoneStep(w)

LEMMA SearchedAfterCorners ==
    ASSUME NEW at PROVE SearchedBefore(at, 5) = SearchedSectors(at)
<1> DEFINE C(k) == CornerSector(at, k)
<1>1. /\ C(1) = PickCoords(Corner(at, -1, -1)) /\ C(2) = PickCoords(Corner(at, 1, -1))
      /\ C(3) = PickCoords(Corner(at, -1, 1)) /\ C(4) = PickCoords(Corner(at, 1, 1))
  BY DEF CornerSector, CornerOffsets
<1>2. /\ Passes(C(1), 1) <=> 0 < C(1)[1] /\ 0 < C(1)[2]
      /\ Passes(C(2), 2) <=> C(2)[1] < CellCount /\ 0 < C(2)[2]
      /\ Passes(C(3), 3) <=> 0 < C(3)[1] /\ C(3)[2] < CellCount
      /\ Passes(C(4), 4) <=> C(4)[1] < CellCount /\ C(4)[2] < CellCount
  BY DEF Passes, CornerOffsets
<1> HIDE DEF C
<1>3. SearchedSectors(at) = {PickCoords(at)}
         \cup {s \in {C(1)} : Passes(C(1), 1)} \cup {s \in {C(2)} : Passes(C(2), 2)}
         \cup {s \in {C(3)} : Passes(C(3), 3)} \cup {s \in {C(4)} : Passes(C(4), 4)}
  BY <1>1, <1>2 DEF SearchedSectors
<1>4. SearchedBefore(at, 5) =
         {PickCoords(at)} \cup {C(j) : j \in {i \in 1..4 : Passes(C(i), i)}}
  BY DEF SearchedBefore, C
<1>5. {C(j) : j \in {i \in 1..4 : Passes(C(i), i)}} =
         {s \in {C(1)} : Passes(C(1), 1)} \cup {s \in {C(2)} : Passes(C(2), 2)}
         \cup {s \in {C(3)} : Passes(C(3), 3)} \cup {s \in {C(4)} : Passes(C(4), 4)}
  <2>1. 1..4 = {1, 2, 3, 4}
    OBVIOUS
  <2>2. QED
    BY <2>1
<1>6. QED
  BY <1>3, <1>4, <1>5

LEMMA SearchedOne ==
    ASSUME NEW at, NEW k \in 1..4
    PROVE  SearchedBefore(at, k + 1) =
             IF Passes(CornerSector(at, k), k)
             THEN SearchedBefore(at, k) \cup {CornerSector(at, k)} ELSE SearchedBefore(at, k)
<1>1. \A i \in 1..4 : i < k + 1 <=> i < k \/ i = k
  OBVIOUS
<1>2. QED
  BY <1>1 DEF SearchedBefore

(* No step of a handler moves anybody, or changes whose handler it is. *)
LEMMA StepFrame ==
    ASSUME TypeInv, NEW w \in Workers, Step(w)
    PROVE  /\ UNCHANGED pos
           /\ pc'[w] # "idle" => UNCHANGED <<who, alone>>
           /\ pc'[w] = "idle" => who' = [who EXCEPT ![w] = NoPlayer] /\ alone' = alone \ {w}
           /\ \A v \in Workers \ {w} : pc'[v] = pc[v]
           /\ pc[w] # "idle"
           /\ UNCHANGED mixed
<1> USE DEF Goto, SectorStep, Take, Return, playerVars, listVars, placeVars, historyVars,
     TypeInv, TypeOK
<1>1. CASE Register(w) \/ RegisterAdd(w) \/ RegisterRelease(w) \/ Copy(w) \/ AcquireHere(w)
  BY <1>1 DEF Register, RegisterAdd, RegisterRelease, Copy, AcquireHere
<1>2. CASE TryAcquire(w)
  BY <1>2 DEF TryAcquire
<1>3. CASE Add(w) \/ Remove(w) \/ ReleasePrevious(w) \/ SetSightArea(w)
  BY <1>3 DEF Add, Remove, ReleasePrevious, SetSightArea
<1>4. CASE \/ Read(w) \/ ReadRelease(w) \/ SkipCorner(w) \/ AcquireCorner(w)
           \/ ReadCorner(w) \/ ReleaseCorner(w)
  BY <1>4 DEF Read, ReadRelease, SkipCorner, AcquireCorner, ReadCorner, ReleaseCorner
<1>5. CASE AssignSight(w) \/ Compare(w) \/ Lose(w)
  BY <1>5 DEF AssignSight, Compare, Lose
<1>6. CASE Finish(w) \/ Clean(w)
  BY <1>6 DEF Finish, Clean
<1>7. CASE CleanAcquire(w) \/ CleanRemove(w) \/ CleanRelease(w) \/ CleanViews(w)
  BY <1>7 DEF CleanAcquire, CleanRemove, CleanRelease, CleanViews
<1>8. CASE Dereference(w)
  BY <1>8 DEF Dereference
<1>9. QED
  BY <1>1, <1>2, <1>3, <1>4, <1>5, <1>6, <1>7, <1>8 DEF Step

LEMMA OwnPatched ==
    ASSUME view \in [Players -> SUBSET Players], NEW p \in Players, NEW q \in Players, p # q
    PROVE  /\ Meet(p, q) => view'[p] = view[p] \cup {q}
           /\ Part(p, q) => view'[p] = view[p] \ {q}
BY DEF Meet, Part

(* A lone handler keeps what LoneStep says of it. *)
LEMMA LoneKeeps ==
    ASSUME IInv, TypeInv, NEW w \in Workers, Running = {w}, LoneStep(w),
           Step(w), pc'[w] # "idle"
    PROVE  LoneStep(w)'
<1> DEFINE p == who[w]
           at == pos[p]
<1> USE DEF Goto, SectorStep, Take, playerVars, listVars, placeVars
<1>1. p \in Players /\ at \in Positions /\ who[w] = p
  BY DEF TypeInv, TypeOK, Running
<1>2. UNCHANGED <<who, pos, mixed>>
  BY StepFrame
<1> USE DEF LoneStep, TypeInv, TypeOK
<1>3. CASE Register(w) \/ RegisterAdd(w) \/ RegisterRelease(w) \/ Copy(w)
  BY <1>2, <1>3 DEF Register, RegisterAdd, RegisterRelease, Copy
<1>4. CASE AcquireHere(w) \/ Add(w) \/ Remove(w) \/ ReleasePrevious(w)
  BY <1>1, <1>2, <1>4, NoSectorIsNone DEF AcquireHere, Add, Remove, ReleasePrevious
<1>5. CASE TryAcquire(w)
  <2>1. mixed = {} /\ area[p] \in owned => area[p] = here[w]
    <3>1. SUFFICES ASSUME mixed = {}, area[p] \in owned PROVE area[p] = here[w]
      OBVIOUS
    <3>2. PICK v \in Workers : area[p] \in Holds(v)
      BY <3>1 DEF IInv, FlagInv
    <3>3. v = w
      BY <3>2 DEF Holds, Running
    <3>4. QED
      BY <1>5, <3>2, <3>3 DEF TryAcquire, Holds
  <2>2. mixed = {} /\ pc'[w] = "read" => area[p] = here[w]
    BY <1>1, <1>5, <2>1 DEF TryAcquire
  <2>3. /\ pc' = [pc EXCEPT ![w] = pc'[w]] /\ pc'[w] \in {"add", "read"} /\ pc[w] = "try"
        /\ UNCHANGED <<who, pos, area, here, mixed>>
    BY <1>2, <1>5 DEF TryAcquire
  <2>4. QED
    BY <2>2, <2>3
<1>6. CASE SetSightArea(w)
  BY <1>1, <1>2, <1>6 DEF SetSightArea
<1>7. CASE Read(w)
  <2>1. roster[here[w]] = RosterOf({here[w]})
    BY <1>7 DEF Read, SectorsInv, RosterOf
  <2>2. /\ pc' = [pc EXCEPT ![w] = "readRelease"] /\ found'[w] = RosterOf({PickCoords(at)})
        /\ UNCHANGED <<who, pos, area, here, roster, mixed>> /\ pc[w] = "read"
    BY <1>2, <1>7, <2>1 DEF Read
  <2>3. QED
    BY <2>2 DEF RosterOf
<1>8. CASE ReadRelease(w)
  <2>1. SearchedBefore(at, 1) = {PickCoords(at)}
    BY DEF SearchedBefore
  <2>2. QED
    BY <1>2, <1>8, <2>1 DEF ReadRelease, RosterOf
<1>9. CASE SkipCorner(w)
  <2>1. corner[w] \in 1..4 /\ ~Passes(CornerSector(at, corner[w]), corner[w])
    BY <1>9 DEF SkipCorner, SectorsInv
  <2>2. SearchedBefore(at, corner[w] + 1) = SearchedBefore(at, corner[w])
    BY <2>1, SearchedOne
  <2>3. /\ pc' = [pc EXCEPT ![w] = "corner"] /\ pc[w] = "corner" /\ corner'[w] = corner[w] + 1
        /\ UNCHANGED <<who, pos, area, found, roster, mixed>>
    BY <1>2, <1>9 DEF SkipCorner
  <2>4. QED
    BY <2>2, <2>3 DEF RosterOf
<1>10. CASE AcquireCorner(w)
  BY <1>2, <1>10 DEF AcquireCorner, RosterOf
<1>11. CASE ReadCorner(w)
  <2>1. /\ corner[w] \in 1..4 /\ spot[w] \in Sectors
        /\ spot[w] = CornerSector(at, corner[w]) /\ Passes(spot[w], corner[w])
    BY <1>11 DEF ReadCorner, SectorsInv
  <2>2. roster[spot[w]] = RosterOf({spot[w]})
    BY <2>1 DEF RosterOf
  <2>3. SearchedBefore(at, corner[w] + 1) = SearchedBefore(at, corner[w]) \cup {spot[w]}
    BY <2>1, SearchedOne
  <2>4. /\ pc' = [pc EXCEPT ![w] = "cornerRelease"] /\ pc[w] = "cornerRead"
        /\ found'[w] = found[w] \cup roster[spot[w]]
        /\ UNCHANGED <<who, pos, area, corner, roster, mixed>>
    BY <1>2, <1>11 DEF ReadCorner
  <2>5. found'[w] = RosterOf(SearchedBefore(at, corner[w] + 1))
    BY <2>2, <2>3, <2>4 DEF RosterOf
  <2>6. QED
    BY <2>4, <2>5 DEF RosterOf
<1>12. CASE ReleaseCorner(w)
  BY <1>2, <1>12 DEF ReleaseCorner, RosterOf
<1>13. CASE AssignSight(w)
  <2>1. corner[w] = 5
    BY <1>13 DEF AssignSight, SectorsInv
  <2>2. /\ pc' = [pc EXCEPT ![w] = "compare"] /\ pc[w] = "corner"
        /\ view'[p] = found[w] /\ rest'[w] = found[w]
        /\ UNCHANGED <<who, pos, stage, area, found, before, roster, mixed>>
    BY <1>1, <1>2, <1>13 DEF AssignSight
  <2>3. found[w] = RosterOf(SearchedSectors(at))
    BY <2>1, <2>2, SearchedAfterCorners
  <2>4. QED
    BY <2>2, <2>3 DEF RosterOf
<1>14. ASSUME pc[w] = "compare", UNCHANGED <<pc, who, pos, stage, area, found, roster, mixed>>,
              rest'[w] \subseteq rest[w], NEW q \in Players,
              \/ /\ q \in rest[w] /\ rest'[w] = rest[w] \ {q} /\ before'[w] \subseteq before[w]
                 /\ q \notin before'[w] \cap Registered
                 /\ view'[p] = IF q \in Registered /\ InSight(at, pos[q])
                               THEN view[p] \cup {q} ELSE view[p] \ {q}
              \/ /\ q \notin found[w] \cap Registered
                 /\ rest[w] = {} /\ rest'[w] = {} /\ before'[w] \subseteq before[w]
                 /\ view'[p] = view[p] \ {q}
       PROVE  LoneStep(w)'
  <2>1. /\ RosterOf(SearchedSectors(at))' = RosterOf(SearchedSectors(at))
        /\ Registered' = Registered
    BY <1>14 DEF RosterOf, Registered
  <2>2. found'[w] = RosterOf(SearchedSectors(at))' /\ rest'[w] \subseteq found'[w]
    BY <1>14, <2>1
  <2>3. before'[w] \cap found'[w] \cap Registered' \subseteq rest'[w]
    BY <1>14, <2>1
  <2>4. view'[p] = {r \in found'[w] :
                      r \in rest'[w] \/ (r \in Registered' /\ InSight(at, pos'[r]))}
    BY <1>14, <2>1
  <2>5. QED
    BY <1>14, <2>2, <2>3, <2>4
<1>see. InSight(at, at)
  BY <1>1, SightIsSymmetric, PositionsAreAnywhere
<1>15. CASE Compare(w)
  <2>1. PICK q \in rest[w] :
          /\ rest' = [rest EXCEPT ![w] = @ \ {q}]
          /\ IF q \notin Registered
             THEN view' = [view EXCEPT ![p] = @ \ {q}] /\ UNCHANGED before
             ELSE IF q \notin before[w]
             THEN /\ IF q = p THEN UNCHANGED view
                     ELSE IF InSight(pos[p], pos[q]) THEN Meet(p, q) ELSE Part(p, q)
                  /\ UNCHANGED before
             ELSE /\ IF InSight(pos[p], pos[q]) THEN UNCHANGED view ELSE Part(p, q)
                  /\ before' = [before EXCEPT ![w] = @ \ {q}]
    BY <1>15 DEF Compare
  <2>2. pc[w] = "compare" /\ UNCHANGED <<pc, who, pos, stage, area, found, roster, mixed>>
    BY <1>2, <1>15 DEF Compare
  <2>3. q \in Players /\ q \in found[w] /\ q \in view[p]
    BY <2>1, <2>2
  <2>4. /\ rest'[w] = rest[w] \ {q} /\ before'[w] \subseteq before[w]
        /\ q \notin before'[w] \cap Registered
    BY <2>1
  <2>5. view'[p] = IF q \in Registered /\ InSight(at, pos[q])
                   THEN view[p] \cup {q} ELSE view[p] \ {q}
    <3>1. CASE q \notin Registered
      BY <1>1, <2>1, <3>1
    <3>2. CASE q \in Registered /\ q = p
      BY <1>see, <2>1, <2>3, <3>2
    <3>3. CASE q \in Registered /\ q # p
      <4>1. /\ Meet(p, q) => view'[p] = view[p] \cup {q}
            /\ Part(p, q) => view'[p] = view[p] \ {q}
        BY <1>1, <2>3, <3>3, OwnPatched
      <4>2. CASE InSight(pos[p], pos[q])
        <5>1. Meet(p, q) \/ (q \in view[p] /\ UNCHANGED view)
          BY <2>1, <2>3, <3>3, <4>2
        <5>2. QED
          BY <1>1, <2>3, <3>3, <4>1, <4>2, <5>1
      <4>3. CASE ~InSight(pos[p], pos[q])
        <5>1. Part(p, q)
          BY <2>1, <3>3, <4>3
        <5>2. QED
          BY <4>1, <4>3, <5>1
      <4>4. QED
        BY <4>2, <4>3
    <3>4. QED
      BY <3>1, <3>2, <3>3
  <2>6. QED
    BY <1>14, <2>1, <2>2, <2>3, <2>4, <2>5
<1>16. CASE Lose(w)
  <2>1. PICK q \in before[w] \ {p} :
          /\ IF q \in Registered THEN Part(p, q) ELSE view' = [view EXCEPT ![p] = @ \ {q}]
          /\ before' = [before EXCEPT ![w] = @ \ {q}]
    BY <1>16 DEF Lose
  <2>2. /\ pc[w] = "compare" /\ rest[w] = {}
        /\ UNCHANGED <<pc, who, pos, stage, area, found, rest, roster, mixed>>
    BY <1>2, <1>16 DEF Lose
  <2>3. q \in Players /\ q \notin found[w] \cap Registered /\ before'[w] \subseteq before[w]
    BY <2>1, <2>2
  <2>4. view'[p] = view[p] \ {q}
    <3>1. Part(p, q) => view'[p] = view[p] \ {q}
      BY <1>1, <2>1, <2>3, OwnPatched
    <3>2. QED
      BY <1>1, <2>1, <3>1
  <2>5. QED
    BY <1>14, <2>2, <2>3, <2>4
<1>17. CASE \/ CleanAcquire(w) \/ CleanRemove(w) \/ CleanRelease(w) \/ CleanViews(w)
           \/ Dereference(w)
  BY <1>17 DEF CleanAcquire, CleanRemove, CleanRelease, CleanViews, Dereference
<1>18. CASE Finish(w) \/ Clean(w)
  BY <1>18 DEF Finish, Clean, Return
<1>19. QED
  BY <1>3, <1>4, <1>5, <1>6, <1>7, <1>8, <1>9, <1>10, <1>11, <1>12, <1>13, <1>15, <1>16,
     <1>17, <1>18 DEF Step

LEMMA LoneStays ==
    ASSUME IInv, TypeInv, LoneInv, NEW w \in Workers, Step(w)
    PROVE  LoneInv'
<1>1. SUFFICES ASSUME NEW v \in alone' PROVE Running' = {v} /\ LoneStep(v)'
  BY DEF LoneInv
<1>2. v \in alone /\ Running = {v} /\ LoneStep(v)
  <2>1. alone' \subseteq alone
    BY StepFrame
  <2>2. QED
    BY <2>1 DEF LoneInv
<1>3. w = v /\ pc'[w] # "idle"
  BY <1>2, StepFrame DEF Running
<1>4. Running' = {v}
  BY <1>2, <1>3, StepFrame DEF Running
<1>5. QED
  BY <1>2, <1>3, <1>4, LoneKeeps

LEMMA LoneBegin ==
    ASSUME TypeInv, LoneInv, NEW w \in Workers, NEW p \in Players,
           Enter(w, p) \/ Move(w, p) \/ Leave(w, p)
    PROVE  LoneInv'
<1>1. /\ alone' = IF Running = {} THEN {w} ELSE {}
      /\ \E step \in {"register", "copy", "cleanAcquire"} : pc' = [pc EXCEPT ![w] = step]
  BY DEF Enter, Move, Leave, Begin, Goto
<1>2. /\ pc'[w] \in {"register", "copy", "cleanAcquire"}
      /\ \A v \in Workers \ {w} : pc'[v] = pc[v]
  BY <1>1 DEF TypeInv, TypeOK
<1>3. Running = {} => Running' = {w}
  BY <1>2 DEF Running
<1>4. LoneStep(w)'
  BY <1>2 DEF LoneStep
<1>5. QED
  BY <1>1, <1>3, <1>4 DEF LoneInv

HealInv == IInv /\ TypeInv /\ LoneInv

LEMMA HealInvariant == Spec => []HealInv
<1>1. Init => HealInv
  <2>1. Init => LoneInv
    BY DEF Init, LoneInv
  <2>2. QED
    BY <2>1, RaceInit, TypeInit DEF HealInv
<1>2. HealInv /\ [Next]_vars => HealInv'
  <2>1. ASSUME HealInv, NEW w \in Workers, Step(w) PROVE HealInv'
    <3>1. IInv'
      BY <2>1, ShapeStep, ExclusiveStep, FlagStep, RosterStep DEF HealInv, IInv
    <3>2. TypeInv'
      BY <2>1, TypeStep, SectorsStep DEF HealInv, TypeInv
    <3>3. LoneInv'
      BY <2>1, LoneStays DEF HealInv
    <3>4. QED
      BY <3>1, <3>2, <3>3 DEF HealInv
  <2>2. ASSUME HealInv, NEW w \in Workers, NEW p \in Players,
               Enter(w, p) \/ Move(w, p) \/ Leave(w, p)
        PROVE  HealInv'
    BY <2>2, BeginStep, TypeBegin, LoneBegin DEF HealInv
  <2>3. HealInv /\ UNCHANGED vars => HealInv'
    <3>1. HealInv /\ UNCHANGED vars => LoneInv'
      BY DEF HealInv, vars, playerVars, placeVars, listVars, historyVars, LoneInv, LoneStep,
             Running, Registered, RosterOf
    <3>2. QED
      BY <3>1, RaceStutter, TypeStutter DEF HealInv
  <2>4. QED
    BY <2>1, <2>2, <2>3 DEF Next
<1>3. QED
  BY <1>1, <1>2, PTL DEF Spec

(* A handler with nobody beside it from its begin to its end leaves its    *)
(* player with a view list of those in sight that are registered and on    *)
(* the roster of a searched sector, whatever races left before - two       *)
(* operations of one player included; and on the roster of the sector it   *)
(* is in, if there were no such two: for any number of players, workers    *)
(* and sectors.                                                            *)
THEOREM RaceHeals == Spec => LoneMoveHeals
<1> DEFINE Shown(p) == {q \in Registered :
                          /\ InSight(pos[p], pos[q])
                          /\ \E s \in SearchedSectors(pos[p]) : q \in roster[s]}
           Healed == \A w \in alone : pc[w] = "compare" /\ pc'[w] = "idle" =>
                        LET p == who[w] IN
                        /\ mixed = {} => area[p] = PickCoords(pos[p])
                        /\ view[p] = Shown(p)
<1>1. HealInv /\ [Next]_vars => [Healed]_vars
  <2>1. SUFFICES ASSUME HealInv, [Next]_vars, NEW w \in alone,
                        pc[w] = "compare", pc'[w] = "idle"
                 PROVE  /\ mixed = {} => area[who[w]] = PickCoords(pos[who[w]])
                        /\ view[who[w]] = Shown(who[w])
    OBVIOUS
  <2>2. w \in Workers /\ Running = {w} /\ LoneStep(w)
    BY <2>1 DEF HealInv, LoneInv, TypeInv, TypeOK
  <2>3. rest[w] = {}
    <3>1. ~UNCHANGED vars
      BY <2>1 DEF vars
    <3>2. ASSUME NEW v \in Workers, NEW p \in Players, Enter(v, p) \/ Move(v, p) \/ Leave(v, p)
          PROVE  pc'[w] = "compare"
      BY <2>1, <2>2, <3>2 DEF Enter, Move, Leave, Begin, Goto, HealInv, TypeInv, TypeOK
    <3>3. Step(w)
      <4>1. PICK v \in Workers : Step(v)
        BY <2>1, <3>1, <3>2 DEF Next
      <4>2. QED
        BY <2>1, <2>2, <4>1, StepFrame DEF HealInv
    <3>4. CASE Finish(w)
      BY <3>4 DEF Finish
    <3>5. CASE AssignSight(w) \/ Compare(w) \/ Lose(w) \/ Dereference(w)
      BY <2>1, <2>2, <3>5 DEF AssignSight, Compare, Lose, Dereference, Goto, HealInv,
         TypeInv, TypeOK
    <3>6. QED
      BY <2>1, <3>3, <3>4, <3>5 DEF Step, Register, RegisterAdd, RegisterRelease, Copy,
         AcquireHere, TryAcquire, Add, Remove, ReleasePrevious, SetSightArea, Read,
         ReadRelease, SkipCorner, AcquireCorner, ReadCorner, ReleaseCorner, CleanAcquire,
         CleanRemove, CleanRelease, CleanViews, Clean
  <2>4. view[who[w]] = {q \in RosterOf(SearchedSectors(pos[who[w]])) :
                          q \in Registered /\ InSight(pos[who[w]], pos[q])}
    BY <2>1, <2>2, <2>3 DEF LoneStep
  <2>5. QED
    BY <2>1, <2>2, <2>4 DEF LoneStep, RosterOf, Registered
<1>2. QED
  BY <1>1, HealInvariant, PTL DEF Spec, LoneMoveHeals

=============================================================================
