----------------------------- MODULE SightRace -----------------------------
(***************************************************************************)
(* The sights, one shared access at a time: what WorldSight does in one    *)
(* action per handler, with the workers in between.  A sector's isOwned is *)
(* taken and given back around each use of its roster, but Acquire does    *)
(* not wait.  A call on a roster or a view list is one step, as it is in   *)
(* the executions where no two such calls overlap; RostersAreOwned says    *)
(* whether they can.  Everybody is a player here, and signs in once.       *)
(***************************************************************************)
EXTENDS SightGrid, FiniteSets

CONSTANTS
    Players,
    Workers,
    NoPlayer,
    Ways,           \* bound: the directions characters walk in
    MovesMax        \* bound: how often each player moves

NoSector == <<>>

ASSUME SightRaceAssumption ==
    /\ NoPlayer \notin Players
    /\ Ways \subseteq Directions
    /\ MovesMax \in Nat

VARIABLES
    stage,          \* "away", "entering", "in", "gone": the player's session
    pos, area, view,    \* myPosition, mySightSector, myViewList
    moves,          \* how often it moved
    roster,         \* mySight of each sector
    owned,          \* the sectors whose isOwned is set
    pc, who,        \* where each worker is in the handler, and of whom
    here,           \* curr_sector
    before, found,  \* viewlist_prev, viewlist_curr
    corner, spot,   \* which corner is next, and its sector
    rest,           \* those of the new list that are still to be compared
    crashed,        \* a null mySightSector was used: the program is dead
    alone,          \* history: the workers with nobody beside them since they began
    mixed           \* history: the players two of whose operations ran at a time

playerVars == <<stage, pos, area, view, moves>>
listVars == <<before, found, rest>>
placeVars == <<here, corner, spot>>
historyVars == <<alone, mixed>>
vars == <<playerVars, roster, owned, pc, who, placeVars, listVars, crashed, historyVars>>

Init ==
    /\ stage = [p \in Players |-> "away"]
    /\ pos = [p \in Players |-> StartPosition]
    /\ area = [p \in Players |-> NoSector]
    /\ view = [p \in Players |-> {}]
    /\ moves = [p \in Players |-> 0]
    /\ roster = [s \in Sectors |-> {}]
    /\ owned = {}
    /\ pc = [w \in Workers |-> "idle"]
    /\ who = [w \in Workers |-> NoPlayer]
    /\ here = [w \in Workers |-> NoSector]
    /\ before = [w \in Workers |-> {}]
    /\ found = [w \in Workers |-> {}]
    /\ corner = [w \in Workers |-> 0]
    /\ spot = [w \in Workers |-> NoSector]
    /\ rest = [w \in Workers |-> {}]
    /\ crashed = FALSE
    /\ alone = {} /\ mixed = {}

Registered == {p \in Players : stage[p] \in {"entering", "in"}}
Accepted == {p \in Players : stage[p] = "in"}
Running == {w \in Workers : pc[w] # "idle"}
Handled(p) == \E w \in Running : who[w] = p

Goto(w, step) == pc' = [pc EXCEPT ![w] = step]

-----------------------------------------------------------------------------
(* A worker takes up an operation, whether or not another one has one of   *)
(* the same player.                                                        *)

Begin(w, p, step) ==
    /\ pc[w] = "idle"
    /\ Goto(w, step)
    /\ who' = [who EXCEPT ![w] = p]
    /\ alone' = IF Running = {} THEN {w} ELSE {}
    /\ mixed' = IF Handled(p) THEN mixed \cup {p} ELSE mixed
    /\ UNCHANGED crashed

(* CS_SIGNIN. *)
Enter(w, p) ==
    /\ stage[p] = "away"
    /\ Begin(w, p, "register")
    /\ stage' = [stage EXCEPT ![p] = "entering"]
    /\ UNCHANGED <<pos, area, view, moves, roster, owned, placeVars, listVars>>

(* ENTITY_MOVE of a character that can move. *)
Move(w, p) ==
    /\ stage[p] = "in" /\ moves[p] < MovesMax
    /\ Begin(w, p, "copy")
    /\ \E dir \in Ways :
         /\ TryMove(pos[p], dir) # pos[p]
         /\ pos' = [pos EXCEPT ![p] = TryMove(pos[p], dir)]
    /\ moves' = [moves EXCEPT ![p] = @ + 1]
    /\ UNCHANGED <<stage, area, view, roster, owned, placeVars, listVars>>

(* A bug to be caught: a session that did not sign in is cleaned up too.   *)
LeaveConnected(w, p) ==
    /\ stage[p] \in {"away", "in"}
    /\ Begin(w, p, "cleanAcquire")
    /\ UNCHANGED <<playerVars, roster, owned, placeVars, listVars>>

(* CS_SIGNOUT, or the player's receive fails: Disconnect. *)
Leave(w, p) ==
    /\ stage[p] = "in"
    /\ Begin(w, p, "cleanAcquire")
    /\ UNCHANGED <<playerVars, roster, owned, placeVars, listVars>>

-----------------------------------------------------------------------------
(* SightSector: Acquire sets the flag whether or not it is set.            *)

Acquire(s) == owned' = owned \cup {s}
Release(s) == owned' = owned \ {s}
AddTo(s, p) == roster' = [roster EXCEPT ![s] = @ \cup {p}]
RemoveFrom(s, p) == roster' = [roster EXCEPT ![s] = @ \ {p}]

(* A step that uses a sector, and changes nothing of the players. *)
SectorStep(w, step) ==
    Goto(w, step) /\ UNCHANGED <<playerVars, who, listVars, crashed, historyVars>>

-----------------------------------------------------------------------------
(* RegisterSight. *)

Register(w) ==
    /\ pc[w] = "register"
    /\ here' = [here EXCEPT ![w] = PickCoords(pos[who[w]])]
    /\ Acquire(PickCoords(pos[who[w]]))
    /\ SectorStep(w, "registerAdd")
    /\ UNCHANGED <<roster, corner, spot>>

RegisterAdd(w) ==
    /\ pc[w] = "registerAdd"
    /\ AddTo(here[w], who[w])
    /\ area' = [area EXCEPT ![who[w]] = here[w]]
    /\ Goto(w, "registerRelease")
    /\ UNCHANGED <<stage, pos, view, moves, owned, who, placeVars, listVars,
                   crashed, historyVars>>

RegisterRelease(w) ==
    /\ pc[w] = "registerRelease"
    /\ Release(here[w])
    /\ SectorStep(w, "copy")
    /\ UNCHANGED <<roster, placeVars>>

-----------------------------------------------------------------------------
(* UpdateSight, step 0: the sector of the character. *)

Copy(w) ==
    /\ pc[w] = "copy"
    /\ before' = [before EXCEPT ![w] = view[who[w]]]
    /\ here' = [here EXCEPT ![w] = PickCoords(pos[who[w]])]
    /\ Goto(w, "acquire")
    /\ UNCHANGED <<playerVars, roster, owned, who, corner, spot, found, rest, crashed,
                   historyVars>>

AcquireHere(w) ==
    /\ pc[w] = "acquire"
    /\ Acquire(here[w])
    /\ SectorStep(w, "try")
    /\ UNCHANGED <<roster, placeVars>>

(* The sector it was in so far is taken too, if it is free; otherwise the  *)
(* character stays where it is registered.                                 *)
TryAcquire(w) ==
    /\ pc[w] = "try"
    /\ LET prev == area[who[w]] IN
       \/ /\ prev = NoSector
          /\ SectorStep(w, "add") /\ UNCHANGED owned
       \/ /\ prev # NoSector /\ prev \notin owned
          /\ Acquire(prev)
          /\ SectorStep(w, IF prev = here[w] THEN "read" ELSE "add")
       \/ /\ prev \in owned
          /\ SectorStep(w, "read") /\ UNCHANGED owned
    /\ UNCHANGED <<roster, placeVars>>

Add(w) ==
    /\ pc[w] = "add"
    /\ AddTo(here[w], who[w])
    /\ SectorStep(w, "remove")
    /\ UNCHANGED <<owned, placeVars>>

(* A bug to be caught: removed from the sector it is in now. *)
RemoveHere(w) ==
    /\ pc[w] = "remove"
    /\ IF area[who[w]] = NoSector
       THEN SectorStep(w, "setArea") /\ UNCHANGED roster
       ELSE RemoveFrom(here[w], who[w]) /\ SectorStep(w, "release")
    /\ UNCHANGED <<owned, placeVars>>

(* prev_sector is a reference to mySightSector, which is read again. *)
Remove(w) ==
    /\ pc[w] = "remove"
    /\ IF area[who[w]] = NoSector
       THEN SectorStep(w, "setArea") /\ UNCHANGED roster
       ELSE RemoveFrom(area[who[w]], who[w]) /\ SectorStep(w, "release")
    /\ UNCHANGED <<owned, placeVars>>

(* A bug to be caught: the sector left behind is not given back. *)
ReleaseNothing(w) ==
    /\ pc[w] = "release" /\ area[who[w]] # NoSector
    /\ SectorStep(w, "setArea")
    /\ UNCHANGED <<owned, roster, placeVars>>

ReleasePrevious(w) ==
    /\ pc[w] = "release" /\ area[who[w]] # NoSector
    /\ Release(area[who[w]])
    /\ SectorStep(w, "setArea")
    /\ UNCHANGED <<roster, placeVars>>

SetSightArea(w) ==
    /\ pc[w] = "setArea"
    /\ area' = [area EXCEPT ![who[w]] = here[w]]
    /\ Goto(w, "read")
    /\ UNCHANGED <<stage, pos, view, moves, roster, owned, who, placeVars, listVars,
                   crashed, historyVars>>

-----------------------------------------------------------------------------
(* Steps 1 to 3: the rosters of its own sector and of the corners'. *)

(* A worker's list, from a roster. *)
Take(w, list, step) ==
    /\ found' = [found EXCEPT ![w] = list]
    /\ Goto(w, step)
    /\ UNCHANGED <<playerVars, roster, owned, who, placeVars, before, rest, crashed,
                   historyVars>>

Read(w) == pc[w] = "read" /\ Take(w, roster[here[w]], "readRelease")

ReadRelease(w) ==
    /\ pc[w] = "readRelease"
    /\ Release(here[w])
    /\ corner' = [corner EXCEPT ![w] = 1]
    /\ SectorStep(w, "corner")
    /\ UNCHANGED <<roster, here, spot>>

CornerOffsets == <<<<-1, -1>>, <<1, -1>>, <<-1, 1>>, <<1, 1>>>>
CornerSector(at, k) ==
    PickCoords(Corner(at, CornerOffsets[k][1], CornerOffsets[k][2]))

(* Whether a corner's sector is searched. *)
Passes(s, k) ==
    /\ IF CornerOffsets[k][1] = -1 THEN 0 < s[1] ELSE s[1] < CellCount
    /\ IF CornerOffsets[k][2] = -1 THEN 0 < s[2] ELSE s[2] < CellCount

SkipCorner(w) ==
    /\ pc[w] = "corner" /\ corner[w] <= 4
    /\ ~Passes(CornerSector(pos[who[w]], corner[w]), corner[w])
    /\ corner' = [corner EXCEPT ![w] = @ + 1]
    /\ SectorStep(w, "corner")
    /\ UNCHANGED <<roster, owned, here, spot>>

AcquireCorner(w) ==
    /\ pc[w] = "corner" /\ corner[w] <= 4
    /\ LET s == CornerSector(pos[who[w]], corner[w]) IN
       /\ Passes(s, corner[w])
       /\ spot' = [spot EXCEPT ![w] = s]
       /\ Acquire(s)
    /\ SectorStep(w, "cornerRead")
    /\ UNCHANGED <<roster, here, corner>>

(* A bug to be caught: the last corner's list instead of all of them. *)
ReadCornerOnly(w) ==
    pc[w] = "cornerRead" /\ Take(w, roster[spot[w]], "cornerRelease")

ReadCorner(w) ==
    pc[w] = "cornerRead" /\ Take(w, found[w] \cup roster[spot[w]], "cornerRelease")

ReleaseCorner(w) ==
    /\ pc[w] = "cornerRelease"
    /\ Release(spot[w])
    /\ corner' = [corner EXCEPT ![w] = @ + 1]
    /\ SectorStep(w, "corner")
    /\ UNCHANGED <<roster, here, spot>>

-----------------------------------------------------------------------------
(* Steps 4 and 5: the new view list, and what is different in it. *)

AssignSight(w) ==
    /\ pc[w] = "corner" /\ corner[w] > 4
    /\ view' = [view EXCEPT ![who[w]] = found[w]]
    /\ rest' = [rest EXCEPT ![w] = found[w]]
    /\ Goto(w, "compare")
    /\ UNCHANGED <<stage, pos, area, moves, roster, owned, who, placeVars, before, found,
                   crashed, historyVars>>

(* p sees q, and q sees p. *)
Meet(p, q) == view' = [view EXCEPT ![p] = @ \cup {q}, ![q] = @ \cup {p}]

(* p and q lose sight of each other. *)
Part(p, q) == view' = [view EXCEPT ![p] = @ \ {q}, ![q] = @ \ {p}]

(* One of the new list, in any order. *)
Compare(w) ==
    /\ pc[w] = "compare"
    /\ \E q \in rest[w] :
         LET p == who[w]
             inSight == InSight(pos[p], pos[q])
         IN /\ rest' = [rest EXCEPT ![w] = @ \ {q}]
            /\ IF q \notin Registered
               THEN view' = [view EXCEPT ![p] = @ \ {q}] /\ UNCHANGED before
               ELSE IF q \notin before[w]
               THEN /\ IF q = p THEN UNCHANGED view
                       ELSE IF inSight THEN Meet(p, q) ELSE Part(p, q)
                    /\ UNCHANGED before
               ELSE /\ IF inSight THEN UNCHANGED view ELSE Part(p, q)
                    /\ before' = [before EXCEPT ![w] = @ \ {q}]
    /\ UNCHANGED <<stage, pos, area, moves, roster, owned, pc, who, placeVars, found,
                   crashed, historyVars>>

(* One that was in the old list only. *)
Lose(w) ==
    /\ pc[w] = "compare" /\ rest[w] = {}
    /\ \E q \in before[w] \ {who[w]} :
         /\ IF q \in Registered
            THEN Part(who[w], q)
            ELSE view' = [view EXCEPT ![who[w]] = @ \ {q}]
         /\ before' = [before EXCEPT ![w] = @ \ {q}]
    /\ UNCHANGED <<stage, pos, area, moves, roster, owned, pc, who, placeVars, found, rest,
                   crashed, historyVars>>

(* The worker is free for the next operation. *)
Return(w) ==
    /\ Goto(w, "idle")
    /\ who' = [who EXCEPT ![w] = NoPlayer]
    /\ here' = [here EXCEPT ![w] = NoSector]
    /\ before' = [before EXCEPT ![w] = {}]
    /\ found' = [found EXCEPT ![w] = {}]
    /\ corner' = [corner EXCEPT ![w] = 0]
    /\ spot' = [spot EXCEPT ![w] = NoSector]
    /\ rest' = [rest EXCEPT ![w] = {}]
    /\ alone' = alone \ {w}
    /\ UNCHANGED <<pos, moves, owned, crashed, mixed>>

Finish(w) ==
    /\ pc[w] = "compare" /\ rest[w] = {} /\ before[w] \subseteq {who[w]}
    /\ stage' = [stage EXCEPT ![who[w]] = IF @ = "entering" THEN "in" ELSE @]
    /\ Return(w)
    /\ UNCHANGED <<area, view, roster>>

-----------------------------------------------------------------------------
(* Disconnect: CleanupSight, DeregisterPlayer and Cleanup. *)

CleanAcquire(w) ==
    /\ pc[w] = "cleanAcquire" /\ area[who[w]] # NoSector
    /\ Acquire(area[who[w]])
    /\ SectorStep(w, "cleanRemove")
    /\ UNCHANGED <<roster, placeVars>>

CleanRemove(w) ==
    /\ pc[w] = "cleanRemove" /\ area[who[w]] # NoSector
    /\ RemoveFrom(area[who[w]], who[w])
    /\ SectorStep(w, "cleanRelease")
    /\ UNCHANGED <<owned, placeVars>>

CleanRelease(w) ==
    /\ pc[w] = "cleanRelease" /\ area[who[w]] # NoSector
    /\ Release(area[who[w]])
    /\ SectorStep(w, "cleanViews")
    /\ UNCHANGED <<roster, placeVars>>

CleanViews(w) ==
    /\ pc[w] = "cleanViews"
    /\ view' = [q \in Players |-> IF q \in (view[who[w]] \cap Accepted) \ {who[w]}
                                  THEN view[q] \ {who[w]} ELSE view[q]]
    /\ Goto(w, "clean")
    /\ UNCHANGED <<stage, pos, area, moves, roster, owned, who, placeVars, listVars,
                   crashed, historyVars>>

Clean(w) ==
    /\ pc[w] = "clean"
    /\ stage' = [stage EXCEPT ![who[w]] = "gone"]
    /\ area' = [area EXCEPT ![who[w]] = NoSector]
    /\ view' = [view EXCEPT ![who[w]] = {}]
    /\ Return(w)
    /\ UNCHANGED roster

(* Another worker cleaned up the session in between: prev_sector, or       *)
(* curr_sector of CleanupSight, is null when it is used again.             *)
Dereference(w) ==
    /\ pc[w] \in {"release", "cleanAcquire", "cleanRemove", "cleanRelease"}
    /\ area[who[w]] = NoSector
    /\ crashed' = TRUE
    /\ UNCHANGED <<playerVars, roster, owned, pc, who, placeVars, listVars, historyVars>>

-----------------------------------------------------------------------------
Step(w) ==
    \/ Register(w) \/ RegisterAdd(w) \/ RegisterRelease(w)
    \/ Copy(w) \/ AcquireHere(w) \/ TryAcquire(w)
    \/ Add(w) \/ Remove(w) \/ ReleasePrevious(w) \/ SetSightArea(w)
    \/ Read(w) \/ ReadRelease(w)
    \/ SkipCorner(w) \/ AcquireCorner(w) \/ ReadCorner(w) \/ ReleaseCorner(w)
    \/ AssignSight(w) \/ Compare(w) \/ Lose(w) \/ Finish(w)
    \/ CleanAcquire(w) \/ CleanRemove(w) \/ CleanRelease(w) \/ CleanViews(w) \/ Clean(w)
    \/ Dereference(w)

Next ==
    /\ ~crashed
    /\ \E w \in Workers :
         \/ \E p \in Players : Enter(w, p) \/ Move(w, p) \/ Leave(w, p)
         \/ Step(w)

Spec == Init /\ [][Next]_vars

-----------------------------------------------------------------------------
(* Properties. *)

Steps ==
    {"idle", "register", "registerAdd", "registerRelease", "copy", "acquire", "try",
     "add", "remove", "release", "setArea", "read", "readRelease", "corner",
     "cornerRead", "cornerRelease", "compare",
     "cleanAcquire", "cleanRemove", "cleanRelease", "cleanViews", "clean"}

(* Every variable has its type, and a worker at work has a player. *)
TypeOK ==
    /\ stage \in [Players -> {"away", "entering", "in", "gone"}]
    /\ pos \in [Players -> Positions]
    /\ area \in [Players -> Sectors \cup {NoSector}]
    /\ view \in [Players -> SUBSET Players]
    /\ moves \in [Players -> 0..MovesMax]
    /\ roster \in [Sectors -> SUBSET Players]
    /\ owned \subseteq Sectors
    /\ pc \in [Workers -> Steps]
    /\ who \in [Workers -> Players \cup {NoPlayer}]
    /\ \A w \in Workers : pc[w] = "idle" <=> who[w] = NoPlayer
    /\ here \in [Workers -> Sectors \cup {NoSector}]
    /\ before \in [Workers -> SUBSET Players] /\ found \in [Workers -> SUBSET Players]
    /\ corner \in [Workers -> 0..5]
    /\ spot \in [Workers -> Sectors \cup {NoSector}]
    /\ rest \in [Workers -> SUBSET Players]
    /\ crashed \in BOOLEAN
    /\ alone \subseteq Workers /\ mixed \subseteq Players

(* "이전 구역은 소유권 내려놓기": whoever sets a sector's isOwned clears it      *)
(* again, so that no sector stays taken when all workers are done, though  *)
(* each clears the others' flags too - until two operations of one player  *)
(* are handled at a time.                                                  *)
FlagsReturn == mixed = {} /\ Running = {} => owned = {}

(* A player no two of whose operations were handled at a time is on the    *)
(* roster of the sector its session remembers, and on no other, whatever   *)
(* the others do; so that it can be taken off again.                       *)
OneRoster ==
    \A p \in Players \ mixed : ~Handled(p) =>
        \A s \in Sectors : p \in roster[s] <=> area[p] = s

(* A move with no other handler beside it puts right what races left: the  *)
(* view list has those, and only those, who are in sight and on the roster *)
(* of a searched sector; and the character is registered where it is, if   *)
(* no flag was left behind.                                                *)
LoneMoveHeals ==
    [][\A w \in alone : pc[w] = "compare" /\ pc'[w] = "idle" =>
          LET p == who[w] IN
          /\ mixed = {} => area[p] = PickCoords(pos[p])
          /\ view[p] = {q \in Registered :
                          /\ InSight(pos[p], pos[q])
                          /\ \E s \in SearchedSectors(pos[p]) : q \in roster[s]}]_vars

(* A null sector is used only for a player two of whose operations ran at  *)
(* a time - a move or a departure that another departure cleaned up after. *)
CrashNeedsOverlap ==
    crashed => \E w \in Running : who[w] \in mixed /\ area[who[w]] = NoSector

-----------------------------------------------------------------------------
(* What the source says of the program, and the workers make untrue. *)

(* "적법한 구역의 소유권 획득": a worker owns a sector before it changes or     *)
(* reads the roster, so nobody else does at the same time.                 *)
Writes(w) ==
    IF pc[w] \in {"registerAdd", "add"} THEN {here[w]}
    ELSE IF pc[w] \in {"remove", "cleanRemove"} THEN {area[who[w]]} ELSE {}
Reads(w) ==
    IF pc[w] = "read" THEN {here[w]} ELSE IF pc[w] = "cornerRead" THEN {spot[w]} ELSE {}

RostersAreOwned ==
    \A v, w \in Workers : v # w => Writes(v) \cap (Writes(w) \cup Reads(w)) = {}

(* "이전 구역은 소유권 내려놓기", also when two operations of one player run   *)
(* at a time: the one gives up what the other has taken.                   *)
FlagsAlwaysReturn == Running = {} => owned = {}

(* "0. 자기 캐릭터가 속한 구역을 갱신한다": after UpdateSight the sector of a     *)
(* character is the one its position lies in.                              *)
AreaIsUpdated ==
    \A p \in Accepted : ~Handled(p) => area[p] = PickCoords(pos[p])

(* "상대도 개체 등록": who comes into sight is registered at the other one    *)
(* too, so that sight is mutual when no worker runs.                       *)
SightIsMutual ==
    Running = {} => \A p, q \in Accepted : q \in view[p] => p \in view[q]

(* "시야 구역에서 해당 클라이언트를 삭제": who left is on no roster.            *)
DepartedIsOffRosters ==
    Running = {} => \A p \in Players, s \in Sectors :
        stage[p] = "gone" => p \notin roster[s]

=============================================================================
