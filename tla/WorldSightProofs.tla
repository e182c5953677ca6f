--------------------------- MODULE WorldSightProofs ---------------------------
(***************************************************************************)
(* What WorldSight's runs check of rosters and view lists, for any number  *)
(* of players and NPCs in a world of any size.  None of RostersFollow,     *)
(* ViewsAreMutual and ViewsAreNear is inductive alone: UpdateSight finds   *)
(* whom the rosters name, and tells whom its old list names.               *)
(***************************************************************************)
EXTENDS WorldSight, SightGridProofs

USE DEF deathVars, historyVars

(* What holds whoever dies: places, ids and sectors are where they belong. *)
PlacesInv ==
    /\ TypeOK
    /\ NpcIds \subseteq Registered /\ \A n \in NpcIds : clients[n] = n /\ area[n] \in Sectors
    /\ \A id \in Registered : IsPlayer(id) => clients[id] \in UserPlaces
    /\ FirstId <= orderClientIDs
    /\ \A p \in UserPlaces : sid[p] = NoId \/ FirstId <= sid[p]
    /\ \A c \in Peers : key[c] = NoId \/ FirstId <= key[c]
    /\ \A operation \in posted : operation.op = "MOVE" => FirstId <= operation.id
    /\ \A operation \in posted : operation.id \in Int

(* The ids that were issued, and what was posted for them. *)
IdsInv ==
    /\ \A id \in Registered : id < orderClientIDs /\ sid[clients[id]] = id
    /\ \A c \in Peers : key[c] < orderClientIDs
    /\ \A operation \in posted : operation.op = "MOVE" => operation.id < orderClientIDs
    /\ \A operation \in posted : operation.op = "ATTACK" => FirstId <= operation.id

(* Whoever plays, or is to move, is accepted; who is not sees nobody.      *)
StatusInv ==
    /\ \A id \in Registered : IsPlayer(id) => status[clients[id]] # "NONE"
    /\ \A c \in Peers :
         link[c] = "playing" /\ key[c] \in Registered => key[c] \in Inhabitants
    /\ \A operation \in posted :
         operation.op = "MOVE" /\ operation.id \in Registered => operation.id \in Inhabitants
    /\ \A p \in UserPlaces : status[p] # "ACCEPTED" => view[p] = {}

Mutual == \A i, j \in Inhabitants :
    i # j => (i \in view[clients[j]] <=> j \in view[clients[i]])

(* Rosters and lists, of players and NPCs alike. *)
SightInv ==
    /\ \A id \in Inhabitants : area[clients[id]] = PickCoords(pos[clients[id]])
    /\ \A s \in Sectors :
         roster[s] = {id \in Inhabitants : PickCoords(pos[clients[id]]) = s}
    /\ \A id \in Inhabitants : view[clients[id]] \subseteq Inhabitants
    /\ Mutual
    /\ \A i \in Inhabitants : \A j \in view[clients[i]] :
         InSight(pos[clients[i]], pos[clients[j]])

(* Whom an attack is still to try. *)
AttacksInv == \A attack \in attacks : attack.rest \subseteq Registered \cup stray

Alive == IdsInv /\ StatusInv /\ SightInv /\ AttacksInv

(* A client that is served has one socket, at the place its key leads to;  *)
(* who waits for its sign in shows nothing, and who plays its own list.    *)
ScreensInv ==
    /\ \A c \in Peers : link[c] = "away" => \A p \in Places : socket[p] # c
    /\ \A c \in Peers : link[c] \in {"open", "playing"} =>
         /\ key[c] \in Registered
         /\ \A p \in Places : socket[p] = c <=> p = clients[key[c]]
    /\ \A c \in Peers : link[c] \in {"away", "open"} => shown[c] = {}
    /\ \A c \in Peers : link[c] = "open" => key[c] \notin Inhabitants
    /\ \A c \in Peers : link[c] = "playing" => shown[c] = view[clients[key[c]]]
    /\ \A i \in Inhabitants : IsPlayer(i) => i \in view[clients[i]]
    /\ ~astray

IInv == PlacesInv /\ (Undisturbed => Alive /\ ScreensInv)

-----------------------------------------------------------------------------
(* Places, whoever dies. *)

LEMMA WorldTypes ==
    /\ NpcCount \in Nat /\ UsersMax \in Nat \ {0} /\ FirstId \in Nat
    /\ Places = NpcIds \cup UserPlaces /\ NpcIds \subseteq Nat /\ UserPlaces \subseteq Nat
    /\ \A n \in NpcIds : n < FirstId /\ n \notin UserPlaces
    /\ \A id \in Nat : ~IsPlayer(id) => id \in NpcIds
    /\ NoPeer \notin Peers /\ Ways \subseteq Directions
    /\ NpcPlaces \subseteq Anywhere
BY WorldSightAssumption DEF FirstId, Places, NpcIds, UserPlaces, IsPlayer

LEMMA TellTypes ==
    ASSUME TypeOK, NEW appears, NEW fades, NEW moves, NEW id,
           \A p \in Places : appears[p] \subseteq Int,
           Tell(appears, fades, moves, id)
    PROVE  (\A c \in Peers : shown'[c] \subseteq Int) /\ astray' \in BOOLEAN
<1>1. astray' \in BOOLEAN
  BY DEF Tell, TypeOK
<1>2. \A c \in Peers : shown'[c] \subseteq Int
  <2>1. SUFFICES ASSUME NEW c \in Peers, NEW x \in shown'[c] PROVE x \in Int
    OBVIOUS
  <2>2. \/ x \in shown[c]
        \/ \E p \in Places : x \in appears[p]
    BY <2>1 DEF Tell
  <2>3. QED
    BY <2>2 DEF TypeOK
<1>3. QED
  BY <1>1, <1>2

(* The rosters a handler takes hold ids. *)
LEMMA RostersTaken ==
    ASSUME NEW p \in Positions, NEW me \in Int, NEW from, NEW lists,
           DOMAIN lists = Sectors, \A s \in Sectors : lists[s] \subseteq Int
    PROVE  LET rosters == MovedLists(me, from, PickCoords(p), lists) IN
           /\ DOMAIN rosters = Sectors
           /\ \A s \in Sectors : rosters[s] \subseteq Int
           /\ UNION {rosters[s] : s \in SearchedSectors(p)} \subseteq Int
<1> DEFINE rosters == MovedLists(me, from, PickCoords(p), lists)
<1>1. DOMAIN rosters = Sectors /\ \A s \in Sectors : rosters[s] \subseteq Int
  BY DEF MovedLists
<1>2. SearchedSectors(p) \subseteq Sectors
  BY SearchInGrid
<1>3. QED
  BY <1>1, <1>2

LEMMA UpdateTypes ==
    ASSUME PlacesInv, NEW p \in UserPlaces, NEW at \in Positions, NEW from, NEW lists,
           NEW greeting, greeting \subseteq Int,
           DOMAIN lists = Sectors, \A s \in Sectors : lists[s] \subseteq Int,
           UpdateSight(p, at, from, lists, greeting)
    PROVE  /\ pos' = [pos EXCEPT ![p] = at]
           /\ area' = [area EXCEPT ![p] = PickCoords(at)] /\ PickCoords(at) \in Sectors
           /\ \A q \in Places : view'[q] \subseteq Int
           /\ DOMAIN roster' = Sectors /\ \A s \in Sectors : roster'[s] \subseteq Int
           /\ \A c \in Peers : shown'[c] \subseteq Int
           /\ astray' \in BOOLEAN
<1> USE WorldTypes
<1> DEFINE me == sid[p]
           here == PickCoords(at)
           rosters == MovedLists(me, from, here, lists)
           found == UNION {rosters[s] : s \in SearchedSectors(at)}
           d == Difference(p, view[p], found, at)
           missing == found \ Registered
           PlacesOf(ids) == {clients[i] : i \in ids \cap Registered}
           PlayersOf(ids) == PlacesOf({i \in ids : IsPlayer(i)})
           Mine(q, ids) == IF q = p THEN ids ELSE {}
           Theirs(q, places) == IF q \in places THEN {me} ELSE {}
           appears == [q \in Places |->
                         Mine(q, greeting \cup {sid[clients[i]] : i \in d.new})
                            \cup Theirs(q, PlayersOf(d.new))]
           fades == [q \in Places |->
                       Mine(q, missing \cup d.left \cup d.lost)
                          \cup Theirs(q, PlayersOf(Parting(d)))]
<1>1. p \in Places /\ me \in Int
  BY DEF PlacesInv, TypeOK
<1>2. PickCoords(at) \in Sectors
  BY SearchInGrid
<1>3. /\ DOMAIN rosters = Sectors /\ \A s \in Sectors : rosters[s] \subseteq Int
      /\ found \subseteq Int
  BY <1>1, RostersTaken
<1>4. d.new \subseteq found \cap Registered
  BY DEF Difference
<1>5. /\ pos' = [pos EXCEPT ![p] = at] /\ area' = [area EXCEPT ![p] = here]
      /\ roster' = rosters
      /\ view' = [q \in Places |->
             ((IF q = p THEN found ELSE view[q])
                 \cup Mine(q, d.new) \cup Theirs(q, PlacesOf(d.new)))
             \ (Mine(q, missing \cup d.left \cup d.far \cup d.lost)
                 \cup Theirs(q, PlacesOf(d.far \cup Parting(d))))]
      /\ Tell(appears, fades, PlayersOf(d.stay), me)
  BY DEF UpdateSight
<1> HIDE DEF d, found, rosters, PlacesOf, PlayersOf, missing, me
<1>6. \A q \in Places : view'[q] \subseteq Int
  <2>1. SUFFICES ASSUME NEW q \in Places, NEW x \in view'[q] PROVE x \in Int
    OBVIOUS
  <2>2. x \in found \/ x \in view[q] \/ x \in d.new \/ x = me
    BY <1>5, <2>1
  <2>3. view[q] \subseteq Int
    BY DEF PlacesInv, TypeOK
  <2>4. QED
    BY <1>1, <1>3, <1>4, <2>2, <2>3
<1>7. \A q \in Places : appears[q] \subseteq Int
  <2>1. SUFFICES ASSUME NEW q \in Places, NEW x \in appears[q] PROVE x \in Int
    OBVIOUS
  <2>2. x \in greeting \/ x = me \/ \E i \in d.new : x = sid[clients[i]]
    BY <2>1
  <2>3. \A i \in d.new : sid[clients[i]] \in Int
    BY <1>4 DEF PlacesInv, TypeOK
  <2>4. QED
    BY <1>1, <2>2, <2>3
<1> HIDE DEF appears, fades
<1>8. (\A c \in Peers : shown'[c] \subseteq Int) /\ astray' \in BOOLEAN
  BY <1>5, <1>7, TellTypes DEF PlacesInv
<1>9. QED
  BY <1>2, <1>3, <1>5, <1>6, <1>8

LEMMA CleanupTypes ==
    ASSUME PlacesInv, NEW p, NEW accepted, p \in Places, CleanupSight(p, accepted)
    PROVE  /\ DOMAIN roster' = Sectors /\ \A s \in Sectors : roster'[s] \subseteq roster[s]
           /\ \A c \in Peers : shown'[c] \subseteq Int
           /\ astray' \in BOOLEAN
<1>1. DOMAIN roster' = Sectors /\ \A s \in Sectors : roster'[s] \subseteq roster[s]
  BY DEF CleanupSight, PlacesInv, TypeOK
<1>2. (\A c \in Peers : shown'[c] \subseteq Int) /\ astray' \in BOOLEAN
  <2> DEFINE nothing == [q \in Places |-> {}]
  <2>1. \A q \in Places : nothing[q] \subseteq Int
    OBVIOUS
  <2> HIDE DEF nothing
  <2>2. \E fades : Tell(nothing, fades, {}, NoId)
    BY DEF CleanupSight, nothing
  <2>3. QED
    BY <2>1, <2>2, TellTypes DEF PlacesInv
<1>3. QED
  BY <1>1, <1>2

LEMMA PlacesInit == Init => PlacesInv
<1> USE WorldTypes, GridTypes, PositionsAreAnywhere
<1>1. SUFFICES ASSUME Init PROVE PlacesInv
  OBVIOUS
<1>2. PICK npcPos \in [NpcIds -> NpcPlaces] :
        /\ pos = [p \in Places |-> IF p \in NpcIds THEN npcPos[p] ELSE StartPosition]
        /\ area = [p \in Places |-> IF p \in NpcIds THEN PickCoords(npcPos[p]) ELSE NoSector]
        /\ roster = [s \in Sectors |-> {n \in NpcIds : PickCoords(npcPos[n]) = s}]
  BY <1>1 DEF Init
<1>3. \A n \in NpcIds : npcPos[n] \in Anywhere /\ PickCoords(npcPos[n]) \in Sectors
  BY <1>2, AnywhereHasSector
<1>4. /\ pos \in [Places -> Anywhere] /\ \A p \in UserPlaces : pos[p] \in Positions
      /\ area \in [Places -> Sectors \cup {NoSector}]
      /\ DOMAIN roster = Sectors /\ \A s \in Sectors : roster[s] \subseteq Int
  <2>1. DOMAIN roster = Sectors /\ \A s \in Sectors : roster[s] \subseteq NpcIds
    BY <1>2
  <2>2. pos \in [Places -> Anywhere]
    BY <1>2, <1>3
  <2>3. \A p \in UserPlaces : pos[p] \in Positions
    BY <1>2
  <2>4. area \in [Places -> Sectors \cup {NoSector}]
    BY <1>2, <1>3
  <2>5. NpcIds \subseteq Int
    OBVIOUS
  <2>6. QED
    BY <2>1, <2>2, <2>3, <2>4, <2>5
<1>5. /\ status \in [Places -> {"NONE", "CONNECTED", "ACCEPTED"}]
      /\ sid \in [Places -> Int] /\ socket \in [Places -> Peers \cup {NoPeer}]
  <2>1. NoId \in Int
    BY DEF NoId
  <2>2. QED
    BY <1>1, <2>1 DEF Init
<1>6. /\ \A p \in Places : view[p] \subseteq Int
      /\ \A id \in Registered : id \in Nat /\ clients[id] \in Places
      /\ orderClientIDs \in Nat /\ posted = {} /\ dead = {} /\ ~astray /\ ~crashed
      /\ attacks = {} /\ stray = {} /\ ~rash
      /\ link \in [Peers -> {"away", "open", "playing", "left", "broken", "gone"}]
      /\ key \in [Peers -> Int] /\ \A c \in Peers : key[c] = NoId
      /\ \A c \in Peers : shown[c] \subseteq Int
      /\ \A p \in UserPlaces : sid[p] = NoId
  BY <1>1 DEF Init, Registered, NoId
<1>7. TypeOK
  BY <1>1, <1>4, <1>5, <1>6 DEF TypeOK, Init
<1>8. /\ Registered = NpcIds /\ orderClientIDs = FirstId
      /\ \A n \in NpcIds : clients[n] = n /\ area[n] \in Sectors
  BY <1>1, <1>2, <1>3 DEF Init, Registered
<1>9. \A id \in Registered : ~IsPlayer(id)
  BY <1>8 DEF IsPlayer
<1>10. QED
  BY <1>6, <1>7, <1>8, <1>9 DEF PlacesInv

LEMMA PlacesSignUp == ASSUME PlacesInv, NEW c \in Peers, SignUp(c) PROVE PlacesInv'
<1> USE WorldTypes
<1>1. PICK p \in UserPlaces :
        /\ status' = [status EXCEPT ![p] = "CONNECTED"]
        /\ sid' = [sid EXCEPT ![p] = orderClientIDs]
        /\ socket' = [socket EXCEPT ![p] = c]
        /\ clients' = [i \in Registered \cup {orderClientIDs} |->
                          IF i \in Registered THEN clients[i] ELSE p]
  BY DEF SignUp
<1>2. /\ orderClientIDs' = orderClientIDs + 1
      /\ link' = [link EXCEPT ![c] = "open"] /\ key' = [key EXCEPT ![c] = orderClientIDs]
      /\ UNCHANGED <<sightVars, posted, attacks, clientVars, deathVars, historyVars>>
  BY DEF SignUp
<1>3. Registered' = Registered \cup {orderClientIDs}
  BY <1>1 DEF Registered
<1>4. TypeOK'
  BY <1>1, <1>2, <1>3 DEF PlacesInv, TypeOK, sightVars, clientVars
<1>5. \A id \in Registered' : IsPlayer(id) => clients'[id] \in UserPlaces
  BY <1>1, <1>3 DEF PlacesInv
<1>6. /\ NpcIds \subseteq Registered'
      /\ \A n \in NpcIds : clients'[n] = n /\ area'[n] \in Sectors
  BY <1>1, <1>2, <1>3 DEF PlacesInv, sightVars
<1>7. /\ FirstId <= orderClientIDs'
      /\ \A q \in UserPlaces : sid'[q] = NoId \/ FirstId <= sid'[q]
      /\ \A d \in Peers : key'[d] = NoId \/ FirstId <= key'[d]
  <2>1. FirstId <= orderClientIDs /\ orderClientIDs \in Nat
    BY DEF PlacesInv, TypeOK
  <2>2. \A q \in UserPlaces : sid'[q] = sid[q] \/ sid'[q] = orderClientIDs
    BY <1>1 DEF PlacesInv, TypeOK
  <2>3. \A d \in Peers : key'[d] = key[d] \/ key'[d] = orderClientIDs
    BY <1>2 DEF PlacesInv, TypeOK
  <2>4. FirstId <= orderClientIDs'
    BY <1>2, <2>1
  <2>5. QED
    BY <2>1, <2>2, <2>3, <2>4 DEF PlacesInv
<1>8. QED
  BY <1>2, <1>4, <1>5, <1>6, <1>7 DEF PlacesInv

LEMMA PlacesUpdate ==
    ASSUME PlacesInv, NEW p \in UserPlaces, NEW at \in Positions, NEW from, NEW lists,
           NEW greeting, greeting \subseteq Int,
           DOMAIN lists = Sectors, \A s \in Sectors : lists[s] \subseteq Int,
           UpdateSight(p, at, from, lists, greeting),
           status' = status \/ status' = [status EXCEPT ![p] = "ACCEPTED"],
           posted' \subseteq posted,
           link' \in [Peers -> {"away", "open", "playing", "left", "broken", "gone"}],
           UNCHANGED <<sid, socket, registryVars, attacks, key, deathVars, historyVars>>
    PROVE  PlacesInv'
<1> USE WorldTypes, PositionsAreAnywhere
<1>1. /\ pos' = [pos EXCEPT ![p] = at]
      /\ area' = [area EXCEPT ![p] = PickCoords(at)] /\ PickCoords(at) \in Sectors
      /\ \A q \in Places : view'[q] \subseteq Int
      /\ DOMAIN roster' = Sectors /\ \A s \in Sectors : roster'[s] \subseteq Int
      /\ \A c \in Peers : shown'[c] \subseteq Int
      /\ astray' \in BOOLEAN
  BY UpdateTypes
<1>2. Registered' = Registered
  BY DEF Registered, registryVars
<1>3. TypeOK'
  BY <1>1, <1>2 DEF PlacesInv, TypeOK, registryVars
<1>4. \A n \in NpcIds : area'[n] \in Sectors
  BY <1>1 DEF PlacesInv, TypeOK
<1>5. QED
  BY <1>2, <1>3, <1>4 DEF PlacesInv, registryVars

LEMMA KeysArePlayers ==
    ASSUME PlacesInv, NEW c \in Peers, key[c] \in Registered
    PROVE  IsPlayer(key[c])
<1>1. key[c] \in Nat
  BY DEF PlacesInv, TypeOK
<1>2. key[c] # NoId
  BY <1>1 DEF NoId
<1>3. QED
  BY <1>2 DEF PlacesInv, IsPlayer

LEMMA PlacesSignIn == ASSUME PlacesInv, NEW c \in Peers, SignIn(c) PROVE PlacesInv'
<1> USE WorldTypes, PositionsAreAnywhere
<1> DEFINE p == clients[key[c]]
           here == PickCoords(StartPosition)
           lists == [roster EXCEPT ![here] = @ \cup {sid[p]}]
<1>1. key[c] \in Registered /\ p \in UserPlaces /\ sid[p] \in Int
  <2>1. key[c] \in Registered
    BY DEF SignIn
  <2>2. p \in UserPlaces
    BY <2>1, KeysArePlayers DEF PlacesInv
  <2>3. QED
    BY <2>1, <2>2 DEF PlacesInv, TypeOK
<1>2. DOMAIN lists = Sectors /\ \A s \in Sectors : lists[s] \subseteq Int
  BY <1>1 DEF PlacesInv, TypeOK
<1>3. /\ UpdateSight(p, StartPosition, here, lists, {sid[p]})
      /\ status' = [status EXCEPT ![p] = "ACCEPTED"]
      /\ link' = [link EXCEPT ![c] = "playing"]
      /\ UNCHANGED <<sid, socket, registryVars, posted, attacks, key, deathVars, historyVars>>
  BY DEF SignIn
<1>4. link' \in [Peers -> {"away", "open", "playing", "left", "broken", "gone"}]
  BY <1>3 DEF PlacesInv, TypeOK
<1>5. {sid[p]} \subseteq Int /\ posted' \subseteq posted
  BY <1>1, <1>3
<1>6. UNCHANGED <<sid, socket, registryVars, attacks, key, deathVars, historyVars>>
  BY <1>3
<1>7. StartPosition \in Positions
  BY PositionsAreAnywhere
<1>8. UpdateSight(p, StartPosition, here, lists, {sid[p]})
  BY <1>3
<1>9. status' = status \/ status' = [status EXCEPT ![p] = "ACCEPTED"]
  BY <1>3
<1> HIDE DEF p, here, lists
<1>10. QED
  BY <1>1, <1>2, <1>4, <1>5, <1>6, <1>7, <1>8, <1>9, PlacesUpdate

LEMMA PlacesEntityMove == ASSUME PlacesInv, NEW id, EntityMove(id) PROVE PlacesInv'
<1> USE WorldTypes
<1>1. /\ posted' \subseteq posted
      /\ UNCHANGED <<poolVars, registryVars, attacks, linkVars, deathVars, historyVars>>
  BY DEF EntityMove
<1>2. CASE UNCHANGED <<sightVars, clientVars>>
  <2>1. Registered' = Registered
    BY <1>1 DEF Registered, registryVars
  <2>2. TypeOK'
    BY <1>1, <1>2, <2>1 DEF PlacesInv, TypeOK, poolVars, registryVars, linkVars, sightVars, clientVars
  <2>3. QED
    BY <1>1, <1>2, <2>1, <2>2
    DEF PlacesInv, poolVars, registryVars, linkVars, sightVars, clientVars
<1>3. CASE ~UNCHANGED <<sightVars, clientVars>>
  <2>1. PICK dir \in Ways :
          LET p == clients[id] IN
          id \in Registered /\ UpdateSight(p, TryMove(pos[p], dir), area[p], roster, {})
    BY <1>3 DEF EntityMove
  <2> DEFINE p == clients[id]
             at == TryMove(pos[p], dir)
  <2>2. FirstId <= id
    BY DEF EntityMove, Take, Operation, PlacesInv
  <2>3. p \in UserPlaces /\ pos[p] \in Positions
    BY <2>1, <2>2 DEF PlacesInv, TypeOK, IsPlayer
  <2>4. at \in Positions
    BY <2>3, StepsStay
  <2>5. DOMAIN roster = Sectors /\ \A s \in Sectors : roster[s] \subseteq Int
    BY DEF PlacesInv, TypeOK
  <2>6. UpdateSight(p, at, area[p], roster, {})
    BY <2>1
  <2>7. /\ status' = status /\ link' = link /\ posted' \subseteq posted
        /\ UNCHANGED <<sid, socket, registryVars, attacks, key, deathVars, historyVars>>
    BY <1>1 DEF poolVars, linkVars
  <2>8. link' \in [Peers -> {"away", "open", "playing", "left", "broken", "gone"}]
    BY <2>7 DEF PlacesInv, TypeOK
  <2>9. {} \subseteq Int
    OBVIOUS
  <2> HIDE DEF p, at
  <2>10. QED
    BY <2>3, <2>4, <2>5, <2>6, <2>7, <2>8, <2>9, PlacesUpdate
<1>4. QED
  BY <1>2, <1>3

LEMMA PlacesDisconnect ==
    ASSUME PlacesInv, NEW id, NEW own \in Peers, Disconnect(id, own), IsPlayer(id)
    PROVE  PlacesInv'
<1> USE WorldTypes
<1> DEFINE p == clients[id]
<1>1. id \in Registered /\ p \in UserPlaces
  BY DEF Disconnect, PlacesInv
<1>2. /\ clients' = [i \in Registered \ {id} |-> clients[i]]
      /\ status' = [status EXCEPT ![p] = "NONE"]
      /\ sid' = [sid EXCEPT ![p] = NoId]
      /\ socket' = [socket EXCEPT ![p] = NoPeer]
      /\ area' = [area EXCEPT ![p] = NoSector]
      /\ link' = [c \in Peers |-> IF c = own THEN "gone"
                                  ELSE IF c = socket[p] /\ link[c] \in {"open", "playing"}
                                  THEN "broken" ELSE link[c]]
      /\ UNCHANGED <<pos, orderClientIDs, posted, attacks, key, deathVars, rash>>
  BY DEF Disconnect
<1>3. Registered' = Registered \ {id}
  BY <1>2 DEF Registered
<1>4. /\ DOMAIN roster' = Sectors /\ \A s \in Sectors : roster'[s] \subseteq Int
      /\ \A c \in Peers : shown'[c] \subseteq Int
      /\ astray' \in BOOLEAN
  <2>1. CASE status[p] = "ACCEPTED"
    <3>1. CleanupSight(p, Accepted)
      BY <2>1 DEF Disconnect
    <3>2. \A s \in Sectors : roster[s] \subseteq Int
      BY DEF PlacesInv, TypeOK
    <3>3. QED
      BY <1>1, <3>1, <3>2, CleanupTypes
  <2>2. CASE status[p] # "ACCEPTED"
    BY <2>2 DEF Disconnect, clientVars, PlacesInv, TypeOK
  <2>3. QED
    BY <2>1, <2>2
<1>5. \A q \in Places : view'[q] \subseteq Int
  <2>1. \A q \in Places : view'[q] \subseteq view[q]
    BY DEF Disconnect, ViewsWithout, PlacesInv, TypeOK
  <2>2. QED
    BY <2>1 DEF PlacesInv, TypeOK
<1>6. NoId \in Int
  BY DEF NoId
<1>7. TypeOK'
  <2>1. link' \in [Peers -> {"away", "open", "playing", "left", "broken", "gone"}]
    BY <1>2 DEF PlacesInv, TypeOK
  <2>2. /\ status' \in [Places -> {"NONE", "CONNECTED", "ACCEPTED"}]
        /\ sid' \in [Places -> Int] /\ socket' \in [Places -> Peers \cup {NoPeer}]
        /\ area' \in [Places -> Sectors \cup {NoSector}]
    BY <1>2, <1>6 DEF PlacesInv, TypeOK
  <2>3. \A i \in Registered' : i \in Nat /\ clients'[i] \in Places
    BY <1>2, <1>3 DEF PlacesInv, TypeOK
  <2>4. stray' \subseteq Int
    <3>1. stray' \subseteq stray \cup {id} /\ id \in Int
      BY <1>1 DEF Disconnect, PlacesInv, TypeOK
    <3>2. QED
      BY <3>1 DEF PlacesInv, TypeOK
  <2>5. QED
    BY <1>2, <1>4, <1>5, <2>1, <2>2, <2>3, <2>4 DEF PlacesInv, TypeOK
<1>8. NpcIds \subseteq Registered' /\ \A n \in NpcIds : clients'[n] = n /\ area'[n] \in Sectors
  <2>1. id \notin NpcIds
    <3>1. SUFFICES ASSUME id \in NpcIds PROVE FALSE
      OBVIOUS
    <3>2. id \in Nat /\ id < FirstId
      BY <3>1
    <3>3. QED
      BY <3>2 DEF IsPlayer
  <2>2. QED
    BY <1>1, <1>2, <1>3, <2>1 DEF PlacesInv, TypeOK
<1>9. \A i \in Registered' : IsPlayer(i) => clients'[i] \in UserPlaces
  BY <1>2, <1>3 DEF PlacesInv
<1>10. \A q \in UserPlaces : sid'[q] = NoId \/ FirstId <= sid'[q]
  BY <1>2 DEF PlacesInv, TypeOK
<1>11. QED
  BY <1>2, <1>7, <1>8, <1>9, <1>10 DEF PlacesInv

(* Each of those who call Disconnect names a player. *)
LEMMA DisconnectsPlayers ==
    ASSUME PlacesInv, NEW c \in Peers, SignOut(c) \/ Expel(c) \/ Fail(c)
    PROVE  \/ \E id : IsPlayer(id) /\ Disconnect(id, c)
           \/ /\ link[c] = "broken" /\ link' = [link EXCEPT ![c] = "gone"]
              /\ UNCHANGED <<poolVars, sightVars, registryVars, posted, attacks, key,
                             clientVars, deathVars, historyVars>>
<1>1. CASE SignOut(c) \/ Expel(c)
  <2> DEFINE p == clients[key[c]]
  <2>1. key[c] \in Registered /\ Disconnect(sid[p], c)
    BY <1>1 DEF SignOut, Expel
  <2>2. p \in UserPlaces
    BY <2>1, KeysArePlayers DEF PlacesInv
  <2>3. sid[p] \in Registered /\ sid[p] \in Nat
    BY <2>1 DEF Disconnect, PlacesInv, TypeOK
  <2>4. IsPlayer(sid[p])
    BY <2>2, <2>3 DEF PlacesInv, IsPlayer, NoId
  <2>5. QED
    BY <2>1, <2>4
<1>2. CASE Fail(c)
  <2>1. CASE Disconnect(key[c], c)
    BY <2>1, KeysArePlayers DEF Disconnect
  <2>2. CASE ~Disconnect(key[c], c)
    BY <1>2, <2>2 DEF Fail
  <2>3. QED
    BY <2>1, <2>2
<1>3. QED
  BY <1>1, <1>2

LEMMA PlacesEntityDead == ASSUME PlacesInv, NEW id, EntityDead(id) PROVE PlacesInv'
<1> USE WorldTypes
<1> DEFINE p == clients[id]
<1>1. /\ posted' \subseteq posted /\ id \in Int
      /\ UNCHANGED <<sid, socket, pos, area, registryVars, attacks, linkVars, historyVars>>
  BY DEF EntityDead, Take, Operation, PlacesInv
<1>2. Registered' = Registered
  BY <1>1 DEF Registered, registryVars
<1>3. /\ DOMAIN roster' = Sectors /\ \A s \in Sectors : roster'[s] \subseteq Int
      /\ \A c \in Peers : shown'[c] \subseteq Int
      /\ astray' \in BOOLEAN
  <2>1. CASE id \in Registered /\ area[p] # NoSector
    <3>1. p \in Places /\ CleanupSight(p, Accepted \ {p})
      BY <2>1 DEF EntityDead, PlacesInv, TypeOK
    <3>2. \A s \in Sectors : roster[s] \subseteq Int
      BY DEF PlacesInv, TypeOK
    <3>3. QED
      BY <3>1, <3>2, CleanupTypes
  <2>2. CASE ~(id \in Registered /\ area[p] # NoSector)
    BY <2>2 DEF EntityDead, clientVars, PlacesInv, TypeOK
  <2>3. QED
    BY <2>1, <2>2
<1>4. \A q \in Places : view'[q] \subseteq Int
  <2>1. \A q \in Places : view'[q] \subseteq view[q]
    BY DEF EntityDead, ViewsWithout
  <2>2. QED
    BY <2>1 DEF PlacesInv, TypeOK
<1>5. /\ status' \in [Places -> {"NONE", "CONNECTED", "ACCEPTED"}]
      /\ dead' \subseteq Int /\ crashed' \in BOOLEAN
  <2>1. status' = status \/ status' = [status EXCEPT ![p] = "NONE"]
    BY DEF EntityDead
  <2>2. dead' = dead \/ dead' = dead \cup {id}
    BY DEF EntityDead
  <2>3. crashed' = crashed \/ crashed' = TRUE
    BY DEF EntityDead
  <2>4. status' \in [Places -> {"NONE", "CONNECTED", "ACCEPTED"}]
    BY <2>1 DEF PlacesInv, TypeOK
  <2>5. dead' \subseteq Int
    <3>1. dead \subseteq Int /\ id \in Int
      BY <1>1 DEF PlacesInv, TypeOK
    <3>2. QED
      BY <2>2, <3>1
  <2>6. crashed' \in BOOLEAN
    BY <2>3 DEF PlacesInv, TypeOK
  <2>7. QED
    BY <2>4, <2>5, <2>6
<1>6. TypeOK'
  BY <1>1, <1>2, <1>3, <1>4, <1>5 DEF PlacesInv, TypeOK, registryVars, linkVars
<1>7. QED
  BY <1>1, <1>2, <1>6 DEF PlacesInv, registryVars, linkVars

LEMMA PlacesStep == PlacesInv /\ [Next]_vars => PlacesInv'
<1>1. SUFFICES ASSUME PlacesInv, [Next]_vars PROVE PlacesInv'
  OBVIOUS
<1> USE DEF poolVars, sightVars, clientVars, linkVars, registryVars
<1>2. ASSUME UNCHANGED <<sid, socket, pos, area, status, roster, view, clients,
                         orderClientIDs, key, shown, astray, dead, stray>>,
             link' \in [Peers -> {"away", "open", "playing", "left", "broken", "gone"}],
             crashed' \in BOOLEAN, rash' \in BOOLEAN,
             \A attack \in attacks' : attack.place \in Places /\ attack.rest \subseteq Int,
             \A operation \in posted' :
                \/ operation \in posted
                \/ /\ operation.op \in {"ATTACK", "DEAD"} /\ operation.id \in Int
                \/ /\ operation.op = "MOVE" /\ operation.id \in Int /\ FirstId <= operation.id
      PROVE  PlacesInv'
  <2>1. Registered' = Registered
    BY <1>2 DEF Registered
  <2>2. TypeOK'
    BY <1>1, <1>2, <2>1 DEF PlacesInv, TypeOK
  <2>3. QED
    BY <1>1, <1>2, <2>1, <2>2 DEF PlacesInv
<1>3. CASE UNCHANGED vars
  BY <1>1, <1>2, <1>3 DEF vars, PlacesInv, TypeOK
<1>4. ASSUME NEW c \in Peers, Post(c) PROVE PlacesInv'
  <2> DEFINE id == sid[clients[key[c]]]
  <2>1. key[c] \in Registered /\ id \in Int
    BY <1>1, <1>4 DEF Post, PlacesInv, TypeOK
  <2>2. \/ id = key[c] /\ posted' = posted \cup {Operation("MOVE", id)}
        \/ posted' = posted \cup {Operation("ATTACK", id)}
    BY <1>4 DEF Post
  <2>r. rash' \in BOOLEAN
    BY <1>1, <1>4 DEF Post, PlacesInv, TypeOK
  <2>3. id = key[c] => FirstId <= id
    BY <1>1, <2>1, KeysArePlayers DEF IsPlayer
  <2>4. \A operation \in posted' :
           \/ operation \in posted
           \/ /\ operation.op \in {"ATTACK", "DEAD"} /\ operation.id \in Int
           \/ /\ operation.op = "MOVE" /\ operation.id \in Int /\ FirstId <= operation.id
    BY <2>1, <2>2, <2>3 DEF Operation
  <2>5. QED
    BY <1>1, <1>2, <1>4, <2>4, <2>r DEF Post, PlacesInv, TypeOK
<1>5. ASSUME NEW c \in Peers, SignOut(c) \/ Expel(c) \/ Fail(c) PROVE PlacesInv'
  <2>1. CASE \E id : IsPlayer(id) /\ Disconnect(id, c)
    BY <1>1, <2>1, PlacesDisconnect
  <2>2. CASE /\ link' = [link EXCEPT ![c] = "gone"]
             /\ UNCHANGED <<poolVars, sightVars, registryVars, posted, attacks, key,
                            clientVars, deathVars, historyVars>>
    BY <1>1, <1>2, <2>2 DEF PlacesInv, TypeOK
  <2>3. QED
    BY <1>1, <1>5, <2>1, <2>2, DisconnectsPlayers
<1>6. ASSUME NEW c \in Peers, Leave(c) \/ Reset(c) PROVE PlacesInv'
  BY <1>1, <1>2, <1>6 DEF Leave, Reset, PlacesInv, TypeOK
<1>7. ASSUME NEW id, AttackCopy(id) PROVE PlacesInv'
  <2>1. \A attack \in attacks' : \/ attack \in attacks
                                 \/ /\ id \in Registered
                                    /\ attack = Attack(clients[id], view[clients[id]] \ {id})
    BY <1>7 DEF AttackCopy
  <2>2. \A attack \in attacks' : attack.place \in Places /\ attack.rest \subseteq Int
    BY <1>1, <2>1 DEF Attack, PlacesInv, TypeOK
  <2>3. QED
    BY <1>1, <1>2, <1>7, <2>2 DEF AttackCopy, PlacesInv, TypeOK
<1>a. ASSUME NEW attack \in attacks, AttackNext(attack) PROVE PlacesInv'
  <2>1. PICK i \in attack.rest :
          /\ attacks' \subseteq (attacks \ {attack})
                                \cup {Attack(attack.place, attack.rest \ {i})}
          /\ \A operation \in posted' :
               \/ operation \in posted
               \/ i \in Registered /\ operation = Operation("DEAD", sid[clients[i]])
          /\ crashed' = (i \notin Registered)
    BY <1>a DEF AttackNext
  <2>2. \A a \in attacks' : a.place \in Places /\ a.rest \subseteq Int
    BY <1>1, <2>1 DEF Attack, PlacesInv, TypeOK
  <2>3. i \in Registered => sid[clients[i]] \in Int
    BY <1>1 DEF PlacesInv, TypeOK
  <2>4. \A operation \in posted' :
           \/ operation \in posted
           \/ /\ operation.op \in {"ATTACK", "DEAD"} /\ operation.id \in Int
           \/ /\ operation.op = "MOVE" /\ operation.id \in Int /\ FirstId <= operation.id
    BY <2>1, <2>3 DEF Operation
  <2>5. crashed' \in BOOLEAN
    BY <2>1
  <2>6. QED
    BY <1>1, <1>2, <1>a, <2>2, <2>4, <2>5 DEF AttackNext, PlacesInv, TypeOK
<1>8. QED
  BY <1>1, <1>3, <1>4, <1>5, <1>6, <1>7, <1>a, PlacesSignUp, PlacesSignIn, PlacesEntityMove,
     PlacesEntityDead DEF Next

-----------------------------------------------------------------------------
(* Rosters and lists, while nothing disturbs them: no player has died, and *)
(* none moved before its sign in.                                          *)

(* Nobody shares a place. *)
LEMMA PlacesAreOwn ==
    ASSUME IdsInv, NEW i \in Registered, NEW j \in Registered, clients[i] = clients[j]
    PROVE  i = j
BY DEF IdsInv

(* Those whom UpdateSight finds on the rosters it takes. *)
Found(p, at, from, lists) ==
    UNION {MovedLists(sid[p], from, PickCoords(at), lists)[s] : s \in SearchedSectors(at)}

(* Those of them who are in sight of a position; oneself always is.        *)
NearOf(me, at, found) == {j \in found : j = me \/ InSight(at, pos[clients[j]])}

(* What Difference finds, when all it is given are of the world. *)
LEMMA DifferenceIs ==
    ASSUME PlacesInv, IdsInv, NEW me \in Registered, NEW at, NEW before, NEW found,
           found \subseteq Registered, me \in found
    PROVE  LET near == NearOf(me, at, found) IN
           Difference(clients[me], before, found, at) =
             [new  |-> near \ (before \cup {me}),
              stay |-> near \cap before,
              left |-> (found \cap before) \ near,
              far  |-> found \ (near \cup before),
              lost |-> before \ (found \cup {me})]
<1> DEFINE near == NearOf(me, at, found)
           p == clients[me]
<1>1. sid[p] = me
  BY DEF IdsInv
<1>2. \A j \in found : clients[j] = p <=> j = me
  BY PlacesAreOwn
<1>3. near = {j \in found \cap Registered : clients[j] = p \/ InSight(at, pos[clients[j]])}
  BY <1>2 DEF NearOf
<1>4. near \subseteq found /\ me \in near /\ found \cap Registered = found
  BY DEF NearOf
<1> HIDE DEF near, p
<1>5. Difference(p, before, found, at) =
        [new  |-> near \ ((near \cap before) \cup {me}),
         stay |-> near \cap before,
         left |-> (found \cap before) \ near,
         far  |-> found \ (near \cup ((found \cap before) \ near)),
         lost |-> before \ ((near \cap before) \cup ((found \cap before) \ near) \cup {me})]
  BY <1>1, <1>3, <1>4 DEF Difference, Remembered
<1>6. /\ near \ ((near \cap before) \cup {me}) = near \ (before \cup {me})
      /\ found \ (near \cup ((found \cap before) \ near)) = found \ (near \cup before)
      /\ before \ ((near \cap before) \cup ((found \cap before) \ near) \cup {me})
           = before \ (found \cup {me})
  BY <1>4
<1>7. QED
  BY <1>5, <1>6 DEF p, near

(* What UpdateSight makes of the lists, if they are mutual: that of its    *)
(* own character holds those found in sight, and it is in their lists and  *)
(* in no others.                                                           *)
LEMMA UpdateViews ==
    ASSUME PlacesInv, IdsInv, NEW me \in Registered, NEW at, NEW from, NEW lists, NEW greeting,
           NEW I \in SUBSET Registered, me \in I,
           Found(clients[me], at, from, lists) \subseteq I,
           me \in Found(clients[me], at, from, lists),
           view[clients[me]] \subseteq I,
           \A j \in I \ {me} : me \in view[clients[j]] <=> j \in view[clients[me]],
           UpdateSight(clients[me], at, from, lists, greeting)
    PROVE  LET near == NearOf(me, at, Found(clients[me], at, from, lists)) IN
           /\ view'[clients[me]] = near
           /\ \A j \in I \ {me} :
                view'[clients[j]] = IF j \in near THEN view[clients[j]] \cup {me}
                                                  ELSE view[clients[j]] \ {me}
           /\ \A q \in Places \ {clients[j] : j \in I} : view'[q] \subseteq view[q]
<1> DEFINE p == clients[me]
           here == PickCoords(at)
           found == Found(p, at, from, lists)
           before == view[p]
           near == NearOf(me, at, found)
           d == Difference(p, before, found, at)
           missing == found \ Registered
           PlacesOf(ids) == {clients[i] : i \in ids \cap Registered}
           Mine(q, ids) == IF q = p THEN ids ELSE {}
           Theirs(q, places) == IF q \in places THEN {me} ELSE {}
<1>1. sid[p] = me /\ p \in Places
  BY DEF IdsInv, PlacesInv, TypeOK
<1>2. view' = [q \in Places |->
             ((IF q = p THEN found ELSE view[q])
                 \cup Mine(q, d.new) \cup Theirs(q, PlacesOf(d.new)))
             \ (Mine(q, missing \cup d.left \cup d.far \cup d.lost)
                 \cup Theirs(q, PlacesOf(d.far \cup Parting(d))))]
  BY <1>1 DEF UpdateSight, Found
<1>3. \A j \in I : clients[j] \in Places /\ (clients[j] = p <=> j = me)
  BY PlacesAreOwn DEF PlacesInv, TypeOK
<1>4. found \subseteq I /\ me \in near /\ missing = {}
  BY DEF NearOf
<1>6. /\ d.new = near \ (before \cup {me})
      /\ d.left = (found \cap before) \ near
      /\ d.far = found \ (near \cup before)
      /\ d.lost = before \ (found \cup {me})
  <2>1. found \subseteq Registered /\ me \in found
    OBVIOUS
  <2> HIDE DEF found, before
  <2>2. d = [new  |-> near \ (before \cup {me}),
             stay |-> near \cap before,
             left |-> (found \cap before) \ near,
             far  |-> found \ (near \cup before),
             lost |-> before \ (found \cup {me})]
    BY <2>1, DifferenceIs
  <2> HIDE DEF d, near
  <2>3. QED
    BY <2>2
<1> HIDE DEF found, before, p, near
<1> HIDE DEF d
<1>7. view'[p] = near
  <2>1. me \notin d.new \cup d.far \cup d.left \cup d.lost
    BY <1>4, <1>6
  <2>2. p \notin PlacesOf(d.new) /\ p \notin PlacesOf(d.far \cup Parting(d))
    <3>1. SUFFICES ASSUME NEW i \in Registered, clients[i] = p PROVE i = me
      BY <2>1 DEF Parting
    <3>2. QED
      BY <3>1, PlacesAreOwn DEF p
  <2>3. view'[p] = (found \cup d.new) \ (missing \cup d.left \cup d.far \cup d.lost)
    BY <1>1, <1>2, <2>2
  <2>4. near \subseteq found
    BY DEF near, NearOf
  <2>5. QED
    BY <1>4, <1>6, <2>3, <2>4
<1>8. \A j \in I \ {me} : /\ clients[j] \in PlacesOf(d.new) <=> j \in d.new
                          /\ clients[j] \in PlacesOf(d.far \cup Parting(d))
                               <=> j \in d.far \cup d.left \cup d.lost
  <2>1. ASSUME NEW j \in I, NEW ids
        PROVE  clients[j] \in PlacesOf(ids) <=> j \in ids
    BY PlacesAreOwn
  <2>2. QED
    BY <2>1 DEF Parting
<1>9. \A j \in I \ {me} :
        view'[clients[j]] = IF j \in near THEN view[clients[j]] \cup {me}
                                          ELSE view[clients[j]] \ {me}
  <2>1. SUFFICES ASSUME NEW j \in I \ {me}
                 PROVE  view'[clients[j]] = IF j \in near THEN view[clients[j]] \cup {me}
                                                          ELSE view[clients[j]] \ {me}
    OBVIOUS
  <2>2. clients[j] \in Places /\ clients[j] # p
    BY <1>3
  <2>3. view'[clients[j]] = (view[clients[j]] \cup (IF j \in d.new THEN {me} ELSE {}))
                              \ (IF j \in d.far \cup d.left \cup d.lost THEN {me} ELSE {})
    BY <1>2, <1>8, <2>2
  <2>4. me \in view[clients[j]] <=> j \in before
    BY DEF before, p
  <2>5. CASE j \in near
    <3>1. j \notin d.far \cup d.left \cup d.lost
      BY <1>6, <2>5 DEF near, NearOf
    <3>2. j \in d.new \/ me \in view[clients[j]]
      BY <1>6, <2>4, <2>5
    <3>3. QED
      BY <2>3, <2>5, <3>1, <3>2
  <2>6. CASE j \notin near
    <3>1. j \notin d.new
      BY <1>6, <2>6
    <3>2. me \in view[clients[j]] => j \in d.far \cup d.left \cup d.lost
      BY <1>6, <2>4, <2>6
    <3>3. QED
      BY <2>3, <2>6, <3>1, <3>2
  <2>7. QED
    BY <2>5, <2>6
<1>10. \A q \in Places \ {clients[j] : j \in I} : view'[q] \subseteq view[q]
  <2>1. SUFFICES ASSUME NEW q \in Places, \A j \in I : q # clients[j]
                 PROVE  view'[q] \subseteq view[q]
    OBVIOUS
  <2>2. q # p /\ q \notin PlacesOf(d.new)
    <3>1. d.new \subseteq I
      BY <1>4, <1>6 DEF near, NearOf
    <3>2. QED
      BY <2>1, <3>1 DEF p
  <2>3. QED
    BY <1>2, <2>2
<1>11. QED
  BY <1>7, <1>9, <1>10 DEF p, near, found

(* The rosters after UpdateSight hold who is in the world, by position, so *)
(* that it finds nobody else; this both for a character that moves and for *)
(* one that RegisterSight has just put on its roster.                      *)
LEMMA UpdateRosters ==
    ASSUME PlacesInv, IdsInv, SightInv, NEW me \in Registered, clients[me] \in UserPlaces,
           NEW at \in Positions, NEW from, NEW lists, NEW greeting,
           \/ me \in Inhabitants /\ from = area[clients[me]] /\ lists = roster
           \/ /\ me \notin Inhabitants /\ view[clients[me]] = {} /\ from = PickCoords(at)
              /\ lists = [roster EXCEPT ![from] = @ \cup {sid[clients[me]]}],
           UpdateSight(clients[me], at, from, lists, greeting)
    PROVE  LET p == clients[me]
               I == Inhabitants \cup {me}
               found == Found(p, at, from, lists)
           IN
           /\ pos'[p] = at /\ area'[p] = PickCoords(at)
           /\ \A j \in I \ {me} :
                pos'[clients[j]] = pos[clients[j]] /\ area'[clients[j]] = area[clients[j]]
           /\ \A s \in Sectors : roster'[s] = {j \in I : PickCoords(pos'[clients[j]]) = s}
           /\ found \subseteq I /\ me \in found
           /\ view[p] \subseteq I
           /\ \A j \in I \ {me} : me \in view[clients[j]] <=> j \in view[p]
<1> USE WorldTypes, PositionsAreAnywhere
<1> DEFINE p == clients[me]
           here == PickCoords(at)
           I == Inhabitants \cup {me}
           found == Found(p, at, from, lists)
<1>1. /\ sid[p] = me /\ p \in Places /\ here \in Sectors /\ here \in SearchedSectors(at)
      /\ SearchedSectors(at) \subseteq Sectors
  BY SearchInGrid DEF IdsInv, PlacesInv, TypeOK
<1>2. I \in SUBSET Registered /\ me \in I
  BY DEF Inhabitants
<1>3. \A j \in I : clients[j] \in Places /\ (clients[j] = p <=> j = me)
  BY <1>2, PlacesAreOwn DEF PlacesInv, TypeOK
<1>4. /\ pos' = [pos EXCEPT ![p] = at] /\ area' = [area EXCEPT ![p] = here]
      /\ roster' = MovedLists(me, from, here, lists)
  BY <1>1 DEF UpdateSight
<1>5. /\ pos'[p] = at /\ area'[p] = here
      /\ \A j \in I \ {me} : pos'[clients[j]] = pos[clients[j]] /\ area'[clients[j]] = area[clients[j]]
  BY <1>1, <1>3, <1>4 DEF PlacesInv, TypeOK
<1>6. \A s \in Sectors : roster'[s] = {j \in I : PickCoords(pos'[clients[j]]) = s}
  <2>1. \A s \in Sectors, j \in Inhabitants \ {me} :
          j \in roster[s] <=> PickCoords(pos'[clients[j]]) = s
    BY <1>5 DEF SightInv
  <2>2. \A s \in Sectors : roster[s] \subseteq Inhabitants
    BY DEF SightInv
  <2>3. CASE me \in Inhabitants
    <3>1. /\ \A s \in Sectors : me \in roster[s] <=> s = from
          /\ lists = roster
      BY <2>3 DEF SightInv
    <3>2. \A s \in Sectors : roster'[s] = (roster[s] \ {me}) \cup (IF s = here THEN {me} ELSE {})
      BY <1>1, <1>4, <3>1 DEF MovedLists
    <3>3. QED
      BY <1>5, <2>1, <2>2, <2>3, <3>2
  <2>4. CASE me \notin Inhabitants
    <3>1. roster' = lists /\ lists = [roster EXCEPT ![here] = @ \cup {me}]
      BY <1>1, <1>4, <2>4 DEF MovedLists
    <3>2. \A s \in Sectors : roster'[s] = roster[s] \cup (IF s = here THEN {me} ELSE {})
      BY <3>1 DEF PlacesInv, TypeOK
    <3>3. QED
      BY <1>5, <2>1, <2>2, <2>4, <3>2
  <2>5. QED
    BY <2>3, <2>4
<1>7. found \subseteq I /\ me \in found
  <2>1. found = UNION {roster'[s] : s \in SearchedSectors(at)}
    BY <1>1, <1>4 DEF Found
  <2>2. me \in roster'[here]
    BY <1>1, <1>2, <1>5, <1>6
  <2>3. QED
    BY <1>1, <1>6, <2>1, <2>2
<1>8. view[p] \subseteq I /\ \A j \in I \ {me} : me \in view[clients[j]] <=> j \in view[p]
  <2>1. CASE me \in Inhabitants
    BY <2>1 DEF SightInv, Mutual
  <2>2. CASE me \notin Inhabitants
    <3>1. \A j \in Inhabitants : me \notin view[clients[j]]
      BY <2>2 DEF SightInv
    <3>2. view[p] = {}
      BY <2>2
    <3>3. QED
      BY <3>1, <3>2
  <2>3. QED
    BY <2>1, <2>2
<1>9. QED
  BY <1>5, <1>6, <1>7, <1>8

(* UpdateSight keeps rosters and lists in order. *)
LEMMA UpdateKeepsSight ==
    ASSUME PlacesInv, IdsInv, SightInv, NEW me \in Registered, clients[me] \in UserPlaces,
           NEW at \in Positions, NEW from, NEW lists, NEW greeting,
           \/ me \in Inhabitants /\ from = area[clients[me]] /\ lists = roster
           \/ /\ me \notin Inhabitants /\ view[clients[me]] = {} /\ from = PickCoords(at)
              /\ lists = [roster EXCEPT ![from] = @ \cup {sid[clients[me]]}],
           UpdateSight(clients[me], at, from, lists, greeting),
           UNCHANGED clients,
           Inhabitants' = Inhabitants \cup {me}
    PROVE  /\ SightInv'
           /\ \A q \in Places \ {clients[j] : j \in Inhabitants'} : view'[q] \subseteq view[q]
<1> USE WorldTypes, PositionsAreAnywhere
<1> DEFINE p == clients[me]
           here == PickCoords(at)
           I == Inhabitants \cup {me}
           found == Found(p, at, from, lists)
           near == NearOf(me, at, found)
<1>1. p \in Places /\ here \in Sectors
  BY SearchInGrid DEF PlacesInv, TypeOK
<1>2. I \in SUBSET Registered /\ me \in I
  BY DEF Inhabitants
<1>3. \A j \in I : clients[j] \in Places /\ (clients[j] = p <=> j = me)
  BY <1>2, PlacesAreOwn DEF PlacesInv, TypeOK
<1>5. /\ pos'[p] = at /\ area'[p] = here
      /\ \A j \in I \ {me} :
           pos'[clients[j]] = pos[clients[j]] /\ area'[clients[j]] = area[clients[j]]
  BY UpdateRosters
<1>6. \A s \in Sectors : roster'[s] = {j \in I : PickCoords(pos'[clients[j]]) = s}
  BY UpdateRosters
<1>7. found \subseteq I /\ me \in found
  BY UpdateRosters
<1>8. view[p] \subseteq I /\ \A j \in I \ {me} : me \in view[clients[j]] <=> j \in view[p]
  BY UpdateRosters
<1>9. /\ view'[p] = near
      /\ \A j \in I \ {me} :
           view'[clients[j]] = IF j \in near THEN view[clients[j]] \cup {me}
                                             ELSE view[clients[j]] \ {me}
      /\ \A q \in Places \ {clients[j] : j \in I} : view'[q] \subseteq view[q]
  <2> HIDE DEF I
  <2>1. UpdateSight(clients[me], at, from, lists, greeting)
    OBVIOUS
  <2>2. QED
    BY <1>2, <1>7, <1>8, <2>1, UpdateViews
<1>10. near \subseteq I /\ me \in near /\ \A j \in near \ {me} : InSight(at, pos[clients[j]])
  BY <1>7 DEF NearOf
<1> HIDE DEF found, near
<1>see. \A j \in I \ {me} : \A k :
          k \in view'[clients[j]] <=> \/ k # me /\ k \in view[clients[j]]
                                      \/ k = me /\ j \in near
  <2>1. SUFFICES ASSUME NEW j \in I \ {me}, NEW k
                 PROVE  k \in view'[clients[j]] <=> \/ k # me /\ k \in view[clients[j]]
                                                    \/ k = me /\ j \in near
    OBVIOUS
  <2>2. CASE j \in near
    <3>1. view'[clients[j]] = view[clients[j]] \cup {me}
      BY <1>9, <2>2
    <3>2. QED
      BY <2>2, <3>1
  <2>3. CASE j \notin near
    <3>1. view'[clients[j]] = view[clients[j]] \ {me}
      BY <1>9, <2>3
    <3>2. QED
      BY <2>3, <3>1
  <2>4. QED
    BY <2>2, <2>3
<1>11. \A j \in I : area'[clients[j]] = PickCoords(pos'[clients[j]])
  BY <1>5 DEF SightInv
<1>12. \A j \in I : view'[clients[j]] \subseteq I
  <2>1. \A j \in I \ {me} : view[clients[j]] \subseteq Inhabitants
    BY DEF SightInv
  <2>2. \A j \in I \ {me} : view'[clients[j]] \subseteq I
    BY <1>see, <1>2, <2>1
  <2>3. QED
    BY <1>9, <1>10, <2>2
<1>13. \A i, j \in I : i # j => (i \in view'[clients[j]] <=> j \in view'[clients[i]])
  <2>1. SUFFICES ASSUME NEW i \in I, NEW j \in I, i # j
                 PROVE  i \in view'[clients[j]] <=> j \in view'[clients[i]]
    OBVIOUS
  <2>2. CASE i = me
    BY <1>9, <1>see, <2>1, <2>2
  <2>3. CASE j = me
    BY <1>9, <1>see, <2>1, <2>3
  <2>4. CASE i # me /\ j # me
    <3>1. i \in view[clients[j]] <=> j \in view[clients[i]]
      BY <2>1, <2>4 DEF SightInv, Mutual
    <3>2. QED
      BY <1>see, <2>4, <3>1
  <2>5. QED
    BY <2>2, <2>3, <2>4
<1>14. \A j \in I : pos[clients[j]] \in Anywhere
  BY <1>3 DEF PlacesInv, TypeOK
<1>15. \A j \in near : InSight(at, pos'[clients[j]])
  <2>1. InSight(at, at)
    BY SightIsSymmetric
  <2>2. QED
    BY <1>5, <1>10, <2>1
<1>16. ASSUME NEW i \in I, NEW j \in view'[clients[i]]
       PROVE  InSight(pos'[clients[i]], pos'[clients[j]])
  <2>1. CASE i = me
    BY <1>5, <1>9, <1>15, <1>16, <2>1
  <2>2. CASE i # me /\ j = me
    <3>1. i \in near
      BY <1>see, <1>16, <2>2
    <3>2. InSight(at, pos'[clients[i]]) /\ pos'[clients[i]] = pos[clients[i]]
      BY <1>5, <1>15, <2>2, <3>1
    <3>3. InSight(pos'[clients[i]], at)
      BY <1>14, <3>2, SightIsSymmetric
    <3>4. QED
      BY <1>5, <2>2, <3>3
  <2>3. CASE i # me /\ j # me
    <3>1. j \in view[clients[i]] /\ i \in Inhabitants
      BY <1>see, <1>16, <2>3
    <3>2. j \in I /\ InSight(pos[clients[i]], pos[clients[j]])
      BY <3>1 DEF SightInv
    <3>3. QED
      BY <1>5, <2>3, <3>2
  <2>4. QED
    BY <2>1, <2>2, <2>3
<1>17. SightInv'
  BY <1>6, <1>11, <1>12, <1>13, <1>16 DEF SightInv, Mutual
<1>18. QED
  BY <1>9, <1>17

(* Steps that leave the world as it is. *)
LEMMA SightSame ==
    ASSUME SightInv, UNCHANGED sightVars, Inhabitants' = Inhabitants,
           \A j \in Inhabitants : clients'[j] = clients[j]
    PROVE  SightInv'
BY DEF SightInv, Mutual, sightVars

(* A character that is on no roster and in nobody's list any more. *)
LEMMA SightDeparts ==
    ASSUME SightInv, NEW id, Inhabitants' = Inhabitants \ {id}, UNCHANGED pos,
           \A j \in Inhabitants \ {id} :
              /\ clients'[j] = clients[j] /\ area'[clients[j]] = area[clients[j]]
              /\ view'[clients[j]] = view[clients[j]] \ {id},
           \A s \in Sectors : roster'[s] = roster[s] \ {id}
    PROVE  SightInv'
<1> DEFINE I == Inhabitants \ {id}
<1>1. \A j \in I : area'[clients'[j]] = PickCoords(pos'[clients'[j]])
  BY DEF SightInv
<1>2. \A s \in Sectors : roster'[s] = {j \in I : PickCoords(pos'[clients'[j]]) = s}
  <2>1. \A s \in Sectors : roster'[s] = {j \in I : PickCoords(pos[clients[j]]) = s}
    BY DEF SightInv
  <2>2. QED
    BY <2>1
<1>3. \A j \in I : view'[clients'[j]] \subseteq I
  BY DEF SightInv
<1>4. \A i, j \in I : i # j => (i \in view'[clients'[j]] <=> j \in view'[clients'[i]])
  BY DEF SightInv, Mutual
<1>5. \A i \in I : \A j \in view'[clients'[i]] :
        InSight(pos'[clients'[i]], pos'[clients'[j]])
  <2>1. \A i \in I : \A j \in view'[clients[i]] :
          j \in I /\ InSight(pos[clients[i]], pos[clients[j]])
    BY <1>3 DEF SightInv
  <2>2. QED
    BY <2>1
<1>6. QED
  BY <1>1, <1>2, <1>3, <1>4, <1>5 DEF SightInv, Mutual

(* CleanupSight finds everybody who sees the character in its own list.    *)
LEMMA CleanupForgets ==
    ASSUME PlacesInv, IdsInv, SightInv, NEW id \in Registered, NEW accepted,
           accepted = Accepted \/ accepted = Accepted \ {clients[id]},
           CleanupSight(clients[id], accepted)
    PROVE  /\ \A s \in Sectors : roster'[s] = roster[s] \ {id}
           /\ \A j \in Inhabitants \ {id} :
                ViewsWithout(clients[id], accepted)[clients[j]] = view[clients[j]] \ {id}
<1> DEFINE p == clients[id]
<1>1. sid[p] = id /\ p \in Places
  BY DEF IdsInv, PlacesInv, TypeOK
<1>2. \A s \in Sectors : roster'[s] = roster[s] \ {id}
  <2>1. roster' = [roster EXCEPT ![area[p]] = @ \ {id}]
    BY <1>1 DEF CleanupSight
  <2>2. \A s \in Sectors : id \in roster[s] => area[p] = s
    BY DEF SightInv
  <2>3. DOMAIN roster = Sectors
    BY DEF PlacesInv, TypeOK
  <2>4. QED
    BY <2>1, <2>2, <2>3
<1>3. ASSUME NEW j \in Inhabitants \ {id}
      PROVE  ViewsWithout(p, accepted)[clients[j]] = view[clients[j]] \ {id}
  <2> DEFINE q == clients[j]
  <2>1. j \in Registered /\ q \in Accepted /\ q # p /\ q \in Places
    BY PlacesAreOwn DEF Inhabitants, InWorld, Accepted, PlacesInv, TypeOK
  <2>2. q \in accepted
    BY <2>1
  <2>3. q \in Watchers(p, view[p]) <=> j \in view[p]
    <3>1. ASSUME NEW i \in Registered, clients[i] = q PROVE i = j
      BY <2>1, <3>1, PlacesAreOwn
    <3>2. Watchers(p, view[p]) = {clients[i] : i \in (view[p] \ {id}) \cap Registered}
      BY <1>1 DEF Watchers
    <3>3. QED
      BY <2>1, <3>1, <3>2
  <2>4. id \in view[q] => j \in view[p]
    BY DEF SightInv, Mutual
  <2>5. ViewsWithout(p, accepted)[q] =
           IF q \in Watchers(p, view[p]) THEN view[q] \ {id} ELSE view[q]
    BY <1>1, <2>1, <2>2 DEF ViewsWithout
  <2> HIDE DEF q
  <2>6. ViewsWithout(p, accepted)[q] = view[q] \ {id}
    BY <2>3, <2>4, <2>5
  <2>7. QED
    BY <2>6 DEF q
<1>4. QED
  BY <1>2, <1>3

(* Disconnect takes the character out of every list of the world. *)
LEMMA DisconnectForgets ==
    ASSUME PlacesInv, Alive, NEW id, NEW own \in Peers, Disconnect(id, own), IsPlayer(id)
    PROVE  /\ id \in Registered /\ clients[id] \in UserPlaces
           /\ Registered' = Registered \ {id} /\ Inhabitants' = Inhabitants \ {id}
           /\ \A j \in Registered \ {id} : clients'[j] = clients[j] /\ clients[j] # clients[id]
                                             /\ clients[j] \in Places
           /\ \A s \in Sectors : roster'[s] = roster[s] \ {id}
           /\ \A j \in Inhabitants \ {id} : view'[clients[j]] = view[clients[j]] \ {id}
           /\ \A q \in Places : view'[q] \subseteq view[q]
           /\ view'[clients[id]] = {}
<1> DEFINE p == clients[id]
<1>1. id \in Registered /\ p \in UserPlaces /\ p \in Places
  BY WorldTypes DEF Disconnect, PlacesInv
<1>2. /\ clients' = [i \in Registered \ {id} |-> clients[i]]
      /\ status' = [status EXCEPT ![p] = "NONE"]
      /\ sid' = [sid EXCEPT ![p] = NoId]
      /\ area' = [area EXCEPT ![p] = NoSector]
      /\ link' = [c \in Peers |-> IF c = own THEN "gone"
                                  ELSE IF c = socket[p] /\ link[c] \in {"open", "playing"}
                                  THEN "broken" ELSE link[c]]
      /\ UNCHANGED <<pos, orderClientIDs, posted, attacks, key, deathVars, rash>>
  BY DEF Disconnect
<1>3. /\ Registered' = Registered \ {id}
      /\ \A j \in Registered \ {id} : clients'[j] = clients[j] /\ clients[j] # p
                                      /\ clients[j] \in Places
  BY <1>1, <1>2, PlacesAreOwn DEF Registered, Alive, PlacesInv, TypeOK
<1>4. \A j \in Registered \ {id} : /\ status'[clients[j]] = status[clients[j]]
                                   /\ sid'[clients[j]] = sid[clients[j]]
                                   /\ area'[clients[j]] = area[clients[j]]
  BY <1>2, <1>3 DEF PlacesInv, TypeOK
<1>5. Inhabitants' = Inhabitants \ {id}
  BY <1>3, <1>4 DEF Inhabitants, InWorld
<1>6. /\ \A s \in Sectors : roster'[s] = roster[s] \ {id}
      /\ \A j \in Inhabitants \ {id} : view'[clients[j]] = view[clients[j]] \ {id}
      /\ \A q \in Places : view'[q] \subseteq view[q]
      /\ view'[p] = {}
  <2> DEFINE views == IF status[p] = "ACCEPTED" THEN ViewsWithout(p, Accepted) ELSE view
  <2>1. view' = [views EXCEPT ![p] = {}]
    BY DEF Disconnect
  <2>2. CASE status[p] = "ACCEPTED"
    <3>1. /\ \A s \in Sectors : roster'[s] = roster[s] \ {id}
          /\ \A j \in Inhabitants \ {id} : views[clients[j]] = view[clients[j]] \ {id}
      BY <1>1, <2>2, CleanupForgets DEF Disconnect, Alive
    <3>2. DOMAIN views = Places /\ \A q \in Places : views[q] \subseteq view[q]
      BY <2>2 DEF ViewsWithout
    <3> HIDE DEF views
    <3>3. \A j \in Inhabitants \ {id} : clients[j] \in Places /\ clients[j] # p
      BY <1>3 DEF Inhabitants
    <3>4. QED
      BY <1>1, <2>1, <3>1, <3>2, <3>3
  <2>3. CASE status[p] # "ACCEPTED"
    <3>1. id \notin Inhabitants /\ views = view /\ roster' = roster
      BY <2>3 DEF Inhabitants, InWorld, Disconnect
    <3>2. /\ \A s \in Sectors : id \notin roster[s]
          /\ \A j \in Inhabitants : id \notin view[clients[j]]
      BY <3>1 DEF SightInv, Alive
    <3>3. view[p] = {}
      BY <1>1, <2>3 DEF StatusInv, Alive
    <3>4. view' = [view EXCEPT ![p] = {}]
      BY <2>1, <3>1
    <3>5. \A q : view'[q] = view[q]
      BY <3>3, <3>4
    <3>6. QED
      BY <3>1, <3>2, <3>3, <3>5
  <2>4. QED
    BY <2>2, <2>3
<1>7. QED
  BY <1>1, <1>3, <1>5, <1>6

LEMMA AliveDisconnect ==
    ASSUME PlacesInv, Alive, NEW id, NEW own \in Peers, Disconnect(id, own), IsPlayer(id)
    PROVE  Alive'
<1> DEFINE p == clients[id]
<1>1. id \in Registered /\ p \in UserPlaces /\ p \in Places
  BY WorldTypes DEF Disconnect, PlacesInv
<1>2. /\ clients' = [i \in Registered \ {id} |-> clients[i]]
      /\ status' = [status EXCEPT ![p] = "NONE"]
      /\ sid' = [sid EXCEPT ![p] = NoId]
      /\ area' = [area EXCEPT ![p] = NoSector]
      /\ link' = [c \in Peers |-> IF c = own THEN "gone"
                                  ELSE IF c = socket[p] /\ link[c] \in {"open", "playing"}
                                  THEN "broken" ELSE link[c]]
      /\ UNCHANGED <<pos, orderClientIDs, posted, attacks, key, deathVars, rash>>
  BY DEF Disconnect
<1>3. /\ Registered' = Registered \ {id}
      /\ \A j \in Registered \ {id} : clients'[j] = clients[j] /\ clients[j] # p
                                      /\ clients[j] \in Places
  BY DisconnectForgets
<1>4. \A j \in Registered \ {id} : /\ status'[clients[j]] = status[clients[j]]
                                   /\ sid'[clients[j]] = sid[clients[j]]
                                   /\ area'[clients[j]] = area[clients[j]]
  BY <1>2, <1>3 DEF PlacesInv, TypeOK
<1>5. Inhabitants' = Inhabitants \ {id}
  BY DisconnectForgets
<1>6. /\ \A s \in Sectors : roster'[s] = roster[s] \ {id}
      /\ \A j \in Inhabitants \ {id} : view'[clients[j]] = view[clients[j]] \ {id}
      /\ \A q \in Places : view'[q] \subseteq view[q]
      /\ view'[p] = {}
  BY DisconnectForgets
<1>7. SightInv'
  <2>1. \A j \in Inhabitants \ {id} : /\ clients'[j] = clients[j]
                                      /\ area'[clients[j]] = area[clients[j]]
                                      /\ view'[clients[j]] = view[clients[j]] \ {id}
    BY <1>3, <1>4, <1>6 DEF Inhabitants
  <2>2. QED
    BY <1>2, <1>5, <1>6, <2>1, SightDeparts DEF Alive
<1>8. IdsInv'
  BY <1>2, <1>3, <1>4 DEF Alive, IdsInv
<1>9. StatusInv'
  <2>1. \A i \in Registered' : IsPlayer(i) => status'[clients'[i]] # "NONE"
    BY <1>3, <1>4 DEF Alive, StatusInv
  <2>2. \A c \in Peers : link'[c] = "playing" => link[c] = "playing"
    BY <1>2
  <2>3. \A q \in UserPlaces : status'[q] # "ACCEPTED" => view'[q] = {}
    <3>1. \A q \in Places \ {p} : status'[q] = status[q]
      BY <1>2 DEF PlacesInv, TypeOK
    <3>2. QED
      BY <1>6, <3>1, WorldTypes DEF Alive, StatusInv
  <2>4. QED
    BY <1>2, <1>3, <1>5, <2>1, <2>2, <2>3 DEF Alive, StatusInv
<1>10. AttacksInv'
  <2>1. \A attack \in attacks : id \in attack.rest => id \in stray'
    BY DEF Disconnect
  <2>2. stray \subseteq stray' /\ attacks' = attacks
    BY DEF Disconnect
  <2>3. QED
    BY <1>3, <2>1, <2>2 DEF Alive, AttacksInv
<1>11. QED
  BY <1>7, <1>8, <1>9, <1>10 DEF Alive

LEMMA AliveInit == Init => Alive
<1> USE WorldTypes
<1>1. SUFFICES ASSUME Init PROVE Alive
  OBVIOUS
<1>2. PICK npcPos \in [NpcIds -> NpcPlaces] :
        /\ pos = [p \in Places |-> IF p \in NpcIds THEN npcPos[p] ELSE StartPosition]
        /\ area = [p \in Places |-> IF p \in NpcIds THEN PickCoords(npcPos[p]) ELSE NoSector]
        /\ roster = [s \in Sectors |-> {n \in NpcIds : PickCoords(npcPos[n]) = s}]
  BY <1>1 DEF Init
<1>3. /\ Registered = NpcIds /\ \A n \in NpcIds : clients[n] = n /\ sid[n] = n
      /\ \A n \in NpcIds : status[n] = "ACCEPTED" /\ view[n] = {}
  BY <1>1 DEF Init, Registered
<1>4. Inhabitants = NpcIds
  <2>1. \A n \in NpcIds : InWorld(n)
    BY <1>3 DEF InWorld
  <2>2. QED
    BY <1>3, <2>1 DEF Inhabitants
<1>5. IdsInv
  BY <1>1, <1>3 DEF Init, IdsInv, NoId
<1>6. StatusInv
  BY <1>1, <1>3 DEF Init, StatusInv
<1>7. \A n \in NpcIds : pos[n] = npcPos[n] /\ area[n] = PickCoords(npcPos[n])
  BY <1>2
<1>8. SightInv
  <2>1. \A s \in Sectors :
          roster[s] = {n \in NpcIds : PickCoords(pos[clients[n]]) = s}
    <3>1. TAKE s \in Sectors
    <3>2. roster[s] = {n \in NpcIds : PickCoords(npcPos[n]) = s}
      BY <1>2
    <3>3. \A n \in NpcIds : pos[clients[n]] = npcPos[n]
      BY <1>3, <1>7
    <3>4. QED
      BY ONLY <3>2, <3>3
  <2>2. \A n \in NpcIds : view[clients[n]] = {} /\ area[clients[n]] = PickCoords(pos[clients[n]])
    BY <1>3, <1>7
  <2>3. QED
    BY <1>4, <2>1, <2>2 DEF SightInv, Mutual
<1>9. QED
  BY <1>1, <1>5, <1>6, <1>8 DEF Alive, AttacksInv, Init

(* The newcomer takes a place that no registered session has, and is not   *)
(* in the world before its sign in.                                        *)
LEMMA SignUpIs ==
    ASSUME PlacesInv, Alive, NEW c \in Peers, SignUp(c), NEW id, id = orderClientIDs
    PROVE  /\ id \in Nat /\ id \notin Registered /\ IsPlayer(id)
           /\ \A i \in Registered : i < id
           /\ Registered' = Registered \cup {id} /\ Inhabitants' = Inhabitants
           /\ \A j \in Registered : clients'[j] = clients[j]
           /\ \E p \in UserPlaces :
                /\ clients'[id] = p /\ status'[p] = "CONNECTED" /\ sid'[p] = id
                /\ socket' = [socket EXCEPT ![p] = c]
                /\ status[p] = "NONE"
                /\ \A q \in Places \ {p} : status'[q] = status[q] /\ sid'[q] = sid[q]
                /\ \A j \in Registered : clients[j] # p /\ clients[j] \in Places
<1> USE WorldTypes
<1>1. PICK p \in UserPlaces :
        /\ status[p] = "NONE"
        /\ status' = [status EXCEPT ![p] = "CONNECTED"]
        /\ sid' = [sid EXCEPT ![p] = id]
        /\ socket' = [socket EXCEPT ![p] = c]
        /\ clients' = [i \in Registered \cup {id} |-> IF i \in Registered THEN clients[i] ELSE p]
  BY DEF SignUp
<1>3. /\ id \in Nat /\ id \notin Registered /\ IsPlayer(id)
      /\ \A i \in Registered : i < id
  BY DEF Alive, IdsInv, PlacesInv, TypeOK, IsPlayer
<1>4. /\ Registered' = Registered \cup {id} /\ clients'[id] = p
      /\ \A j \in Registered : clients'[j] = clients[j]
  BY <1>1, <1>3 DEF Registered
<1>5. \A j \in Registered : clients[j] # p /\ clients[j] \in Places
  <2>1. SUFFICES ASSUME NEW j \in Registered PROVE clients[j] # p /\ clients[j] \in Places
    OBVIOUS
  <2>2. CASE IsPlayer(j)
    BY <1>1, <2>2 DEF Alive, StatusInv, PlacesInv, TypeOK
  <2>3. CASE ~IsPlayer(j)
    <3>1. j \in NpcIds
      BY <2>3 DEF PlacesInv, TypeOK
    <3>2. QED
      BY <3>1 DEF PlacesInv
  <2>4. QED
    BY <2>2, <2>3
<1>6. /\ \A q \in Places \ {p} : status'[q] = status[q] /\ sid'[q] = sid[q]
      /\ status'[p] = "CONNECTED" /\ sid'[p] = id
  BY <1>1 DEF PlacesInv, TypeOK
<1>7. Inhabitants' = Inhabitants
  <2>1. \A j \in Registered : InWorld(j)' <=> InWorld(j)
    BY <1>4, <1>5, <1>6 DEF InWorld
  <2>2. ~InWorld(id)'
    BY <1>4, <1>6 DEF InWorld
  <2>3. QED
    BY <1>4, <2>1, <2>2 DEF Inhabitants
<1>8. QED
  BY <1>1, <1>3, <1>4, <1>5, <1>6, <1>7

LEMMA AliveSignUp == ASSUME PlacesInv, Alive, NEW c \in Peers, SignUp(c) PROVE Alive'
<1> USE WorldTypes
<1>id. PICK id : id = orderClientIDs
  OBVIOUS
<1>1. /\ id \in Nat /\ id \notin Registered /\ IsPlayer(id)
      /\ \A i \in Registered : i < id
      /\ Registered' = Registered \cup {id} /\ Inhabitants' = Inhabitants
      /\ \A j \in Registered : clients'[j] = clients[j]
  BY <1>id, SignUpIs
<1>p. PICK p \in UserPlaces :
        /\ clients'[id] = p /\ status'[p] = "CONNECTED" /\ sid'[p] = id
        /\ \A q \in Places \ {p} : status'[q] = status[q] /\ sid'[q] = sid[q]
        /\ \A j \in Registered : clients[j] # p /\ clients[j] \in Places
  BY <1>id, SignUpIs
<1>2. /\ orderClientIDs' = id + 1
      /\ link' = [link EXCEPT ![c] = "open"] /\ key' = [key EXCEPT ![c] = id]
      /\ UNCHANGED <<sightVars, posted, attacks, stray>>
  BY <1>id DEF SignUp
<1>3. id \in Nat /\ id \notin Registered /\ IsPlayer(id) /\ \A i \in Registered : i < id
  BY <1>1
<1>4. /\ Registered' = Registered \cup {id} /\ clients'[id] = p
      /\ \A j \in Registered : clients'[j] = clients[j]
  BY <1>1, <1>p
<1>5. \A j \in Registered : clients[j] # p /\ clients[j] \in Places
  BY <1>p
<1>6. /\ \A q \in Places \ {p} : status'[q] = status[q] /\ sid'[q] = sid[q]
      /\ status'[p] = "CONNECTED" /\ sid'[p] = id
  BY <1>p
<1>7. Inhabitants' = Inhabitants
  BY <1>1
<1>8. SightInv'
  BY <1>2, <1>4, <1>7, SightSame DEF Alive, Inhabitants
<1>9. IdsInv'
  <2>1. \A i \in Registered' : i < orderClientIDs' /\ sid'[clients'[i]] = i
    <3>1. SUFFICES ASSUME NEW i \in Registered'
                   PROVE  i < orderClientIDs' /\ sid'[clients'[i]] = i
      OBVIOUS
    <3>2. CASE i = id
      BY <1>2, <1>3, <1>4, <1>6, <3>2
    <3>3. CASE i \in Registered
      <4>1. i < id /\ i \in Nat
        BY <1>3, <3>3 DEF PlacesInv, TypeOK
      <4>2. i < id + 1
        BY <1>3, <4>1
      <4>3. sid[clients[i]] = i
        BY <3>3 DEF Alive, IdsInv
      <4>4. QED
        BY <1>2, <1>4, <1>5, <1>6, <3>3, <4>2, <4>3
    <3>4. QED
      BY <1>4, <3>2, <3>3
  <2>2. \A d \in Peers : key'[d] < orderClientIDs'
    <3>1. \A d \in Peers : key[d] \in Int /\ key[d] < id
      BY <1>id DEF Alive, IdsInv, PlacesInv, TypeOK
    <3>2. \A d \in Peers : key'[d] = key[d] \/ key'[d] = id
      BY <1>2 DEF PlacesInv, TypeOK
    <3>3. QED
      BY <1>2, <1>3, <3>1, <3>2
  <2>3. \A operation \in posted' : operation.op = "MOVE" => operation.id < orderClientIDs'
    BY <1>id, <1>2, <1>3 DEF Alive, IdsInv, PlacesInv
  <2>4. QED
    BY <1>2, <2>1, <2>2, <2>3 DEF Alive, IdsInv
<1>10. StatusInv'
  <2>1. \A i \in Registered' : IsPlayer(i) => status'[clients'[i]] # "NONE"
    <3>1. \A i \in Registered : IsPlayer(i) => status[clients[i]] # "NONE"
      BY DEF Alive, StatusInv
    <3>2. \A i \in Registered : status'[clients'[i]] = status[clients[i]]
      BY <1>4, <1>5, <1>6
    <3>3. status'[clients'[id]] = "CONNECTED"
      BY <1>4, <1>6
    <3>4. QED
      BY <1>4, <3>1, <3>2, <3>3
  <2>2. ASSUME NEW d \in Peers, link'[d] = "playing", key'[d] \in Registered'
        PROVE  key'[d] \in Inhabitants'
    <3>1. d # c /\ link[d] = "playing" /\ key'[d] = key[d]
      BY <1>2, <2>2 DEF PlacesInv, TypeOK
    <3>2. key[d] # id
      BY <1>id, <1>3 DEF Alive, IdsInv, PlacesInv, TypeOK
    <3>3. QED
      BY <1>4, <1>7, <2>2, <3>1, <3>2 DEF Alive, StatusInv
  <2>3. \A operation \in posted' :
          operation.op = "MOVE" /\ operation.id \in Registered' => operation.id \in Inhabitants'
    <3>1. \A operation \in posted : operation.op = "MOVE" => operation.id # id
      BY <1>id, <1>3 DEF Alive, IdsInv, PlacesInv
    <3>2. QED
      BY <1>2, <1>4, <1>7, <3>1 DEF Alive, StatusInv
  <2>4. \A q \in UserPlaces : status'[q] # "ACCEPTED" => view'[q] = {}
    <3>1. \A q \in UserPlaces : status'[q] # "ACCEPTED" => view[q] = {}
      <4>1. view[p] = {}
        BY <1>p, <1>id, SignUpIs DEF Alive, StatusInv
      <4>2. QED
        BY <1>6, <4>1 DEF Alive, StatusInv
    <3>2. QED
      BY <1>2, <3>1 DEF sightVars
  <2>5. QED
    BY <2>1, <2>2, <2>3, <2>4 DEF StatusInv
<1>11. AttacksInv'
  BY <1>2, <1>4 DEF Alive, AttacksInv
<1>12. QED
  BY <1>8, <1>9, <1>10, <1>11 DEF Alive

LEMMA AliveSignIn == ASSUME PlacesInv, Alive, NEW c \in Peers, SignIn(c) PROVE Alive'
<1> USE WorldTypes
<1> DEFINE me == key[c]
           p == clients[me]
           here == PickCoords(StartPosition)
           lists == [roster EXCEPT ![here] = @ \cup {sid[p]}]
<1>1. me \in Registered /\ IsPlayer(me)
  BY KeysArePlayers DEF SignIn
<1>2. /\ status[p] = "CONNECTED"
      /\ UpdateSight(p, StartPosition, here, lists, {sid[p]})
      /\ status' = [status EXCEPT ![p] = "ACCEPTED"]
      /\ link' = [link EXCEPT ![c] = "playing"]
      /\ UNCHANGED <<sid, registryVars, posted, attacks, key, stray>>
  BY DEF SignIn
<1>3. p \in UserPlaces /\ p \in Places /\ me \notin Inhabitants /\ view[p] = {}
  BY <1>1, <1>2 DEF PlacesInv, Inhabitants, InWorld, Alive, StatusInv
<1>4. Registered' = Registered /\ UNCHANGED clients
  BY <1>2 DEF Registered, registryVars
<1>5. \A q \in Places : status'[q] = IF q = p THEN "ACCEPTED" ELSE status[q]
  BY <1>2 DEF PlacesInv, TypeOK
<1>6. Inhabitants' = Inhabitants \cup {me}
  <2>1. \A j \in Registered : clients[j] \in Places /\ (clients[j] = p => j = me)
    BY <1>1, PlacesAreOwn DEF Alive, PlacesInv, TypeOK
  <2>2. QED
    BY <1>1, <1>4, <1>5, <2>1 DEF Inhabitants, InWorld
<1>7. /\ SightInv'
      /\ \A q \in Places \ {clients[j] : j \in Inhabitants'} : view'[q] \subseteq view[q]
  <2>1. StartPosition \in Positions
    BY PositionsAreAnywhere
  <2>2. UpdateSight(clients[me], StartPosition, here, lists, {sid[p]})
    BY <1>2
  <2> DEFINE from == here
  <2>3. lists = [roster EXCEPT ![from] = @ \cup {sid[clients[me]]}]
    OBVIOUS
  <2> HIDE DEF me, lists
  <2>4. QED
    BY <1>1, <1>3, <1>4, <1>6, <2>1, <2>2, <2>3, UpdateKeepsSight DEF Alive
<1>8. IdsInv'
  BY <1>2, <1>4 DEF Alive, IdsInv, registryVars
<1>9. StatusInv'
  <2>1. \A i \in Registered' : IsPlayer(i) => status'[clients'[i]] # "NONE"
    BY <1>4, <1>5 DEF Alive, StatusInv, PlacesInv, TypeOK
  <2>2. \A d \in Peers : link'[d] = "playing" => d = c \/ link[d] = "playing"
    BY <1>2 DEF PlacesInv, TypeOK
  <2>3. ASSUME NEW q \in UserPlaces, status'[q] # "ACCEPTED" PROVE view'[q] = {}
    <3>1. q \in Places /\ q # p /\ status[q] # "ACCEPTED"
      BY <1>5, <2>3
    <3>2. \A j \in Inhabitants' : q # clients[j]
      BY <1>4, <2>3 DEF Inhabitants, InWorld
    <3>3. view'[q] \subseteq view[q] /\ view[q] = {}
      BY <1>7, <2>3, <3>1, <3>2 DEF Alive, StatusInv
    <3>4. QED
      BY <3>3
  <2>4. QED
    BY <1>2, <1>4, <1>6, <2>1, <2>2, <2>3 DEF Alive, StatusInv
<1>10. AttacksInv'
  BY <1>2, <1>4 DEF Alive, AttacksInv
<1>11. QED
  BY <1>7, <1>8, <1>9, <1>10 DEF Alive

(* Steps that leave sessions and lists alone and post nothing but deaths.  *)
LEMMA AliveSame ==
    ASSUME PlacesInv, Alive, UNCHANGED <<status, sid, sightVars, registryVars, key, stray>>,
           \A c \in Peers : link'[c] = "playing" => link[c] = "playing",
           \A operation \in posted' : operation \in posted \/ operation.op = "DEAD",
           \A attack \in attacks' : attack \in attacks
                                      \/ attack.rest \subseteq Registered \cup stray
    PROVE  Alive'
<1>1. Registered' = Registered /\ UNCHANGED <<clients, orderClientIDs, view>>
  BY DEF Registered, registryVars, sightVars
<1>2. Inhabitants' = Inhabitants
  BY <1>1 DEF Inhabitants, InWorld
<1>3. SightInv'
  BY <1>1, <1>2, SightSame DEF Alive
<1>4. IdsInv'
  BY <1>1 DEF Alive, IdsInv
<1>5. StatusInv'
  BY <1>1, <1>2 DEF Alive, StatusInv
<1>6. AttacksInv'
  BY <1>1 DEF Alive, AttacksInv
<1>7. QED
  BY <1>3, <1>4, <1>5, <1>6 DEF Alive

LEMMA AlivePost ==
    ASSUME PlacesInv, Alive, NEW c \in Peers, Post(c), Undisturbed' PROVE Alive'
<1> DEFINE id == key[c]
<1>1. id \in Registered /\ IsPlayer(id)
  BY KeysArePlayers DEF Post
<1>2. sid[clients[id]] = id
  BY <1>1 DEF Alive, IdsInv
<1>3. /\ \/ posted' = posted \cup {Operation("MOVE", id)} /\ status[clients[id]] = "ACCEPTED"
         \/ posted' = posted \cup {Operation("ATTACK", id)}
      /\ UNCHANGED <<poolVars, sightVars, registryVars, attacks, linkVars, stray>>
  BY <1>2 DEF Post, Undisturbed
<1> USE DEF poolVars, registryVars, linkVars, sightVars
<1>4. Registered' = Registered /\ Inhabitants' = Inhabitants
  BY <1>3 DEF Registered, Inhabitants, InWorld
<1>5. \A operation \in posted' : \/ operation \in posted
                                 \/ operation.op = "ATTACK" /\ operation.id = id
                                 \/ /\ operation.op = "MOVE" /\ operation.id = id
                                    /\ id \in Inhabitants
  BY <1>1, <1>3 DEF Operation, Inhabitants, InWorld
<1>6. SightInv'
  BY <1>3, <1>4, SightSame DEF Alive
<1>7. IdsInv'
  <2>1. FirstId <= id /\ id < orderClientIDs
    BY <1>1 DEF Alive, IdsInv, IsPlayer
  <2>2. \A operation \in posted' : operation.op = "MOVE" => operation.id < orderClientIDs
    BY <1>5, <2>1 DEF Alive, IdsInv
  <2>3. \A operation \in posted' : operation.op = "ATTACK" => FirstId <= operation.id
    BY <1>5, <2>1 DEF Alive, IdsInv
  <2>4. QED
    BY <1>3, <1>4, <2>2, <2>3 DEF Alive, IdsInv
<1>8. StatusInv'
  <2>1. \A operation \in posted' :
          operation.op = "MOVE" /\ operation.id \in Registered => operation.id \in Inhabitants
    BY <1>1, <1>5 DEF Alive, StatusInv
  <2>2. QED
    BY <1>3, <1>4, <2>1 DEF Alive, StatusInv
<1>9. AttacksInv'
  BY <1>3, <1>4 DEF Alive, AttacksInv
<1>10. QED
  BY <1>6, <1>7, <1>8, <1>9 DEF Alive

LEMMA AliveEntityMove == ASSUME PlacesInv, Alive, NEW id, EntityMove(id) PROVE Alive'
<1> USE WorldTypes DEF poolVars, registryVars, linkVars
<1>1. /\ posted' \subseteq posted /\ Operation("MOVE", id) \in posted
      /\ UNCHANGED <<poolVars, registryVars, attacks, linkVars, stray>>
  BY DEF EntityMove, Take
<1>2. CASE UNCHANGED sightVars
  BY <1>1, <1>2, AliveSame
<1>3. CASE ~UNCHANGED sightVars
  <2>1. PICK dir \in Ways :
          LET p == clients[id] IN
          id \in Registered /\ UpdateSight(p, TryMove(pos[p], dir), area[p], roster, {})
    BY <1>3 DEF EntityMove, sightVars, clientVars
  <2> DEFINE p == clients[id]
             at == TryMove(pos[p], dir)
  <2>2. FirstId <= id /\ id \in Inhabitants
    BY <1>1, <2>1 DEF Operation, PlacesInv, Alive, StatusInv
  <2>3. p \in UserPlaces /\ p \in Places /\ pos[p] \in Positions
    BY <2>1, <2>2 DEF PlacesInv, TypeOK, IsPlayer
  <2>4. at \in Positions
    BY <2>3, StepsStay
  <2>5. Registered' = Registered /\ Inhabitants' = Inhabitants /\ UNCHANGED clients
    BY <1>1 DEF Registered, Inhabitants, InWorld
  <2>6. /\ SightInv'
        /\ \A q \in Places \ {clients[j] : j \in Inhabitants'} : view'[q] \subseteq view[q]
    <3>1. UpdateSight(p, at, area[p], roster, {}) /\ id \in Registered
      BY <2>1
    <3>2. Inhabitants' = Inhabitants \cup {id}
      BY <2>2, <2>5
    <3> HIDE DEF at
    <3>3. QED
      BY <2>2, <2>3, <2>4, <2>5, <3>1, <3>2, UpdateKeepsSight DEF Alive
  <2>7. IdsInv'
    BY <1>1, <2>5 DEF Alive, IdsInv
  <2>8. StatusInv'
    <3>1. ASSUME NEW q \in UserPlaces, status'[q] # "ACCEPTED" PROVE view'[q] = {}
      <4>1. \A j \in Inhabitants' : q # clients[j]
        BY <2>5, <3>1 DEF Inhabitants, InWorld
      <4>2. view'[q] \subseteq view[q] /\ view[q] = {}
        BY <1>1, <2>6, <3>1, <4>1 DEF Alive, StatusInv
      <4>3. QED
        BY <4>2
    <3>2. QED
      BY <1>1, <2>5, <3>1 DEF Alive, StatusInv
  <2>9. AttacksInv'
    BY <1>1, <2>5 DEF Alive, AttacksInv
  <2>10. QED
    BY <2>6, <2>7, <2>8, <2>9 DEF Alive
<1>4. QED
  BY <1>2, <1>3

(* Nobody who left is in a list that is copied. *)
LEMMA AliveAttackCopy == ASSUME PlacesInv, Alive, NEW id, AttackCopy(id) PROVE Alive'
<1> DEFINE p == clients[id]
<1>1. /\ Operation("ATTACK", id) \in posted /\ posted' \subseteq posted
      /\ \A attack \in attacks' :
           \/ attack \in attacks
           \/ (id \in Registered /\ attack = Attack(p, view[p] \ {id}))
      /\ UNCHANGED <<poolVars, sightVars, registryVars, linkVars, stray>>
  BY DEF AttackCopy, Take
<1>2. IsPlayer(id)
  BY <1>1 DEF Operation, Alive, IdsInv, IsPlayer
<1>3. id \in Registered => view[p] \subseteq Registered
  <2>1. CASE id \in Inhabitants
    BY <2>1 DEF Alive, SightInv, Inhabitants
  <2>2. CASE id \in Registered \ Inhabitants
    <3>1. p \in UserPlaces /\ status[p] # "ACCEPTED"
      BY <1>2, <2>2 DEF PlacesInv, Inhabitants, InWorld
    <3>2. QED
      BY <3>1 DEF Alive, StatusInv
  <2>3. QED
    BY <2>1, <2>2
<1>4. \A attack \in attacks' : attack \in attacks
                                \/ attack.rest \subseteq Registered \cup stray
  BY <1>1, <1>3 DEF Attack
<1>5. QED
  BY <1>1, <1>4, AliveSame DEF poolVars, linkVars

LEMMA AliveAttackNext ==
    ASSUME PlacesInv, Alive, NEW attack \in attacks, AttackNext(attack) PROVE Alive'
<1>1. PICK i \in attack.rest :
        /\ attacks' \subseteq (attacks \ {attack})
                              \cup {Attack(attack.place, attack.rest \ {i})}
        /\ \A operation \in posted' :
             operation \in posted \/ operation = Operation("DEAD", sid[clients[i]])
  BY DEF AttackNext
<1>2. UNCHANGED <<poolVars, sightVars, registryVars, linkVars, stray>>
  BY DEF AttackNext
<1>3. \A a \in attacks' : a \in attacks \/ a.rest \subseteq Registered \cup stray
  BY <1>1 DEF Attack, Alive, AttacksInv
<1>4. \A operation \in posted' : operation \in posted \/ operation.op = "DEAD"
  BY <1>1 DEF Operation
<1>5. QED
  BY <1>2, <1>3, <1>4, AliveSame DEF poolVars, linkVars

(* ENTITY_DEAD takes the character off its roster and out of every list;   *)
(* one without a sector is on no roster and in no list.                    *)
LEMMA DeathForgets ==
    ASSUME PlacesInv, Alive, NEW id \in Registered, EntityDead(id)
    PROVE  /\ Registered' = Registered /\ Inhabitants' = Inhabitants \ {id}
           /\ UNCHANGED <<sid, socket, pos, area, registryVars, attacks, linkVars, historyVars>>
           /\ id \in dead' /\ dead' \subseteq dead \cup {id}
           /\ clients[id] \in Places
           /\ \A q \in Places : status'[q] = IF q = clients[id] THEN "NONE" ELSE status[q]
           /\ \A j \in Registered : clients[j] \in Places /\ (clients[j] = clients[id] => j = id)
           /\ \A s \in Sectors : roster'[s] = roster[s] \ {id}
           /\ \A j \in Inhabitants \ {id} : view'[clients[j]] = view[clients[j]] \ {id}
           /\ \A q \in Places : view'[q] \subseteq view[q]
<1> DEFINE p == clients[id]
           accepted == Accepted \ {p}
<1>1. /\ UNCHANGED <<sid, socket, pos, area, registryVars, attacks, linkVars, historyVars>>
      /\ id \in dead' /\ dead' \subseteq dead \cup {id}
      /\ status' = [status EXCEPT ![p] = "NONE"]
  BY DEF EntityDead
<1>2. Registered' = Registered /\ UNCHANGED clients
  BY <1>1 DEF Registered, registryVars
<1>3. p \in Places /\ \A q \in Places : status'[q] = IF q = p THEN "NONE" ELSE status[q]
  BY <1>1 DEF PlacesInv, TypeOK
<1>4. \A j \in Registered : clients[j] \in Places /\ (clients[j] = p => j = id)
  BY PlacesAreOwn DEF Alive, PlacesInv, TypeOK
<1>5. Inhabitants' = Inhabitants \ {id}
  BY <1>2, <1>3, <1>4 DEF Inhabitants, InWorld
<1>6. /\ \A s \in Sectors : roster'[s] = roster[s] \ {id}
      /\ \A j \in Inhabitants \ {id} : view'[clients[j]] = view[clients[j]] \ {id}
      /\ \A q \in Places : view'[q] \subseteq view[q]
  <2>1. CASE area[p] # NoSector
    <3>1. CleanupSight(p, accepted) /\ view' = ViewsWithout(p, accepted)
      BY <2>1 DEF EntityDead
    <3>2. \A q \in Places : view'[q] \subseteq view[q]
      BY <3>1 DEF ViewsWithout
    <3>3. CleanupSight(clients[id], accepted) /\ accepted = Accepted \ {clients[id]}
      BY <3>1
    <3> HIDE DEF accepted
    <3>4. /\ \A s \in Sectors : roster'[s] = roster[s] \ {id}
          /\ \A j \in Inhabitants \ {id} :
               ViewsWithout(clients[id], accepted)[clients[j]] = view[clients[j]] \ {id}
      BY <3>3, CleanupForgets DEF Alive
    <3>5. QED
      BY <3>1, <3>2, <3>4
  <2>2. CASE area[p] = NoSector
    <3>1. UNCHANGED <<view, roster>>
      BY <2>2 DEF EntityDead
    <3>2. id \notin Inhabitants
      <4>1. SUFFICES ASSUME id \in Inhabitants PROVE area[p] # NoSector
        BY <2>2
      <4>2. area[p] \in Sectors
        BY <1>3, <4>1, AnywhereHasSector DEF Alive, SightInv, PlacesInv, TypeOK
      <4>3. \A s \in Sectors : s # NoSector
        BY DEF Sectors, NoSector
      <4>4. QED
        BY <4>2, <4>3
    <3>3. /\ \A s \in Sectors : id \notin roster[s]
          /\ \A j \in Inhabitants : id \notin view[clients[j]]
      BY <3>2 DEF Alive, SightInv
    <3>4. QED
      BY <3>1, <3>3
  <2>3. QED
    BY <2>1, <2>2
<1>7. QED
  BY <1>1, <1>2, <1>3, <1>4, <1>5, <1>6

LEMMA AliveEntityDead ==
    ASSUME PlacesInv, Alive, NEW id, EntityDead(id), Undisturbed'
    PROVE  Alive'
<1> USE WorldTypes DEF registryVars, linkVars
<1> DEFINE p == clients[id]
<1>1. /\ posted' \subseteq posted
      /\ UNCHANGED <<sid, socket, pos, area, registryVars, attacks, linkVars, historyVars>>
  BY DEF EntityDead
<1>2. CASE id \notin Registered
  BY <1>1, <1>2, AliveSame DEF EntityDead, sightVars
<1>3. CASE id \in Registered
  <2>1. id \in dead' /\ status' = [status EXCEPT ![p] = "NONE"]
    BY <1>3 DEF EntityDead
  <2>2. id \in NpcIds /\ p = id /\ p \in Places /\ area[p] \in Sectors
    <3>1. ~IsPlayer(id) /\ id \in Nat
      BY <1>3, <2>1 DEF Undisturbed, PlacesInv, TypeOK
    <3>2. id \in NpcIds /\ id \in Places
      BY ONLY <3>1, WorldTypes
    <3>3. clients[id] = id /\ area[id] \in Sectors
      BY <3>2 DEF PlacesInv
    <3>4. QED
      BY <3>2, <3>3
  <2>5. /\ \A s \in Sectors : roster'[s] = roster[s] \ {id}
        /\ \A j \in Inhabitants \ {id} : view'[clients[j]] = view[clients[j]] \ {id}
        /\ \A q \in Places : view'[q] \subseteq view[q]
    BY <1>3, DeathForgets
  <2>6. Registered' = Registered /\ UNCHANGED <<clients, orderClientIDs>>
    BY <1>1 DEF Registered
  <2>7. \A q \in Places : status'[q] = IF q = p THEN "NONE" ELSE status[q]
    BY <1>3, DeathForgets
  <2>8. \A j \in Registered : clients[j] \in Places /\ (clients[j] = p => j = id)
    BY <1>3, DeathForgets
  <2>9. Inhabitants' = Inhabitants \ {id}
    BY <1>3, DeathForgets
  <2>10. SightInv'
    BY <1>1, <2>5, <2>6, <2>9, SightDeparts DEF Alive
  <2>11. IdsInv'
    BY <1>1, <2>6 DEF Alive, IdsInv
  <2>12. StatusInv'
    <3>1. \A i \in Registered' : IsPlayer(i) => i # id
      BY <2>2 DEF IsPlayer
    <3>2. \A i \in Registered' : IsPlayer(i) => status'[clients'[i]] # "NONE"
      BY <2>6, <2>7, <2>8, <3>1 DEF Alive, StatusInv
    <3>3. \A q \in UserPlaces : status'[q] # "ACCEPTED" => view'[q] = {}
      BY <2>2, <2>5, <2>7 DEF Alive, StatusInv
    <3>4. \A c \in Peers : key[c] \in Registered => key[c] # id
      BY <2>2, KeysArePlayers DEF IsPlayer
    <3>5. \A c \in Peers :
             link'[c] = "playing" /\ key'[c] \in Registered' => key'[c] \in Inhabitants'
      BY <1>1, <2>6, <2>9, <3>4 DEF Alive, StatusInv
    <3>6. \A operation \in posted' : operation.op = "MOVE" => operation.id # id
      BY <1>1, <2>2 DEF PlacesInv
    <3>7. \A operation \in posted' :
             operation.op = "MOVE" /\ operation.id \in Registered' => operation.id \in Inhabitants'
      BY <1>1, <2>6, <2>9, <3>6 DEF Alive, StatusInv
    <3>8. QED
      BY <3>2, <3>3, <3>5, <3>7 DEF StatusInv
  <2>13. AttacksInv'
    BY <1>1, <2>6 DEF Alive, AttacksInv
  <2>14. QED
    BY <2>10, <2>11, <2>12, <2>13 DEF Alive
<1>4. QED
  BY <1>2, <1>3

(* Nobody comes back to life. *)
LEMMA DisturbedForGood == [Next]_vars /\ Undisturbed' => Undisturbed
<1>1. SUFFICES ASSUME [Next]_vars PROVE dead \subseteq dead' /\ (rash => rash')
  BY DEF Undisturbed
<1>2. CASE UNCHANGED vars
  BY <1>2 DEF vars
<1>3. ASSUME NEW c \in Peers,
             SignUp(c) \/ SignIn(c) \/ Post(c) \/ SignOut(c) \/ Expel(c)
                       \/ Leave(c) \/ Reset(c) \/ Fail(c)
      PROVE  dead \subseteq dead' /\ (rash => rash')
  <2>1. CASE SignUp(c) \/ Leave(c) \/ Reset(c)
    BY <2>1 DEF SignUp, Leave, Reset, deathVars, historyVars
  <2>2. CASE SignIn(c)
    BY <2>2 DEF SignIn, deathVars, historyVars
  <2>3. CASE Post(c)
    <3>1. rash' = rash \/ \E p : rash' = (rash \/ status[p] # "ACCEPTED")
      BY <2>3 DEF Post
    <3>2. rash => rash'
      BY <3>1, Zenon
    <3>3. dead \subseteq dead'
      BY <2>3 DEF Post, deathVars
    <3>4. QED
      BY <3>2, <3>3
  <2>4. ASSUME NEW id, Disconnect(id, c) PROVE dead \subseteq dead' /\ (rash => rash')
    BY <2>4 DEF Disconnect, deathVars
  <2>5. CASE SignOut(c) \/ Expel(c) \/ Fail(c)
    BY <2>4, <2>5 DEF SignOut, Expel, Fail, deathVars, historyVars
  <2>6. QED
    BY <1>3, <2>1, <2>2, <2>3, <2>5
<1>4. ASSUME NEW id, EntityMove(id) \/ AttackCopy(id) \/ EntityDead(id)
      PROVE  dead \subseteq dead' /\ (rash => rash')
  BY <1>4 DEF EntityMove, AttackCopy, EntityDead, deathVars, historyVars
<1>5. ASSUME NEW attack, AttackNext(attack) PROVE dead \subseteq dead' /\ (rash => rash')
  BY <1>5 DEF AttackNext
<1>6. QED
  BY <1>1, <1>2, <1>3, <1>4, <1>5 DEF Next

LEMMA AliveStep ==
    ASSUME PlacesInv, Alive, [Next]_vars, Undisturbed'
    PROVE  Alive'
<1> USE DEF poolVars, sightVars, registryVars, linkVars
<1>1. CASE UNCHANGED vars
  BY <1>1, AliveSame DEF vars
<1>2. ASSUME NEW c \in Peers, SignOut(c) \/ Expel(c) \/ Fail(c) PROVE Alive'
  <2>1. CASE \E id : IsPlayer(id) /\ Disconnect(id, c)
    BY <2>1, AliveDisconnect
  <2>2. CASE /\ link[c] = "broken" /\ link' = [link EXCEPT ![c] = "gone"]
             /\ UNCHANGED <<poolVars, sightVars, registryVars, posted, attacks, key,
                            clientVars, deathVars, historyVars>>
    BY <2>2, AliveSame DEF PlacesInv, TypeOK
  <2>3. QED
    BY <1>2, <2>1, <2>2, DisconnectsPlayers
<1>3. ASSUME NEW c \in Peers, Leave(c) \/ Reset(c) PROVE Alive'
  BY <1>3, AliveSame DEF Leave, Reset, PlacesInv, TypeOK
<1>4. QED
  BY <1>1, <1>2, <1>3, AliveSignUp, AliveSignIn, AlivePost, AliveEntityMove,
     AliveAttackCopy, AliveAttackNext, AliveEntityDead DEF Next

(* Who is served, and the place of the session that serves it. *)
Served == {c \in Peers : link[c] \in {"open", "playing"}}
PlaceOf(c) == clients[key[c]]

(* What Tell does to the screens: a client is told what is sent to the one *)
(* place that has its socket.                                              *)
LEMMA TellShows ==
    ASSUME PlacesInv, ScreensInv, NEW appears, NEW fades, NEW moves, NEW id,
           Tell(appears, fades, moves, id)
    PROVE  /\ \A c \in Served : shown'[c] = (shown[c] \cup appears[PlaceOf(c)])
                                               \ fades[PlaceOf(c)]
           /\ \A c \in Peers \ Served : shown'[c] = shown[c]
           /\ astray' <=> \E c \in Served : PlaceOf(c) \in moves /\ id \notin shown'[c]
<1> DEFINE Told(c) == {p \in Places : socket[p] = c /\ link[c] \in {"open", "playing"}}
           Shown(c) == (shown[c] \cup UNION {appears[p] : p \in Told(c)})
                          \ UNION {fades[p] : p \in Told(c)}
<1>1. \A c \in Served : Told(c) = {PlaceOf(c)}
  BY DEF Served, PlaceOf, ScreensInv, PlacesInv, TypeOK
<1>2. \A c \in Peers \ Served : Told(c) = {}
  BY DEF Served
<1>3. /\ shown' = [c \in Peers |-> Shown(c)]
      /\ astray' = (astray \/ \E c \in Peers : Told(c) \cap moves # {} /\ id \notin Shown(c))
  BY DEF Tell
<1>4. \A c \in Served : c \in Peers
  BY DEF Served
<1> HIDE DEF Told
<1>5. \A c \in Served : shown'[c] = (shown[c] \cup appears[PlaceOf(c)]) \ fades[PlaceOf(c)]
  BY <1>1, <1>3, <1>4
<1>6. \A c \in Peers \ Served : shown'[c] = shown[c]
  BY <1>2, <1>3
<1>7. astray' <=> \E c \in Served : PlaceOf(c) \in moves /\ id \notin shown'[c]
  <2>1. \A c \in Peers : shown'[c] = Shown(c)
    BY <1>3
  <2> HIDE DEF Shown
  <2>2. astray' <=> \E c \in Peers : Told(c) \cap moves # {} /\ id \notin shown'[c]
    BY <1>3, <2>1 DEF ScreensInv
  <2>3. \A c \in Peers : Told(c) \cap moves # {} <=> c \in Served /\ PlaceOf(c) \in moves
    BY <1>1, <1>2
  <2>4. QED
    BY <1>4, <2>2, <2>3
<1>8. QED
  BY <1>5, <1>6, <1>7

(* UpdateSight tells every client of the world what becomes of its list.   *)
LEMMA ScreensUpdate ==
    ASSUME PlacesInv, Alive, ScreensInv, NEW me \in Registered, IsPlayer(me),
           clients[me] \in UserPlaces,
           NEW at \in Positions, NEW from, NEW lists, NEW greeting,
           \/ /\ me \in Inhabitants /\ from = area[clients[me]] /\ lists = roster
              /\ greeting = {}
           \/ /\ me \notin Inhabitants /\ view[clients[me]] = {} /\ from = PickCoords(at)
              /\ lists = [roster EXCEPT ![from] = @ \cup {sid[clients[me]]}]
              /\ greeting = {me},
           UpdateSight(clients[me], at, from, lists, greeting)
    PROVE  /\ \A c \in Served : shown'[c] = IF key[c] \in Inhabitants \cup {me}
                                             THEN view'[PlaceOf(c)] ELSE shown[c]
           /\ \A c \in Peers \ Served : shown'[c] = shown[c]
           /\ \A j \in Inhabitants \cup {me} : IsPlayer(j) => j \in view'[clients[j]]
           /\ ~astray'
<1> DEFINE p == clients[me]
           I == Inhabitants \cup {me}
           found == Found(p, at, from, lists)
           before == view[p]
           near == NearOf(me, at, found)
           d == Difference(p, before, found, at)
           missing == found \ Registered
           PlacesOf(ids) == {clients[i] : i \in ids \cap Registered}
           PlayersOf(ids) == PlacesOf({i \in ids : IsPlayer(i)})
           Mine(q, ids) == IF q = p THEN ids ELSE {}
           Theirs(q, places) == IF q \in places THEN {me} ELSE {}
           appears == [q \in Places |->
                         Mine(q, greeting \cup {sid[clients[i]] : i \in d.new})
                            \cup Theirs(q, PlayersOf(d.new))]
           fades == [q \in Places |->
                       Mine(q, missing \cup d.left \cup d.lost)
                          \cup Theirs(q, PlayersOf(Parting(d)))]
<1>1. IdsInv /\ SightInv /\ sid[p] = me /\ p \in Places
  BY DEF Alive, IdsInv, PlacesInv, TypeOK
<1>2. I \in SUBSET Registered /\ me \in I
  BY DEF Inhabitants
<1>3. /\ found \subseteq I /\ me \in found /\ before \subseteq I
      /\ \A j \in I \ {me} : me \in view[clients[j]] <=> j \in before
  BY <1>1, UpdateRosters
<1>4. near \subseteq found /\ me \in near /\ missing = {}
  BY <1>2, <1>3 DEF NearOf
<1>5. d = [new  |-> near \ (before \cup {me}),
           stay |-> near \cap before,
           left |-> (found \cap before) \ near,
           far  |-> found \ (near \cup before),
           lost |-> before \ (found \cup {me})]
  <2>1. found \subseteq Registered
    BY <1>2, <1>3
  <2> HIDE DEF found, before
  <2>2. QED
    BY <1>1, <1>3, <2>1, DifferenceIs
<1>6. Tell(appears, fades, PlayersOf(d.stay), me)
  BY <1>1 DEF UpdateSight, Found
<1>7. /\ view'[p] = near
      /\ \A j \in I \ {me} :
           view'[clients[j]] = IF j \in near THEN view[clients[j]] \cup {me}
                                             ELSE view[clients[j]] \ {me}
  <2> HIDE DEF I
  <2>1. UpdateSight(clients[me], at, from, lists, greeting) /\ IdsInv
    BY <1>1
  <2>2. /\ Found(clients[me], at, from, lists) \subseteq I
        /\ me \in Found(clients[me], at, from, lists)
        /\ view[clients[me]] \subseteq I
        /\ \A j \in I \ {me} : me \in view[clients[j]] <=> j \in view[clients[me]]
    BY <1>3
  <2>3. /\ view'[clients[me]] = NearOf(me, at, Found(clients[me], at, from, lists))
        /\ \A j \in I \ {me} :
             view'[clients[j]] = IF j \in NearOf(me, at, Found(clients[me], at, from, lists))
                                 THEN view[clients[j]] \cup {me} ELSE view[clients[j]] \ {me}
        /\ \A q \in Places \ {clients[j] : j \in I} : view'[q] \subseteq view[q]
    BY <1>2, <2>1, <2>2, UpdateViews
  <2>4. QED
    BY <2>3
<1>8. /\ \A c \in Served : shown'[c] = (shown[c] \cup appears[PlaceOf(c)]) \ fades[PlaceOf(c)]
      /\ \A c \in Peers \ Served : shown'[c] = shown[c]
      /\ astray' <=> \E c \in Served : PlaceOf(c) \in PlayersOf(d.stay) /\ me \notin shown'[c]
  <2> HIDE DEF appears, fades, PlayersOf, d
  <2>1. QED
    BY <1>6, TellShows
<1>9. \A c \in Served : /\ key[c] \in Registered /\ IsPlayer(key[c]) /\ PlaceOf(c) \in Places
                        /\ PlaceOf(c) = clients[key[c]]
  BY KeysArePlayers DEF Served, PlaceOf, ScreensInv, PlacesInv, TypeOK
<1> HIDE DEF found, before, near
<1>10. ASSUME NEW c \in Served, NEW ids
       PROVE  PlaceOf(c) \in PlayersOf(ids) <=> key[c] \in ids
  BY <1>1, <1>9, PlacesAreOwn
<1>11. /\ d.new = near \ (before \cup {me}) /\ d.stay = near \cap before
       /\ d.left = (found \cap before) \ near /\ d.lost = before \ (found \cup {me})
       /\ Parting(d) = before \ (near \cup {me})
  BY <1>4, <1>5 DEF Parting
<1> HIDE DEF d
<1>12. {sid[clients[i]] : i \in d.new} = d.new
  BY <1>1, <1>2, <1>3, <1>4, <1>11 DEF IdsInv
<1> HIDE DEF PlayersOf
<1>13. ASSUME NEW c \in Served, key[c] = me PROVE shown'[c] = view'[PlaceOf(c)]
  <2>1. PlaceOf(c) = p /\ shown[c] \cup greeting = before \cup {me}
    <3>1. CASE me \in Inhabitants
      <4>1. link[c] = "playing"
        BY <1>13, <3>1 DEF Served, ScreensInv
      <4>2. shown[c] = before /\ me \in before /\ greeting = {}
        BY <1>13, <3>1, <4>1 DEF Served, ScreensInv, before
      <4>3. QED
        BY <1>9, <1>13, <4>2
    <3>2. CASE me \notin Inhabitants
      <4>1. link[c] = "open"
        BY <1>13, <3>2 DEF Served, Alive, StatusInv
      <4>2. shown[c] = {} /\ before = {} /\ greeting = {me}
        BY <3>2, <4>1 DEF Served, ScreensInv, before
      <4>3. QED
        BY <1>9, <1>13, <4>2
    <3>3. QED
      BY <3>1, <3>2
  <2>2. appears[p] = greeting \cup d.new \cup Theirs(p, PlayersOf(d.new))
    BY <1>1, <1>12
  <2>3. fades[p] = d.left \cup d.lost \cup Theirs(p, PlayersOf(Parting(d)))
    BY <1>1, <1>4
  <2>4. Theirs(p, PlayersOf(d.new)) = {} /\ Theirs(p, PlayersOf(Parting(d))) = {}
    <3>1. me \notin d.new /\ me \notin Parting(d)
      BY <1>11
    <3>2. QED
      BY <1>10, <1>13, <2>1, <3>1
  <2>5. shown'[c] = (shown[c] \cup greeting \cup d.new) \ (d.left \cup d.lost)
    BY <1>8, <2>1, <2>2, <2>3, <2>4
  <2>6. shown'[c] = (before \cup {me} \cup d.new) \ (d.left \cup d.lost)
    BY <2>1, <2>5
  <2>7. shown'[c] = near
    BY <1>4, <1>11, <2>6
  <2>8. QED
    BY <1>7, <2>1, <2>7
<1>14. ASSUME NEW c \in Served, key[c] # me
       PROVE  shown'[c] = (shown[c] \cup (IF key[c] \in d.new THEN {me} ELSE {}))
                             \ (IF key[c] \in Parting(d) THEN {me} ELSE {})
  <2>1. PlaceOf(c) # p
    BY <1>1, <1>9, <1>14, PlacesAreOwn
  <2>2. /\ appears[PlaceOf(c)] = Theirs(PlaceOf(c), PlayersOf(d.new))
        /\ fades[PlaceOf(c)] = Theirs(PlaceOf(c), PlayersOf(Parting(d)))
    BY <1>9, <2>1
  <2>3. QED
    BY <1>8, <1>10, <2>2
<1>15. ASSUME NEW c \in Served, key[c] \in Inhabitants, key[c] # me
       PROVE  shown'[c] = view'[PlaceOf(c)]
  <2> DEFINE j == key[c]
  <2>1. shown[c] = view[clients[j]] /\ PlaceOf(c) = clients[j]
    BY <1>9, <1>15 DEF Served, ScreensInv
  <2>2. me \in view[clients[j]] <=> j \in before
    BY <1>3, <1>15 DEF before
  <2>3. CASE j \in near
    <3>1. view'[clients[j]] = view[clients[j]] \cup {me}
      BY <1>7, <1>15, <2>3
    <3>2. j \notin Parting(d) /\ (j \in d.new \/ me \in view[clients[j]])
      BY <1>11, <1>15, <2>2, <2>3
    <3>3. QED
      BY <1>14, <1>15, <2>1, <3>1, <3>2
  <2>4. CASE j \notin near
    <3>1. view'[clients[j]] = view[clients[j]] \ {me}
      BY <1>7, <1>15, <2>4
    <3>2. j \notin d.new /\ (me \in view[clients[j]] => j \in Parting(d))
      BY <1>11, <1>15, <2>2, <2>4
    <3>3. QED
      BY <1>14, <1>15, <2>1, <3>1, <3>2
  <2>5. QED
    BY <2>3, <2>4
<1>16. ASSUME NEW c \in Served, key[c] \notin I PROVE shown'[c] = shown[c]
  <2>1. key[c] \notin d.new /\ key[c] \notin Parting(d) /\ key[c] # me
    BY <1>2, <1>3, <1>4, <1>11, <1>16
  <2>2. QED
    BY <1>14, <2>1
<1>17. \A c \in Served : shown'[c] = IF key[c] \in I THEN view'[PlaceOf(c)] ELSE shown[c]
  BY <1>13, <1>15, <1>16
<1>18. \A j \in I : IsPlayer(j) => j \in view'[clients[j]]
  <2>1. \A j \in Inhabitants \ {me} : IsPlayer(j) => j \in view[clients[j]]
    BY DEF ScreensInv
  <2>2. \A j \in Inhabitants \ {me} :
          j \in view'[clients[j]] <=> j \in view[clients[j]]
    BY <1>7
  <2>3. QED
    BY <1>4, <1>7, <2>1, <2>2
<1>19. ~astray'
  <2>1. SUFFICES ASSUME NEW c \in Served, PlaceOf(c) \in PlayersOf(d.stay) PROVE me \in shown'[c]
    BY <1>8
  <2>2. key[c] \in near
    BY <1>10, <1>11, <2>1
  <2>3. shown'[c] = view'[clients[key[c]]]
    BY <1>3, <1>4, <1>9, <1>17, <2>2
  <2>4. QED
    BY <1>3, <1>4, <1>7, <2>2, <2>3
<1>20. QED
  BY <1>8, <1>17, <1>18, <1>19

(* CleanupSight tells the client of everybody who sees the character, but  *)
(* for its own, to hide it.                                                *)
LEMMA ScreensCleanup ==
    ASSUME PlacesInv, Alive, ScreensInv, NEW id \in Registered, NEW accepted,
           accepted = Accepted \/ accepted = Accepted \ {clients[id]},
           CleanupSight(clients[id], accepted)
    PROVE  /\ \A c \in Served : key[c] # id => shown'[c] = shown[c] \ {id}
           /\ \A c \in Peers \ Served : shown'[c] = shown[c]
           /\ ~astray'
<1> DEFINE p == clients[id]
           watchers == Watchers(p, {i \in view[p] : IsPlayer(i)})
           appears == [q \in Places |-> {}]
           fades == [q \in Places |-> IF q \in accepted \cap watchers THEN {id} ELSE {}]
<1>1. sid[p] = id
  BY DEF Alive, IdsInv
<1>2. Tell(appears, fades, {}, NoId)
  BY <1>1 DEF CleanupSight
<1>3. /\ \A c \in Served : shown'[c] = (shown[c] \cup appears[PlaceOf(c)]) \ fades[PlaceOf(c)]
      /\ \A c \in Peers \ Served : shown'[c] = shown[c]
      /\ ~astray'
  <2> HIDE DEF appears, fades
  <2>1. QED
    BY <1>2, TellShows
<1>4. ASSUME NEW c \in Served, key[c] # id PROVE shown'[c] = shown[c] \ {id}
  <2> DEFINE j == key[c]
             q == clients[j]
  <2>1. j \in Registered /\ IsPlayer(j) /\ PlaceOf(c) = q /\ q \in Places
    BY KeysArePlayers DEF Served, PlaceOf, ScreensInv, PlacesInv, TypeOK
  <2>2. shown'[c] = shown[c] \ (IF q \in accepted \cap watchers THEN {id} ELSE {})
    BY <1>3, <2>1
  <2>3. id \in shown[c] => q \in accepted \cap watchers
    <3>1. SUFFICES ASSUME id \in shown[c] PROVE q \in accepted /\ q \in watchers
      OBVIOUS
    <3>2. link[c] = "playing" /\ j \in Inhabitants /\ id \in view[q]
      BY <2>1, <3>1 DEF Served, ScreensInv, Alive, StatusInv
    <3>3. q # p
      BY <1>4, <2>1, PlacesAreOwn DEF Alive
    <3>4. q \in accepted
      BY <2>1, <3>2, <3>3 DEF Inhabitants, InWorld, Accepted
    <3>5. j \in view[p]
      BY <1>4, <3>2 DEF Alive, SightInv, Mutual
    <3>6. QED
      BY <1>1, <1>4, <2>1, <3>4, <3>5 DEF Watchers
  <2>4. QED
    BY <2>2, <2>3
<1>5. QED
  BY <1>3, <1>4

(* Steps that leave sessions, lists and screens alone, and at most end     *)
(* connections.                                                            *)
LEMMA ScreensSame ==
    ASSUME ScreensInv, UNCHANGED <<poolVars, view, clients, key, clientVars>>,
           \A c \in Peers : link'[c] = link[c] \/ link'[c] \in {"left", "broken", "gone"}
    PROVE  ScreensInv'
<1>1. Registered' = Registered /\ Inhabitants' = Inhabitants
  BY DEF poolVars, Registered, Inhabitants, InWorld
<1>2. UNCHANGED <<socket, view, clients, key, shown, astray>>
  BY DEF poolVars, clientVars
<1>3. \A c \in Peers : link'[c] \in {"away", "open", "playing"} => link'[c] = link[c]
  OBVIOUS
<1>4. \A c \in Peers : link'[c] = "away" => \A p \in Places : socket'[p] # c
  BY <1>2, <1>3 DEF ScreensInv
<1>5. \A c \in Peers : link'[c] \in {"open", "playing"} =>
         /\ key'[c] \in Registered'
         /\ \A p \in Places : socket'[p] = c <=> p = clients'[key'[c]]
  BY <1>1, <1>2, <1>3 DEF ScreensInv
<1>6. /\ \A c \in Peers : link'[c] \in {"away", "open"} => shown'[c] = {}
      /\ \A c \in Peers : link'[c] = "open" => key'[c] \notin Inhabitants'
      /\ \A c \in Peers : link'[c] = "playing" => shown'[c] = view'[clients'[key'[c]]]
      /\ \A i \in Inhabitants' : IsPlayer(i) => i \in view'[clients'[i]]
      /\ ~astray'
  BY <1>1, <1>2, <1>3 DEF ScreensInv
<1>7. QED
  BY <1>4, <1>5, <1>6 DEF ScreensInv

LEMMA ScreensInit == Init => ScreensInv
<1>1. SUFFICES ASSUME Init PROVE ScreensInv
  OBVIOUS
<1>2. \A c \in Peers : link[c] = "away" /\ shown[c] = {}
  BY <1>1 DEF Init
<1>3. \A p \in Places : socket[p] \notin Peers
  BY <1>1, WorldTypes DEF Init
<1>4. \A i \in Registered : ~IsPlayer(i)
  BY <1>1, WorldTypes DEF Init, Registered, IsPlayer
<1>5. QED
  BY <1>1, <1>2, <1>3, <1>4 DEF Init, ScreensInv, Inhabitants

LEMMA ScreensSignUp ==
    ASSUME PlacesInv, Alive, ScreensInv, NEW c \in Peers, SignUp(c)
    PROVE  ScreensInv'
<1> USE WorldTypes
<1>id. PICK id : id = orderClientIDs
  OBVIOUS
<1>1. /\ id \notin Registered /\ Registered' = Registered \cup {id}
      /\ Inhabitants' = Inhabitants
      /\ \A j \in Registered : clients'[j] = clients[j]
  BY <1>id, SignUpIs
<1>2. PICK p \in UserPlaces :
        /\ clients'[id] = p /\ socket' = [socket EXCEPT ![p] = c]
        /\ \A j \in Registered : clients[j] # p /\ clients[j] \in Places
  BY <1>id, SignUpIs
<1>3. /\ link[c] = "away" /\ UNCHANGED <<view, shown, astray>>
      /\ link' = [link EXCEPT ![c] = "open"] /\ key' = [key EXCEPT ![c] = id]
  BY <1>id DEF SignUp, sightVars, clientVars
<1>4. /\ link'[c] = "open" /\ key'[c] = id /\ shown'[c] = {}
      /\ \A d \in Peers \ {c} : link'[d] = link[d] /\ key'[d] = key[d] /\ shown'[d] = shown[d]
  BY <1>3 DEF PlacesInv, TypeOK, ScreensInv
<1>5. p \in Places /\ \A q \in Places : socket'[q] = IF q = p THEN c ELSE socket[q]
  BY <1>2 DEF PlacesInv, TypeOK
<1>6. \A d \in Peers : link'[d] = "away" => \A q \in Places : socket'[q] # d
  BY <1>4, <1>5 DEF ScreensInv
<1>7. ASSUME NEW d \in Peers, link'[d] \in {"open", "playing"}
      PROVE  /\ key'[d] \in Registered'
             /\ \A q \in Places : socket'[q] = d <=> q = clients'[key'[d]]
  <2>1. CASE d = c
    <3>1. \A q \in Places : socket[q] # c
      BY <1>3 DEF ScreensInv
    <3>2. key'[d] \in Registered' /\ clients'[key'[d]] = p
      BY <1>1, <1>2, <1>4, <2>1
    <3>3. \A q \in Places : socket'[q] = d <=> q = p
      BY <1>5, <2>1, <3>1
    <3>4. QED
      BY <3>2, <3>3
  <2>2. CASE d # c
    <3>1. /\ key[d] \in Registered /\ clients'[key[d]] = clients[key[d]]
          /\ \A q \in Places : socket[q] = d <=> q = clients[key[d]]
      BY <1>1, <1>4, <1>7, <2>2 DEF ScreensInv
    <3>2. \A q \in Places : socket'[q] = d <=> q = clients[key[d]]
      BY <1>2, <1>5, <2>2, <3>1
    <3>3. QED
      BY <1>1, <1>4, <2>2, <3>1, <3>2
  <2>3. QED
    BY <2>1, <2>2
<1>8. /\ \A d \in Peers : link'[d] \in {"away", "open"} => shown'[d] = {}
      /\ \A d \in Peers : link'[d] = "open" => key'[d] \notin Inhabitants'
  BY <1>1, <1>4 DEF ScreensInv, Inhabitants
<1>9. \A d \in Peers : link'[d] = "playing" => shown'[d] = view'[clients'[key'[d]]]
  BY <1>1, <1>3, <1>4 DEF ScreensInv
<1>10. \A i \in Inhabitants' : IsPlayer(i) => i \in view'[clients'[i]]
  BY <1>1, <1>3 DEF ScreensInv, Inhabitants
<1>11. QED
  BY <1>3, <1>6, <1>7, <1>8, <1>9, <1>10 DEF ScreensInv

(* After UpdateSight for a player, be it moving or signing in. *)
LEMMA ScreensUpdated ==
    ASSUME PlacesInv, Alive, ScreensInv, Alive', NEW me \in Registered, IsPlayer(me),
           \A c \in Served : shown'[c] = IF key[c] \in Inhabitants \cup {me}
                                         THEN view'[PlaceOf(c)] ELSE shown[c],
           \A c \in Peers \ Served : shown'[c] = shown[c],
           \A j \in Inhabitants \cup {me} : IsPlayer(j) => j \in view'[clients[j]],
           ~astray', Inhabitants' = Inhabitants \cup {me}, UNCHANGED <<socket, clients, key>>,
           \A c \in Peers : \/ link'[c] = link[c] /\ ~(link[c] = "open" /\ key[c] = me)
                            \/ link[c] = "open" /\ key[c] = me /\ link'[c] = "playing"
    PROVE  ScreensInv'
<1>1. Registered' = Registered
  BY DEF Registered
<1>2. \A c \in Peers : link'[c] = "away" => \A p \in Places : socket'[p] # c
  BY DEF ScreensInv
<1>3. \A c \in Peers : link'[c] \in {"open", "playing"} =>
         /\ c \in Served
         /\ key'[c] \in Registered'
         /\ \A p \in Places : socket'[p] = c <=> p = clients'[key'[c]]
  BY <1>1 DEF ScreensInv, Served
<1>4. ASSUME NEW c \in Peers, link'[c] = "open"
      PROVE  shown'[c] = {} /\ key'[c] \notin Inhabitants'
  BY <1>3, <1>4 DEF ScreensInv
<1>5. \A c \in Peers : link'[c] = "away" => shown'[c] = {}
  BY DEF ScreensInv, Served
<1>6. ASSUME NEW c \in Peers, link'[c] = "playing"
      PROVE  shown'[c] = view'[clients'[key'[c]]]
  <2>1. key'[c] \in Inhabitants'
    BY <1>3, <1>6 DEF Alive, StatusInv
  <2>2. QED
    BY <1>3, <1>6, <2>1 DEF PlaceOf
<1>7. \A i \in Inhabitants' : IsPlayer(i) => i \in view'[clients'[i]]
  OBVIOUS
<1>8. QED
  BY <1>2, <1>3, <1>4, <1>5, <1>6, <1>7 DEF ScreensInv

LEMMA ScreensSignIn ==
    ASSUME PlacesInv, Alive, ScreensInv, Alive', NEW c \in Peers, SignIn(c)
    PROVE  ScreensInv'
<1> DEFINE me == key[c]
           p == clients[me]
           here == PickCoords(StartPosition)
           lists == [roster EXCEPT ![here] = @ \cup {sid[p]}]
<1>1. me \in Registered /\ IsPlayer(me) /\ link[c] = "open" /\ status[p] = "CONNECTED"
  BY KeysArePlayers DEF SignIn
<1>2. /\ UpdateSight(p, StartPosition, here, lists, {sid[p]})
      /\ status' = [status EXCEPT ![p] = "ACCEPTED"]
      /\ link' = [link EXCEPT ![c] = "playing"]
      /\ UNCHANGED <<sid, socket, registryVars, key>>
  BY DEF SignIn
<1>3. p \in UserPlaces /\ p \in Places /\ sid[p] = me /\ me \notin Inhabitants /\ view[p] = {}
  BY <1>1, WorldTypes DEF PlacesInv, Inhabitants, InWorld, Alive, StatusInv, IdsInv
<1>4. Registered' = Registered /\ UNCHANGED <<socket, clients, key>>
  BY <1>2 DEF Registered, registryVars
<1>5. Inhabitants' = Inhabitants \cup {me}
  <2>1. \A q \in Places : status'[q] = IF q = p THEN "ACCEPTED" ELSE status[q]
    BY <1>2 DEF PlacesInv, TypeOK
  <2>2. \A j \in Registered : clients[j] \in Places /\ (clients[j] = p => j = me)
    BY <1>1, PlacesAreOwn DEF Alive, PlacesInv, TypeOK
  <2>3. QED
    BY <1>1, <1>4, <2>1, <2>2 DEF Inhabitants, InWorld
<1>6. /\ \A d \in Served : shown'[d] = IF key[d] \in Inhabitants \cup {me}
                                       THEN view'[PlaceOf(d)] ELSE shown[d]
      /\ \A d \in Peers \ Served : shown'[d] = shown[d]
      /\ \A j \in Inhabitants \cup {me} : IsPlayer(j) => j \in view'[clients[j]]
      /\ ~astray'
  <2>1. StartPosition \in Positions
    BY PositionsAreAnywhere
  <2>2. UpdateSight(clients[me], StartPosition, here, lists, {me})
    BY <1>2, <1>3
  <2> DEFINE from == here
  <2>3. lists = [roster EXCEPT ![from] = @ \cup {sid[clients[me]]}]
    OBVIOUS
  <2> HIDE DEF me, lists
  <2>4. QED
    BY <1>1, <1>3, <2>1, <2>2, <2>3, ScreensUpdate
<1>7. \A d \in Peers : \/ link'[d] = link[d] /\ ~(link[d] = "open" /\ key[d] = me)
                       \/ link[d] = "open" /\ key[d] = me /\ link'[d] = "playing"
  <2>1. ASSUME NEW d \in Peers, link[d] = "open", key[d] = me PROVE d = c
    <3>1. /\ \A q \in Places : socket[q] = d <=> q = p
          /\ \A q \in Places : socket[q] = c <=> q = p
      BY <1>1, <2>1 DEF ScreensInv
    <3>2. QED
      BY <1>3, <3>1
  <2>2. QED
    BY <1>1, <1>2, <2>1 DEF PlacesInv, TypeOK
<1> HIDE DEF me
<1>8. QED
  BY <1>1, <1>4, <1>5, <1>6, <1>7, ScreensUpdated

LEMMA ScreensEntityMove ==
    ASSUME PlacesInv, Alive, ScreensInv, Alive', NEW id, EntityMove(id)
    PROVE  ScreensInv'
<1> USE WorldTypes
<1>1. /\ Operation("MOVE", id) \in posted
      /\ UNCHANGED <<poolVars, registryVars, linkVars>>
  BY DEF EntityMove, Take
<1>2. CASE UNCHANGED <<sightVars, clientVars>>
  BY <1>1, <1>2, ScreensSame DEF sightVars, registryVars, linkVars
<1>3. CASE ~UNCHANGED <<sightVars, clientVars>>
  <2>1. PICK dir \in Ways :
          LET p == clients[id] IN
          id \in Registered /\ UpdateSight(p, TryMove(pos[p], dir), area[p], roster, {})
    BY <1>3 DEF EntityMove
  <2> DEFINE p == clients[id]
             at == TryMove(pos[p], dir)
             from == area[p]
             greeting == {}
  <2>2. FirstId <= id /\ IsPlayer(id) /\ id \in Inhabitants
    BY <1>1, <2>1 DEF Operation, PlacesInv, Alive, StatusInv, IsPlayer
  <2>3. p \in UserPlaces /\ pos[p] \in Positions
    BY <2>1, <2>2 DEF PlacesInv, TypeOK
  <2>4. at \in Positions
    BY <2>3, StepsStay
  <2>5. Inhabitants' = Inhabitants \cup {id} /\ UNCHANGED <<socket, clients, key, link>>
    BY <1>1, <2>2 DEF Registered, Inhabitants, InWorld, poolVars, registryVars, linkVars
  <2>6. /\ \A d \in Served : shown'[d] = IF key[d] \in Inhabitants \cup {id}
                                         THEN view'[PlaceOf(d)] ELSE shown[d]
        /\ \A d \in Peers \ Served : shown'[d] = shown[d]
        /\ \A j \in Inhabitants \cup {id} : IsPlayer(j) => j \in view'[clients[j]]
        /\ ~astray'
    <3>1. UpdateSight(clients[id], at, from, roster, greeting) /\ id \in Registered
      BY <2>1
    <3>2. from = area[clients[id]] /\ greeting = {}
      OBVIOUS
    <3> HIDE DEF at, from, greeting
    <3>3. QED
      BY <2>2, <2>3, <2>4, <3>1, <3>2, ScreensUpdate
  <2>7. \A d \in Peers : ~(link[d] = "open" /\ key[d] = id)
    BY <2>2 DEF ScreensInv
  <2>8. QED
    BY <2>1, <2>2, <2>5, <2>6, <2>7, ScreensUpdated
<1>4. QED
  BY <1>2, <1>3

(* A character has left every list of the world, and the screens of those  *)
(* clients that are still served: Disconnect and ENTITY_DEAD.              *)
LEMMA ScreensForget ==
    ASSUME PlacesInv, Alive, ScreensInv, Alive', NEW id,
           Inhabitants' = Inhabitants \ {id},
           \A j \in Registered \ {id} : j \in Registered' /\ clients'[j] = clients[j],
           \A j \in Inhabitants \ {id} : view'[clients[j]] = view[clients[j]] \ {id},
           UNCHANGED key,
           \A c \in Peers : link'[c] = link[c] \/ link'[c] \in {"broken", "gone"},
           \A c \in Peers : link'[c] \in {"open", "playing"} =>
              /\ key[c] # id /\ shown'[c] = shown[c] \ {id}
              /\ \A q \in Places : socket'[q] = c <=> socket[q] = c,
           \A c \in Peers : link'[c] = "away" =>
              shown'[c] = shown[c] /\ \A q \in Places : socket'[q] # c,
           ~astray'
    PROVE  ScreensInv'
<1>1. ASSUME NEW c \in Peers, link'[c] \in {"open", "playing"}
      PROVE  /\ link[c] = link'[c] /\ key[c] \in Registered \ {id}
             /\ key'[c] \in Registered' /\ clients'[key'[c]] = clients[key[c]]
             /\ \A q \in Places : socket'[q] = c <=> q = clients'[key'[c]]
  <2>1. link[c] = link'[c]
    BY <1>1
  <2>2. key[c] \in Registered \ {id} /\ \A q \in Places : socket[q] = c <=> q = clients[key[c]]
    BY <1>1, <2>1 DEF ScreensInv
  <2>3. QED
    BY <1>1, <2>1, <2>2
<1>2. \A c \in Peers : link'[c] = "away" => /\ \A q \in Places : socket'[q] # c
                                            /\ shown'[c] = {}
  BY DEF ScreensInv
<1>3. ASSUME NEW c \in Peers, link'[c] = "open"
      PROVE  shown'[c] = {} /\ key'[c] \notin Inhabitants'
  BY <1>1, <1>3 DEF ScreensInv
<1>4. ASSUME NEW c \in Peers, link'[c] = "playing"
      PROVE  shown'[c] = view'[clients'[key'[c]]]
  <2>1. key[c] \in Inhabitants \ {id} /\ shown[c] = view[clients[key[c]]]
    BY <1>1, <1>4 DEF Alive, StatusInv, ScreensInv
  <2>2. shown'[c] = shown[c] \ {id} /\ clients'[key'[c]] = clients[key[c]]
    BY <1>1, <1>4
  <2>3. view'[clients[key[c]]] = view[clients[key[c]]] \ {id}
    BY <2>1
  <2>4. QED
    BY <2>1, <2>2, <2>3
<1>5. \A i \in Inhabitants' : IsPlayer(i) => i \in view'[clients'[i]]
  BY DEF ScreensInv, Inhabitants
<1>6. QED
  BY <1>1, <1>2, <1>3, <1>4, <1>5 DEF ScreensInv

LEMMA ScreensDisconnect ==
    ASSUME PlacesInv, Alive, ScreensInv, Alive', NEW id, NEW own \in Peers,
           Disconnect(id, own), IsPlayer(id)
    PROVE  ScreensInv'
<1> DEFINE p == clients[id]
<1>1. /\ id \in Registered /\ p \in Places
      /\ Registered' = Registered \ {id} /\ Inhabitants' = Inhabitants \ {id}
      /\ \A j \in Registered \ {id} : clients'[j] = clients[j] /\ clients[j] # p
      /\ \A j \in Inhabitants \ {id} : view'[clients[j]] = view[clients[j]] \ {id}
  BY WorldTypes, DisconnectForgets
<1>2. /\ socket' = [socket EXCEPT ![p] = NoPeer]
      /\ link' = [c \in Peers |-> IF c = own THEN "gone"
                                  ELSE IF c = socket[p] /\ link[c] \in {"open", "playing"}
                                  THEN "broken" ELSE link[c]]
      /\ UNCHANGED key
  BY DEF Disconnect
<1>3. /\ \A c \in Served : key[c] # id => shown'[c] = shown[c] \ {id}
      /\ \A c \in Peers \ Served : shown'[c] = shown[c]
      /\ ~astray'
  <2>1. CASE status[p] = "ACCEPTED"
    <3>1. CleanupSight(p, Accepted)
      BY <2>1 DEF Disconnect
    <3>2. QED
      BY <1>1, <3>1, ScreensCleanup
  <2>2. CASE status[p] # "ACCEPTED"
    <3>1. UNCHANGED clientVars /\ id \notin Inhabitants
      BY <2>2 DEF Disconnect, Inhabitants, InWorld
    <3>2. \A c \in Served : id \notin shown[c]
      <4>1. ASSUME NEW c \in Served, link[c] = "playing" PROVE id \notin shown[c]
        BY <3>1, <4>1 DEF Served, ScreensInv, Alive, StatusInv, SightInv
      <4>2. QED
        BY <4>1 DEF Served, ScreensInv
    <3>3. QED
      BY <3>1, <3>2 DEF clientVars, ScreensInv
  <2>3. QED
    BY <2>1, <2>2
<1>4. \A q \in Places : socket'[q] = IF q = p THEN NoPeer ELSE socket[q]
  BY <1>1, <1>2 DEF PlacesInv, TypeOK
<1>5. ASSUME NEW c \in Peers, link'[c] \in {"open", "playing"}
      PROVE  /\ key[c] # id /\ shown'[c] = shown[c] \ {id}
             /\ \A q \in Places : socket'[q] = c <=> socket[q] = c
  <2>1. link[c] = link'[c] /\ c # socket[p] /\ c \in Served
    BY <1>2, <1>5 DEF Served
  <2>2. key[c] # id
    BY <1>1, <2>1 DEF ScreensInv, Served
  <2>3. QED
    BY <1>3, <1>4, <2>1, <2>2, WorldTypes
<1>6. ASSUME NEW c \in Peers, link'[c] = "away"
      PROVE  shown'[c] = shown[c] /\ \A q \in Places : socket'[q] # c
  <2>1. link[c] = "away" /\ c \notin Served
    BY <1>2, <1>6 DEF Served
  <2>2. QED
    BY <1>3, <1>4, <2>1, WorldTypes DEF ScreensInv
<1>7. \A c \in Peers : link'[c] = link[c] \/ link'[c] \in {"broken", "gone"}
  BY <1>2
<1>8. QED
  BY <1>1, <1>2, <1>3, <1>5, <1>6, <1>7, ScreensForget

(* The screens when a character dies, be it a player or an NPC. *)
LEMMA ScreensDeath ==
    ASSUME PlacesInv, Alive, ScreensInv, NEW id \in Registered, EntityDead(id)
    PROVE  /\ \A c \in Served : key[c] # id => shown'[c] = shown[c] \ {id}
           /\ \A c \in Peers \ Served : shown'[c] = shown[c]
           /\ ~astray'
<1> DEFINE p == clients[id]
<1>1. CASE area[p] # NoSector
  <2> DEFINE accepted == Accepted \ {clients[id]}
  <2>1. CleanupSight(clients[id], accepted) /\ accepted = Accepted \ {clients[id]}
    BY <1>1 DEF EntityDead
  <2> HIDE DEF accepted
  <2>2. QED
    BY <2>1, ScreensCleanup
<1>2. CASE area[p] = NoSector
  <2>1. UNCHANGED <<view, clients, shown, astray>>
    BY <1>2 DEF EntityDead, clientVars, registryVars
  <2>2. \A c \in Served : link[c] = "playing" => key[c] \in Inhabitants
    BY DEF Served, ScreensInv, Alive, StatusInv
  <2>3. \A j \in Inhabitants \ {id} : view[clients[j]] = view[clients[j]] \ {id}
    BY <2>1, DeathForgets
  <2>4. \A c \in Served : key[c] # id => shown[c] = shown[c] \ {id}
    BY <2>2, <2>3 DEF Served, ScreensInv
  <2>5. QED
    BY <2>1, <2>4 DEF ScreensInv
<1>3. QED
  BY <1>1, <1>2

LEMMA ScreensEntityDead ==
    ASSUME PlacesInv, Alive, ScreensInv, Alive', NEW id, EntityDead(id), Undisturbed'
    PROVE  ScreensInv'
<1>1. CASE id \notin Registered
  <2>1. UNCHANGED <<poolVars, view, clients, key, clientVars, link>>
    BY <1>1 DEF EntityDead, poolVars, registryVars, linkVars
  <2>2. QED
    BY <2>1, ScreensSame
<1>2. CASE id \in Registered
  <2>1. /\ Registered' = Registered /\ Inhabitants' = Inhabitants \ {id} /\ id \in dead'
        /\ UNCHANGED <<socket, clients, key, link>>
        /\ \A j \in Inhabitants \ {id} : view'[clients[j]] = view[clients[j]] \ {id}
    BY <1>2, DeathForgets DEF registryVars, linkVars
  <2>2. ~IsPlayer(id)
    BY <2>1 DEF Undisturbed
  <2>3. /\ \A c \in Served : key[c] # id => shown'[c] = shown[c] \ {id}
        /\ \A c \in Peers \ Served : shown'[c] = shown[c]
        /\ ~astray'
    BY <1>2, ScreensDeath
  <2>4. \A c \in Served : c \in Peers /\ key[c] # id
    BY <2>2, KeysArePlayers DEF Served, ScreensInv
  <2>5. \A c \in Peers : link'[c] \in {"open", "playing"} =>
           /\ key[c] # id /\ shown'[c] = shown[c] \ {id}
           /\ \A q \in Places : socket'[q] = c <=> socket[q] = c
    BY <2>1, <2>3, <2>4 DEF Served
  <2>6. \A c \in Peers : link'[c] = "away" =>
           shown'[c] = shown[c] /\ \A q \in Places : socket'[q] # c
    BY <2>1, <2>3 DEF Served, ScreensInv
  <2>7. QED
    BY <2>1, <2>3, <2>5, <2>6, ScreensForget
<1>3. QED
  BY <1>1, <1>2

LEMMA ScreensStep ==
    ASSUME PlacesInv, Alive, ScreensInv, [Next]_vars, Undisturbed'
    PROVE  ScreensInv'
<1> USE DEF poolVars, sightVars, registryVars, linkVars, clientVars
<1>0. Alive'
  BY AliveStep
<1>1. CASE UNCHANGED vars
  BY <1>1, ScreensSame DEF vars
<1>2. ASSUME NEW c \in Peers, SignOut(c) \/ Expel(c) \/ Fail(c) PROVE ScreensInv'
  <2>1. CASE \E id : IsPlayer(id) /\ Disconnect(id, c)
    BY <1>0, <2>1, ScreensDisconnect
  <2>2. CASE /\ link[c] = "broken" /\ link' = [link EXCEPT ![c] = "gone"]
             /\ UNCHANGED <<poolVars, sightVars, registryVars, posted, attacks, key,
                            clientVars, deathVars, historyVars>>
    BY <2>2, ScreensSame DEF PlacesInv, TypeOK
  <2>3. QED
    BY <1>2, <2>1, <2>2, DisconnectsPlayers
<1>3. ASSUME NEW c \in Peers, Leave(c) \/ Reset(c) PROVE ScreensInv'
  BY <1>3, ScreensSame DEF Leave, Reset, PlacesInv, TypeOK
<1>4. ASSUME NEW c \in Peers, Post(c) PROVE ScreensInv'
  BY <1>4, ScreensSame DEF Post
<1>5. ASSUME NEW id, AttackCopy(id) PROVE ScreensInv'
  BY <1>5, ScreensSame DEF AttackCopy
<1>a. ASSUME NEW attack \in attacks, AttackNext(attack) PROVE ScreensInv'
  BY <1>a, ScreensSame DEF AttackNext
<1>6. ASSUME NEW c \in Peers, SignUp(c) \/ SignIn(c) PROVE ScreensInv'
  BY <1>0, <1>6, ScreensSignUp, ScreensSignIn
<1>7. ASSUME NEW id, EntityMove(id) \/ EntityDead(id) PROVE ScreensInv'
  BY <1>0, <1>7, ScreensEntityMove, ScreensEntityDead
<1>8. QED
  BY <1>1, <1>2, <1>3, <1>4, <1>5, <1>a, <1>6, <1>7 DEF Next

LEMMA WorldInvariant == Spec => []IInv
<1>1. Init => IInv
  BY PlacesInit, AliveInit, ScreensInit DEF IInv
<1>2. IInv /\ [Next]_vars => IInv'
  BY PlacesStep, DisturbedForGood, AliveStep, ScreensStep DEF IInv
<1>3. QED
  BY <1>1, <1>2, PTL DEF Spec

-----------------------------------------------------------------------------
(* Every variable keeps its type: no walk leaves the world, no character   *)
(* is in a sector that does not exist, whoever dies.                       *)
THEOREM WorldTypeCorrect == Spec => []TypeOK
<1>1. IInv => TypeOK
  BY DEF IInv, PlacesInv
<1>2. QED
  BY <1>1, WorldInvariant, PTL

(* RegisterSight, UpdateSight and CleanupSight keep every character of the *)
(* world on the roster of its sector and on no other.  Like the theorems   *)
(* below: until a player dies or moves before its sign in.                 *)
THEOREM WorldRosters == Spec => []RostersFollow
<1>1. IInv => RostersFollow
  BY DEF IInv, Alive, SightInv, RostersFollow
<1>2. QED
  BY <1>1, WorldInvariant, PTL

(* Sight is mutual in a world of any size, with any number of players and  *)
(* NPCs, although each handler patches the lists of others.                *)
THEOREM WorldMutual == Spec => []ViewsAreMutual
<1>1. IInv => ViewsAreMutual
  BY DEF IInv, Alive, SightInv, Mutual, ViewsAreMutual
<1>2. QED
  BY <1>1, WorldInvariant, PTL

(* Nobody stays in a list after it walked away or left. *)
THEOREM WorldNear == Spec => []ViewsAreNear
<1>1. IInv => ViewsAreNear
  BY DEF IInv, Alive, SightInv, ViewsAreNear, Inhabitants
<1>2. QED
  BY <1>1, WorldInvariant, PTL

(* No list that PLAYER_ATTACK copies has anybody in it who is not          *)
(* registered any more: whom the attack does not find left while it        *)
(* walked.                                                                 *)
THEOREM WorldAttacks == Spec => []AttacksFindTargets
<1>1. IInv => AttacksFindTargets
  BY DEF IInv, Alive, AttacksInv, AttacksFindTargets
<1>2. QED
  BY <1>1, WorldInvariant, PTL

(* Each client that plays is shown its view list, exactly: UpdateSight and *)
(* CleanupSight patch lists and send packets in different loops, but what  *)
(* they send is what they write.                                           *)
THEOREM WorldScreens == Spec => []ClientsShowViews
<1>1. IInv => ClientsShowViews
  BY DEF IInv, ScreensInv, ClientsShowViews
<1>2. QED
  BY <1>1, WorldInvariant, PTL

(* SC_MOVE_OBJ only ever names what the client shows.                      *)
THEOREM WorldMoves == Spec => []MovesAreShown
<1>1. IInv => MovesAreShown
  BY DEF IInv, ScreensInv, MovesAreShown
<1>2. QED
  BY <1>1, WorldInvariant, PTL

(* Whoever dies in a world that nothing disturbed so far - the first       *)
(* player to die, too - is on no roster, in no list and on no other screen *)
(* after that one handler.                                                 *)
THEOREM WorldDeaths == Spec => DeathHides
<1> DEFINE Hidden == Undisturbed => \A id \in dead' \ dead :
                       /\ \A s \in Sectors : id \notin roster'[s]
                       /\ \A i \in Inhabitants' : id \notin view'[clients[i]]
                       /\ \A c \in Peers : link[c] = "playing" /\ key[c] # id
                                             => id \notin shown'[c]
<1>1. IInv /\ [Next]_vars => [Hidden]_vars
  <2>1. SUFFICES ASSUME IInv, [Next]_vars, Undisturbed, NEW id \in dead' \ dead
                 PROVE  /\ \A s \in Sectors : id \notin roster'[s]
                        /\ \A i \in Inhabitants' : id \notin view'[clients[i]]
                        /\ \A c \in Peers : link[c] = "playing" /\ key[c] # id
                                              => id \notin shown'[c]
    OBVIOUS
  <2>2. PlacesInv /\ Alive /\ ScreensInv
    BY <2>1 DEF IInv
  <2>3. \E i : EntityDead(i)
    <3>1. ~UNCHANGED dead
      BY <2>1
    <3>2. ASSUME NEW c \in Peers,
                 SignUp(c) \/ SignIn(c) \/ Post(c) \/ SignOut(c) \/ Expel(c)
                           \/ Leave(c) \/ Reset(c) \/ Fail(c)
          PROVE  UNCHANGED dead
      BY <3>2 DEF SignUp, SignIn, Post, SignOut, Expel, Leave, Reset, Fail, Disconnect
    <3>3. ASSUME NEW i, EntityMove(i) \/ AttackCopy(i) PROVE UNCHANGED dead
      BY <3>3 DEF EntityMove, AttackCopy
    <3>4. ASSUME NEW attack, AttackNext(attack) PROVE UNCHANGED dead
      BY <3>4 DEF AttackNext
    <3>5. QED
      BY <2>1, <3>1, <3>2, <3>3, <3>4 DEF Next, vars
  <2>4. id \in Registered /\ EntityDead(id)
    <3>1. PICK i : EntityDead(i)
      BY <2>3
    <3>2. i \in Registered /\ dead' = dead \cup {i}
      BY <2>1, <3>1 DEF EntityDead
    <3>3. QED
      BY <2>1, <3>1, <3>2
  <2>5. /\ Inhabitants' = Inhabitants \ {id}
        /\ \A s \in Sectors : roster'[s] = roster[s] \ {id}
        /\ \A j \in Inhabitants \ {id} : view'[clients[j]] = view[clients[j]] \ {id}
    BY <2>2, <2>4, DeathForgets
  <2>6. \A c \in Peers : link[c] = "playing" /\ key[c] # id => shown'[c] = shown[c] \ {id}
    BY <2>2, <2>4, ScreensDeath DEF Served
  <2>7. QED
    BY <2>5, <2>6
<1>2. QED
  BY <1>1, WorldInvariant, PTL DEF Spec, DeathHides

=============================================================================
