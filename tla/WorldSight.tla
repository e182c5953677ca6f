----------------------------- MODULE WorldSight -----------------------------
(***************************************************************************)
(* Who sees whom: the rosters of the sectors, the view list of each        *)
(* session, and what the clients are told.  A handler of WorldServer is    *)
(* one action here, with every call it makes (RegisterSight, UpdateSight,  *)
(* CleanupSight, Cleanup) - but for PLAYER_ATTACK, which walks a copy of a *)
(* view list one session at a time; the workers decide in which order the  *)
(* completions and the posted operations are handled.  SightRace and       *)
(* SessionPool split the handlers; SessionPool also has the newcomers this *)
(* module leaves out, those that are refused or whose first receive is     *)
(* pending.                                                                *)
(***************************************************************************)
EXTENDS SightGrid, FiniteSets

CONSTANTS
    Peers,       \* the clients that may connect, once each
    NoPeer,      \* NULL as a socket
    NpcCount,    \* NPCS_MAX
    NpcPlaces,   \* where BuildNPCs may put an NPC
    UsersMax,    \* USERS_MAX
    Ways,        \* bound: the directions characters walk in
    Fighters,    \* bound: the peers who attack
    AttacksMax,  \* bound: the attacks at work at a time
    Hasty        \* bound: the peers who may post before they sign in

(* The NPCs' ids and indices come first, in clientsPool as in myClients.   *)
NpcIds == 0..(NpcCount - 1)
UserPlaces == NpcCount..(NpcCount + UsersMax - 1)
Places == NpcIds \cup UserPlaces
FirstId == NpcCount
IsPlayer(id) == FirstId <= id
NoId == -1
NoSector == <<>>

ASSUME WorldSightAssumption ==
    /\ NpcCount \in Nat /\ UsersMax \in Nat \ {0}
    /\ NpcPlaces \subseteq Anywhere
    /\ NoPeer \notin Peers /\ Fighters \subseteq Peers /\ Hasty \subseteq Peers
    /\ AttacksMax \in Nat
    /\ Ways \subseteq Directions

VARIABLES
    status, sid, socket,   \* of each place of clientsPool
    pos,                   \* myPosition
    area,                  \* mySightSector
    view,                  \* myViewList
    clients,               \* myClients: id -> place
    orderClientIDs,        \* the next player's id
    roster,                \* mySight of each sector
    posted,                \* the operations posted to the port
    attacks,               \* the attacks at work: whose place, and who is still to be tried
    link, key,             \* each peer's connection, and its completion key
    shown,                 \* the entities a client has been told of
    astray,                \* a client was told to move what it does not show
    dead,                  \* the ids ENTITY_DEAD was handled for
    crashed,               \* a null session or sector was dereferenced
    stray,                 \* history: who left while an attack still had to try it
    rash                   \* history: a session moved before its sign in

poolVars == <<status, sid, socket>>
sightVars == <<pos, area, view, roster>>
clientVars == <<shown, astray>>
linkVars == <<link, key>>
registryVars == <<clients, orderClientIDs>>
deathVars == <<dead, crashed>>
historyVars == <<stray, rash>>
vars == <<poolVars, sightVars, registryVars, posted, attacks, linkVars, clientVars,
          deathVars, historyVars>>

Operation(op, id) == [op |-> op, id |-> id]
Attack(place, ids) == [place |-> place, rest |-> ids]

(* Awake, BuildSessions and BuildNPCs. *)
Init ==
    /\ status = [p \in Places |-> IF p \in NpcIds THEN "ACCEPTED" ELSE "NONE"]
    /\ sid = [p \in Places |-> IF p \in NpcIds THEN p ELSE NoId]
    /\ socket = [p \in Places |-> NoPeer]
    /\ \E npcPos \in [NpcIds -> NpcPlaces] :
         /\ pos = [p \in Places |-> IF p \in NpcIds THEN npcPos[p] ELSE StartPosition]
         /\ area = [p \in Places |-> IF p \in NpcIds THEN PickCoords(npcPos[p])
                                                     ELSE NoSector]
         /\ roster = [s \in Sectors |-> {n \in NpcIds : PickCoords(npcPos[n]) = s}]
    /\ view = [p \in Places |-> {}]
    /\ clients = [n \in NpcIds |-> n]
    /\ orderClientIDs = FirstId
    /\ posted = {} /\ attacks = {}
    /\ link = [c \in Peers |-> "away"]
    /\ key = [c \in Peers |-> NoId]
    /\ shown = [c \in Peers |-> {}]
    /\ astray = FALSE
    /\ dead = {} /\ crashed = FALSE
    /\ stray = {} /\ rash = FALSE

Registered == DOMAIN clients

-----------------------------------------------------------------------------
(* What the clients are told.  appears and fades give, for each place, the *)
(* ids sent to its client as SC_APPEAR_OBJ and SC_DISAPPEAR_OBJ; moves the *)
(* places whose clients are sent SC_MOVE_OBJ of id.                        *)
Tell(appears, fades, moves, id) ==
    LET Told(c) == {p \in Places : socket[p] = c /\ link[c] \in {"open", "playing"}}
        Shown(c) == (shown[c] \cup UNION {appears[p] : p \in Told(c)})
                       \ UNION {fades[p] : p \in Told(c)}
    IN /\ shown' = [c \in Peers |-> Shown(c)]
       /\ astray' = (astray \/ \E c \in Peers :
                                 Told(c) \cap moves # {} /\ id \notin Shown(c))

(* A bug to be caught: a character stays in the roster it leaves.          *)
MovedListsAdding(id, from, to, lists) ==
    IF from = to THEN lists ELSE [lists EXCEPT ![to] = @ \cup {id}]

(* The rosters after character id went from one sector to another; within  *)
(* one sector they are left alone.                                         *)
MovedLists(id, from, to, lists) ==
    IF from = to THEN lists
    ELSE [s \in Sectors |-> IF s = to THEN lists[s] \cup {id}
                            ELSE IF s = from THEN lists[s] \ {id} ELSE lists[s]]

(* A bug to be caught: the test of the old list inverted. *)
RememberedInverted(ids, before) == ids \ before

(* viewlist_prev.find: those of ids that were in the old list. *)
Remembered(ids, before) == ids \cap before

(* UpdateSight of the session at place p compares what it found with the   *)
(* view list it started from.                                              *)
Difference(p, before, found, at) ==
    LET me == sid[p]
        present == found \cap Registered
        near == {id \in present : clients[id] = p \/ InSight(at, pos[clients[id]])}
        stay == Remembered(near, before)
        left == Remembered(present, before) \ near
    IN [new  |-> near \ (stay \cup {me}),
        stay |-> stay,
        left |-> left,
        far  |-> present \ (near \cup left),
        \* in the old list, and not dealt with so far
        lost |-> before \ (stay \cup left \cup {me})]

(* A bug to be caught: only those in the searched sectors are told.        *)
PartingHere(d) == d.left

(* Those who are out of sight now and are to forget the character too.     *)
Parting(d) == d.left \cup d.lost

(* UpdateSight of the session at place p, which is at a position now; its  *)
(* sector so far is `from`, lists are the rosters, and greeting is what    *)
(* RegisterSight has just sent it.                                         *)
UpdateSight(p, at, from, lists, greeting) ==
    LET me == sid[p]
        here == PickCoords(at)
        rosters == MovedLists(me, from, here, lists)
        found == UNION {rosters[s] : s \in SearchedSectors(at)}
        d == Difference(p, view[p], found, at)
        missing == found \ Registered
        PlacesOf(ids) == {clients[id] : id \in ids \cap Registered}
        PlayersOf(ids) == PlacesOf({id \in ids : IsPlayer(id)})
        Mine(q, ids) == IF q = p THEN ids ELSE {}
        Theirs(q, places) == IF q \in places THEN {me} ELSE {}
    IN /\ pos' = [pos EXCEPT ![p] = at]
       /\ roster' = rosters
       /\ area' = [area EXCEPT ![p] = here]
       /\ view' = [q \in Places |->
             ((IF q = p THEN found ELSE view[q])
                 \cup Mine(q, d.new) \cup Theirs(q, PlacesOf(d.new)))
             \ (Mine(q, missing \cup d.left \cup d.far \cup d.lost)
                 \cup Theirs(q, PlacesOf(d.far \cup Parting(d))))]
       /\ Tell([q \in Places |->
                  Mine(q, greeting \cup {sid[clients[id]] : id \in d.new})
                     \cup Theirs(q, PlayersOf(d.new))],
               [q \in Places |->
                  Mine(q, missing \cup d.left \cup d.lost)
                     \cup Theirs(q, PlayersOf(Parting(d)))],
               PlayersOf(d.stay), me)

(* CleanupSight of the session at place p: only the sessions that are      *)
(* accepted lose sight of it, and are told.                                *)
Watchers(p, ids) == {clients[id] : id \in (view[p] \ {sid[p]}) \cap Registered \cap ids}

(* A bug to be caught: nobody is told of who left. *)
CleanupSightSilent(p, accepted) ==
    /\ roster' = [roster EXCEPT ![area[p]] = @ \ {sid[p]}]
    /\ UNCHANGED clientVars

CleanupSight(p, accepted) ==
    /\ roster' = [roster EXCEPT ![area[p]] = @ \ {sid[p]}]
    /\ Tell([q \in Places |-> {}],
            [q \in Places |-> IF q \in accepted \cap Watchers(p, {i \in view[p] : IsPlayer(i)})
                              THEN {sid[p]} ELSE {}],
            {}, NoId)

(* A bug to be caught: who left stays in the lists. *)
ViewsWithoutNothing(p, accepted) == view

ViewsWithout(p, accepted) ==
    [q \in Places |-> IF q \in accepted \cap Watchers(p, view[p])
                      THEN view[q] \ {sid[p]} ELSE view[q]]

Accepted == {p \in Places : status[p] = "ACCEPTED"}

(* Disconnect(id), and Session::Cleanup.  The socket is closed, and the    *)
(* receive outstanding on it fails - unless that is what is being handled, *)
(* which is then peer `own`.                                               *)
Disconnect(id, own) ==
    LET p == clients[id] IN
    /\ id \in Registered /\ status[p] # "NONE"
    /\ IF status[p] = "ACCEPTED"
       THEN CleanupSight(p, Accepted)
       ELSE UNCHANGED <<roster, clientVars>>
    /\ view' = [(IF status[p] = "ACCEPTED" THEN ViewsWithout(p, Accepted) ELSE view)
                  EXCEPT ![p] = {}]
    /\ clients' = [i \in Registered \ {id} |-> clients[i]]
    /\ status' = [status EXCEPT ![p] = "NONE"]
    /\ sid' = [sid EXCEPT ![p] = NoId]
    /\ socket' = [socket EXCEPT ![p] = NoPeer]
    /\ area' = [area EXCEPT ![p] = NoSector]
    /\ link' = [c \in Peers |-> IF c = own THEN "gone"
                                ELSE IF c = socket[p] /\ link[c] \in {"open", "playing"}
                                THEN "broken" ELSE link[c]]
    /\ stray' = IF \E attack \in attacks : id \in attack.rest THEN stray \cup {id} ELSE stray
    /\ UNCHANGED <<pos, orderClientIDs, posted, attacks, key, deathVars, rash>>

-----------------------------------------------------------------------------
(* The handlers of a newcomer's completions. *)

Players == {id \in Registered : IsPlayer(id)}

(* ProceedSignUp, for a newcomer whose first receive completes at once.    *)
(* FindPlaceForNewbie takes the first free place, as its last user left it.*)
SignUp(c) ==
    /\ ~crashed /\ link[c] = "away"
    /\ Cardinality(Players) < UsersMax
    /\ \E p \in UserPlaces :
         /\ status[p] = "NONE"
         /\ \A q \in UserPlaces : status[q] = "NONE" => p <= q
         /\ status' = [status EXCEPT ![p] = "CONNECTED"]
         /\ sid' = [sid EXCEPT ![p] = orderClientIDs]
         /\ socket' = [socket EXCEPT ![p] = c]
         /\ clients' = [i \in Registered \cup {orderClientIDs} |->
                           IF i \in Registered THEN clients[i] ELSE p]
    /\ orderClientIDs' = orderClientIDs + 1
    /\ link' = [link EXCEPT ![c] = "open"]
    /\ key' = [key EXCEPT ![c] = orderClientIDs]
    /\ UNCHANGED <<sightVars, posted, attacks, clientVars, deathVars, historyVars>>

(* CS_SIGNIN: ProceedSignIn, RegisterSight and UpdateSight. *)
SignIn(c) ==
    /\ ~crashed /\ link[c] = "open" /\ key[c] \in Registered
    /\ LET p == clients[key[c]]
           here == PickCoords(StartPosition)
       IN /\ status[p] = "CONNECTED"
          /\ UpdateSight(p, StartPosition, here,
                         [roster EXCEPT ![here] = @ \cup {sid[p]}], {sid[p]})
          /\ status' = [status EXCEPT ![p] = "ACCEPTED"]
    /\ link' = [link EXCEPT ![c] = "playing"]
    /\ UNCHANGED <<sid, socket, registryVars, posted, attacks, key, deathVars, historyVars>>

(* CS_MOVE and CS_ATTACK_NONTARGET post an operation for the ID of the     *)
(* session that the key finds; a move only if it is the sender's own.      *)
(* Neither asks whether the session signed in.                             *)
Post(c) ==
    /\ ~crashed /\ link[c] \in {"open", "playing"} /\ key[c] \in Registered
    /\ link[c] = "open" => c \in Hasty
    /\ LET p == clients[key[c]] IN
       \/ /\ sid[p] = key[c]
          /\ posted' = posted \cup {Operation("MOVE", sid[p])}
          /\ rash' = (rash \/ status[p] # "ACCEPTED")
       \/ /\ c \in Fighters
          /\ posted' = posted \cup {Operation("ATTACK", sid[p])}
          /\ UNCHANGED rash
    /\ UNCHANGED <<poolVars, sightVars, registryVars, attacks, linkVars, clientVars,
                   deathVars, stray>>

(* CS_SIGNOUT, of an accepted session and by its own client. *)
SignOut(c) ==
    /\ ~crashed /\ link[c] = "playing" /\ key[c] \in Registered
    /\ LET p == clients[key[c]] IN
       /\ sid[p] = key[c] /\ status[p] = "ACCEPTED"
       /\ Disconnect(sid[p], c)

(* A packet of no known type, or CS_SIGNIN of an accepted session. *)
Expel(c) ==
    /\ ~crashed /\ link[c] \in {"open", "playing"} /\ key[c] \in Registered
    /\ Disconnect(sid[clients[key[c]]], c)

(* A graceful close: the receive completes with 0 bytes and is forgotten.  *)
Leave(c) ==
    /\ ~crashed /\ link[c] \in {"open", "playing"}
    /\ link' = [link EXCEPT ![c] = "left"]
    /\ UNCHANGED <<poolVars, sightVars, registryVars, posted, attacks, key, clientVars,
                   deathVars, historyVars>>

Reset(c) ==
    /\ ~crashed /\ link[c] \in {"open", "playing"}
    /\ link' = [link EXCEPT ![c] = "broken"]
    /\ UNCHANGED <<poolVars, sightVars, registryVars, posted, attacks, key, clientVars,
                   deathVars, historyVars>>

(* The failed receive of a broken connection. *)
Fail(c) ==
    /\ ~crashed /\ link[c] = "broken"
    /\ \/ Disconnect(key[c], c)
       \/ /\ key[c] \in Registered => status[clients[key[c]]] = "NONE"
          /\ link' = [link EXCEPT ![c] = "gone"]
          /\ UNCHANGED <<poolVars, sightVars, registryVars, posted, attacks, key,
                         clientVars, deathVars, historyVars>>

-----------------------------------------------------------------------------
(* The handlers of the posted operations. *)

Take(op, id) ==
    /\ ~crashed
    /\ Operation(op, id) \in posted

(* ENTITY_MOVE: UpdateSight if the character moved. *)
EntityMove(id) ==
    /\ Take("MOVE", id)
    /\ posted' = posted \ {Operation("MOVE", id)}
    /\ IF id \in Registered
       THEN \E dir \in Ways :
              LET p == clients[id]
                  to == TryMove(pos[p], dir)
              IN IF to # pos[p]
                 THEN UpdateSight(p, to, area[p], roster, {})
                 ELSE UNCHANGED <<sightVars, clientVars>>
       ELSE UNCHANGED <<sightVars, clientVars>>
    /\ UNCHANGED <<poolVars, registryVars, attacks, linkVars, deathVars, historyVars>>

(* PLAYER_ATTACK copies the view list, if anybody but the character itself *)
(* is in it,                                                               *)
AttackCopy(id) ==
    /\ Take("ATTACK", id) /\ Cardinality(attacks) < AttacksMax
    /\ posted' = posted \ {Operation("ATTACK", id)}
    /\ IF id \in Registered /\ Cardinality(view[clients[id]]) > 1
       THEN attacks' = attacks \cup {Attack(clients[id], view[clients[id]] \ {id})}
       ELSE UNCHANGED attacks
    /\ UNCHANGED <<poolVars, sightVars, registryVars, linkVars, clientVars, deathVars,
                   historyVars>>

(* and tries one after the other: whose box touches is to die, and who is  *)
(* not registered any more is dereferenced all the same.                   *)
AttackNext(attack) ==
    /\ ~crashed
    /\ \E i \in attack.rest :
         LET touched == {j \in {i} \cap Registered :
                           CheckCollision(pos[attack.place], pos[clients[j]])}
         IN /\ attacks' = (attacks \ {attack}) \cup
                 {a \in {Attack(attack.place, attack.rest \ {i})} : a.rest # {}}
            /\ posted' = posted \cup {Operation("DEAD", sid[clients[j]]) : j \in touched}
            /\ crashed' = (i \notin Registered)
    /\ UNCHANGED <<poolVars, sightVars, registryVars, linkVars, clientVars, dead,
                   historyVars>>

(* ENTITY_DEAD: the session is free for a newcomer, and in nobody's sight, *)
(* but stays registered, with its ID, its socket and its own view list.    *)
EntityDead(id) ==
    /\ Take("DEAD", id)
    /\ posted' = posted \ {Operation("DEAD", id)}
    /\ LET p == clients[id] IN
       IF id \notin Registered
       THEN UNCHANGED <<status, view, roster, clientVars, dead, crashed>>
       ELSE /\ status' = [status EXCEPT ![p] = "NONE"]
            /\ dead' = dead \cup {id}
            /\ IF area[p] = NoSector
               THEN crashed' = TRUE /\ UNCHANGED <<view, roster, clientVars>>
               ELSE /\ CleanupSight(p, Accepted \ {p})
                    /\ view' = ViewsWithout(p, Accepted \ {p})
                    /\ UNCHANGED crashed
    /\ UNCHANGED <<sid, socket, pos, area, registryVars, attacks, linkVars, historyVars>>

-----------------------------------------------------------------------------
Next ==
    \/ \E c \in Peers : SignUp(c) \/ SignIn(c) \/ Post(c) \/ SignOut(c) \/ Expel(c)
                        \/ Leave(c) \/ Reset(c) \/ Fail(c)
    \/ \E id \in {operation.id : operation \in posted} :
         EntityMove(id) \/ AttackCopy(id) \/ EntityDead(id)
    \/ \E attack \in attacks : AttackNext(attack)

Spec == Init /\ [][Next]_vars

-----------------------------------------------------------------------------
(* Properties. *)

(* Every variable has its type; in particular no walk leaves the world and *)
(* no character is put into a sector that does not exist.                  *)
TypeOK ==
    /\ status \in [Places -> {"NONE", "CONNECTED", "ACCEPTED"}]
    /\ sid \in [Places -> Int]
    /\ socket \in [Places -> Peers \cup {NoPeer}]
    /\ pos \in [Places -> Anywhere]
    /\ \A p \in UserPlaces : pos[p] \in Positions
    /\ area \in [Places -> Sectors \cup {NoSector}]
    /\ \A p \in Places : view[p] \subseteq Int
    /\ \A id \in Registered : id \in Nat /\ clients[id] \in Places
    /\ orderClientIDs \in Nat
    /\ DOMAIN roster = Sectors
    /\ \A s \in Sectors : roster[s] \subseteq Int
    /\ \A operation \in posted : operation.op \in {"MOVE", "ATTACK", "DEAD"}
    /\ \A attack \in attacks : attack.place \in Places /\ attack.rest \subseteq Int
    /\ link \in [Peers -> {"away", "open", "playing", "left", "broken", "gone"}]
    /\ key \in [Peers -> Int]
    /\ \A c \in Peers : shown[c] \subseteq Int
    /\ dead \subseteq Int /\ stray \subseteq Int
    /\ astray \in BOOLEAN /\ crashed \in BOOLEAN /\ rash \in BOOLEAN

(* What follows is what holds until ENTITY_DEAD is handled for a player,   *)
(* or one moves before it signs in; deaths of NPCs disturb none of it.     *)
Undisturbed == (\A id \in dead : ~IsPlayer(id)) /\ ~rash

InWorld(id) == id \in Registered /\ status[clients[id]] = "ACCEPTED"
Inhabitants == {id \in Registered : InWorld(id)}

(* A character is on the roster of the sector its position lies in, and on *)
(* no other; who has left the world is on none.  (RegisterSight, step 0 of *)
(* UpdateSight and CleanupSight, over any number of walks and departures.) *)
RostersFollow ==
    Undisturbed => \A s \in Sectors :
        roster[s] = {id \in Inhabitants : PickCoords(pos[clients[id]]) = s}

(* If one character sees another, it is seen by it: UpdateSight changes    *)
(* both lists, also where the other is out of the sectors it searches.     *)
ViewsAreMutual ==
    Undisturbed => \A i, j \in Inhabitants :
        i # j => (i \in view[clients[j]] <=> j \in view[clients[i]])

(* Everybody in a player's view list is in the world and in sight: nobody  *)
(* stays in a list after it walked away or left.                           *)
ViewsAreNear ==
    Undisturbed => \A i \in {id \in Inhabitants : IsPlayer(id)} :
        \A j \in view[clients[i]] :
            InWorld(j) /\ InSight(pos[clients[i]], pos[clients[j]])

(* What the client of a player has been told to show is its view list.     *)
ClientsShowViews ==
    Undisturbed => \A c \in Peers : link[c] = "playing" => shown[c] = view[clients[key[c]]]

(* Nobody is told of the move of a character that it does not show.        *)
MovesAreShown == Undisturbed => ~astray

(* Whoever an attack is still to try is registered, or left after the list *)
(* was copied - and then the attack is going to use a null session: no     *)
(* list that an attack copies has anybody in it who left before.           *)
AttacksFindTargets ==
    Undisturbed => \A attack \in attacks : attack.rest \subseteq Registered \cup stray

(* The first player to die, and every NPC that dies before, disappears at  *)
(* once: from the roster, from the list of each character still in the     *)
(* world, and from the screens (ENTITY_DEAD and CleanupSight).             *)
DeathHides ==
    [][Undisturbed => \A id \in dead' \ dead :
          /\ \A s \in Sectors : id \notin roster'[s]
          /\ \A i \in Inhabitants' : id \notin view'[clients[i]]
          /\ \A c \in Peers : link[c] = "playing" /\ key[c] # id
                                => id \notin shown'[c]]_vars

-----------------------------------------------------------------------------
(* What the source says of the program, and a death, or a move before the  *)
(* sign in, makes untrue.                                                  *)

(* "시야 구역에서 해당 클라이언트를 삭제": CleanupSight takes a character off  *)
(* its sector, so who died is on no roster - until its next move.          *)
DeadStayHidden ==
    \A id \in dead, s \in Sectors : id \notin roster[s]

(* "세션이 갖고 있는 시야 목록의 플레이어들에게서 캐릭터 삭제": it deletes the *)
(* character from the players of its view list, so who is no longer        *)
(* registered is in nobody's.                                              *)
DepartedAreForgotten ==
    \A i \in Registered : view[clients[i]] \subseteq Registered

=============================================================================
