# WorldServer, verified

TLA+ models of the game server of this repository (`src/WorldServer`), checked
with TLC and, for the core, proved with TLAPS. The repository is a Windows
socket server on an I/O completion port, a window client that plays in its
world (`src/WorldClient`) and a program that simulates many clients
(`src/WorldStressTest`); everything else (`Class`, `Old`, `Homeworks`,
`Practices`) is lecture samples, exercises and earlier stages of the same
program. The sources are encoded in CP949; line numbers are those of the files
as they stand.

## 1. Inventory

### The server

| Part | State | Operations | Who calls it |
|---|---|---|---|
| Accept loop (`Framework.cpp` `Listen`, `ProceedSignUp`, `FindPlaceForNewbie`, `Acquire/ReleaseNewbieID`) | `acceptOverlap`, `acceptNewbie`, `acceptCBuffer`, `orderClientIDs`: one of each for all newcomers | take a completed AcceptEx, find a free place, associate the socket with the port, first receive, register, listen again | the worker that pops a LISTEN completion |
| Registry (`RegisterPlayer`, `DeregisterPlayer`, `AcquireClientByID`) | `myClients` (id to session), `numberClients` | insert, erase, find | sign up, `Disconnect`, every handler |
| Session (`Session.cpp`) | atomics `Status`, `ID`, `Socket`; position, sector, view list; receive buffer and `recvBytes` | `SetID`.. and `Acquire/Release` pairs that load and later store, `ProceedReceived`, `RecvStream`, `TryMove`, `TryNormalAttack`, `Cleanup`, `Disconnect` | workers |
| Sights (`RegisterSight`, `UpdateSight`, `CleanupSight`, `SightManager`, `SightSector`) | sets of ids per sector, a flag per sector, view list per session | enter, follow and leave a sector; compute who sees whom; send appear, disappear and move | sign in, ENTITY_MOVE, ENTITY_DEAD, `Disconnect` |
| Posted operations (`Update`) | the completion port | ENTITY_MOVE, ENTITY_ATTACK, PLAYER_ATTACK, ENTITY_DEAD | `TryMove`, `TryNormalAttack`, PLAYER_ATTACK |
| Timer (`Server.cpp` `TimerWorker`, `Timeline.hpp`) | a locked priority queue | pop what is due and post it | nothing pushes into it |
| Worker threads (`Server.cpp`) | none | six threads call `Update` in a loop, without a lock | `BuildThreads` |

A completion (an accepted connection, received bytes, a finished send, a
failure, or an operation a worker posted) waits in the port; any worker takes
the first one and runs its handler to the end, in parallel with the others.
Sessions live in a fixed array of places and are used again; a handler finds
one by id through `myClients`, or by the pointer it already has.

### The client and the stress test

The client has one thread. Its message loop (`Main.cpp`) dispatches a window
message or, when there is none, sleeps alertably, so that the completions of its
receives and sends call back. A callback cuts packets out of the stream and
queues them in `myTasks`, and queues each packet that was sent there as well; a
timer tick (`Framework.cpp` `Update`) offers the oldest of them to the present
scene, which takes it or leaves it for later. Scenes sign in, wait for the answer
(20 s), and play. The stress test opens connections, puts the packets each
receives together again, and moves each client at random.

| Part | State | Operations |
|---|---|---|
| Client network (`Network.cpp`) | the socket, the buffers, `myProfile` | connect, send, `OnReceive`, `OnSend`, both called back |
| Client framework (`Framework.cpp`) | `myTasks`, `myState`, `myStageIterator` | `Update`, jumps between scenes |
| Scenes (`SceneMain`, `SceneLoading`, `GameScenes`) | `isCompleted`, `myLife`, the instances and the player's character | key presses, `OnNetwork`, `Update` |
| Stress test (`NetworkModule.cpp`) | for each client the two buffers and two sizes | `Worker_Thread`, `Adjust_Number_Of_Client` |

### What is hard here

* Six workers share sessions, registry, accept state and sectors without locks;
  the atomics make single loads and stores safe, not the pairs
  (`AcquireID`..`ReleaseID`, `numberClients`).
* A session found by id may be freed and given to a newcomer before the handler
  that found it is done; and what a session keeps (its place, its position, the
  bytes it counts) goes from one player to the next unless something resets it.
* A client may send a packet at any time: moves in a row, before the answer to
  the last, and moves or attacks before it signed in.
* Any socket operation may fail at once, fail later, complete at once, or stay
  pending, and each is a different path of `ProceedSignUp`.
* A stream delivers packets in pieces.
* Every path must end in `Listen` again, or the server is deaf.

What makes each part correct:

* accept loop: one newcomer at a time; ids in order, never twice; a newcomer
  dealt with, whatever happens, is followed by `Listen`;
* registry: an id registers once, names one session, and the count agrees;
* sessions: an action for an id works on the session of that id;
* sights: view lists are symmetric between handlers and hold who is in sight, clients are told
  what the lists say, every other player within sight is searched;
* stream: packets come out as they went in, however the bytes are cut;
* sector flags: whoever takes one gives it back, and each character is on one
  roster, however the workers interleave, as long as no two of them handle the
  same player;
* client: packets are handled in the order they came and none blocks the others,
  whoever is signed up plays, and the screen shows what the server told.

`PROJECT.json` lists the hazards line by line.

## 2. Modules

Each component is a module that is checked through an `MC` module, and proved
about in one that ends in `Proofs`.

1. `SessionPool` with the abstract `PlayerIds`, and `SessionPoolProofs`.
2. `SightGrid`, the index arithmetic and the search of neighbouring sectors;
   `SightWalk`, which checks it for walking characters, and `SightGridProofs`,
   whose lemmas on the geometry alone `WorldSightProofs` and `SightRaceProofs`
   use.
3. `WorldSight`, the sights with atomic handlers over the sectors of
   `SightGrid`, and `WorldSightProofs`.
4. `SightRace` and `SightRaceProofs`, the flags of the sectors, the rosters and
   the view lists, with the workers in between.
5. `ByteStream` with `RecvStream` (server) and `StressStream` (stress test),
   which both implement the abstract `PacketPipe`; `StreamProofs` holds what
   `RecvStreamProofs` and `StressStreamProofs` share.
6. `ClientScenes`, the game client, and `ClientScenesProofs`.

All safety properties of the passing runs, invariants and action properties, are
also proved for every value of the constants. Liveness stays with TLC, here
because the prover knows neither fairness nor ENABLED: `ListensAgain`,
`DeliversAll`, `AllDelivered`, `SignedUpPlays` and `ScreenCatchesUp`.

Sections 3 to 8 describe them, section 9 lists what the source says and the
code does not do, section 10 what is not modelled.

## 3. SessionPool

The life cycle of the players' sessions, one shared access per step. `pc` and
`frame` are each worker's program counter and locals; an action is named for
the function whose line it is.

| Variables | Code |
|---|---|
| `status`, `sid`, `socket` | `Session::Status`, `ID`, `Socket` of each place of `clientsPool` |
| `clients`, `numberClients`, `orderClientIDs` | `myClients` (its players: the NPCs `BuildNPCs` registers are `WorldSight`'s), their count and the next id |
| `accept`, `newbie` | the state of the one AcceptEx, the socket in `acceptNewbie` |
| `port` | the completion port, first in first out |
| `crashed` | the process dereferenced the end of the array in `FindPlaceForNewbie` |
| `pc`, `frame` | the workers |
| `peer`, `key`, `recvs`, `sent`, `closed`, `packets` | each socket: what the peer did, the completion key, receives outstanding, whether the server sent on it and closed it, packets the peer sent |

Actions: `Update` (take a completion and dispatch), `ProceedSignUp` (12 steps),
`Disconnect` (11, `Session::Cleanup` included), `ProceedReceived` with
`ProceedSignIn` (12), `ProceedEntity` (7: the posted operations and the load
and store of an id that `RegisterSight` and `UpdateSight` begin and end with),
and the peers (connect, send, leave, reset, an AcceptEx that fails). Winsock is
modelled from how the server uses it: a receive fails only on a socket that was
closed or reset; what is outstanding on a socket that dies completes as failed
(at most one send of it); a receive with data to read completes at once.

`PlayerIds` is what the accept loop promises: ids issued in order, never twice,
revoked in any order. `SessionPool` implements it with `nextId` the id the next
player will get (one more than `orderClientIDs` between the insertion and
`ReleaseNewbieID`) and `live` the domain of `clients`.

### Runs

| Run | Instance | Shows |
|---|---|---|
| `pool_safety` | 2 workers, 2 peers, 2 places | `TypeOK`, `AcceptExclusive`, `RegistrationIsFresh`, `IssuesIdsInOrder` |
| `pool_liveness` | the same with one place, fair | `ListensAgain` |
| `pool_unique_ids` | 1 worker, 2 peers | violated: a newcomer whose first receive is pending shares its id with the next |
| `pool_cleanup` | 2 workers, 2 peers | violated: the session of a newcomer is cleaned up for the player who left |

Two workers are enough for every pair of steps to interleave; two peers and two
places let one player sign up, leave or die while the other signs up into the
place. `UIntMod`
is 8 so that a wrap of `numberClients` below zero is in range, `MaxPackets` (one packet a peer) is
what bounds the port: a packet is a sign in, a move, an attack, a sign out or a
wrong one. Peers and workers are symmetric, and symmetry is not used with
liveness. `CHECK_DEADLOCK` is off because peers connect once and a crashed
process stops.

`FairSpec` gives each worker weak fairness: workers are threads of their own,
scheduled preemptively, and no step of them waits for another's.
`ListensAgain` needs no fairness of the peers.

### Proofs

`SessionPoolProofs` proves, for any sets of workers and peers and any
`UsersMax`, `FirstId`, `UIntMod` and `MaxPackets` that satisfy
`SessionPoolAssumption`:

* `TypeCorrect`: `TypeOK`. It is not inductive: a step that writes
  `status[frame[w].self]` keeps the type only because the place a worker has in
  hand is a place. `WorkersFit` says which of a worker's locals are places at
  which of its steps.
* `OneAcceptor`: `AcceptExclusive`. It is inductive with the type invariant: of
  AcceptEx, its completion and the worker in `ProceedSignUp` each step of the
  loop moves the one token on.
* `FreshRegistration` and `IssuesInOrder`: these need `IdInv`, which says that
  the id in the acceptor's hand is `orderClientIDs` until `newbie_id++`, and
  that every registered id is below the next one; `OneAcceptor` is needed
  because two acceptors would each hold an id. `IssuesInOrder` is a
  refinement: the initial states map to `PlayerIds`' and each step to `Issue`,
  `Revoke` or a stutter.

`SafeInv` is the conjunction; every action has its lemma and the temporal steps
are last. `ListensAgain` is liveness and stays with TLC.

### What it leaves out

`myClients` is an atomic map although the code races on it; what that may do is
undefined and not modelled. Positions, sectors and views are those of
`WorldSight` and `SightRace`, the bytes of packets `RecvStream`'s. The first `Listen` of `Start` has
happened. Logging and error texts are left out.

## 4. SightGrid and SightWalk

`SightGrid` is the geometry, without state: `TryMove` and its steps
(`Session.cpp`), `PickCoords` with its truncation and its clamps
(`SightManager.cpp`), `SearchedSectors`, the sectors whose rosters
`UpdateSight` takes, `InSight` and `CheckCollision`. Coordinates are whole
numbers, as they are in the program: players start at 100 and step 32, and
`SightDistance` truncates those of the NPCs, which are placed anywhere.

`SightWalk` lets two characters walk about from the place players start at.
The run `sight_walk` takes every pair of positions they can reach, 160 000, in
a world of 21 with sectors of 6 and a radius of 3: four by four sectors, with
inner ones and edges on either side, and the relations between the constants
that `SightGridAssumption` states and `Commons.hpp` has (64000, 480, 224 and a
margin of 8: the corner of a square reaches 64216, the grid 64320).

* `CornersHaveSectors`: `At` never throws. This is not what the clamp of
  `PickCoords` gives: it clamps to 2000 cells where there are 134 sectors.
* `InnerSeesAll`: away from the first row and column of sectors the search
  takes the roster of everybody in sight.
* `TouchedAreSearched` is refuted (section 9): in the first row and
  column it does not. A character at (7, 3) does not search the sector of one
  at (5, 3), while that one searches its sector; whoever moves last decides
  whether the two see each other.

`SightGridProofs` proves `InTheWorld`, `CornersHaveSectors` and `InnerSeesAll` for
a world, sectors and a radius of any size that satisfy the assumption. The
argument is about quotients (`QuotientMonotone`, `QuotientNext`): the ends of an interval no longer than a
sector have the same or neighbouring indices, so they name every index in
between (`EndsSuffice`), and a distance whose square is within that of the
radius is within it on both axes (`Within`). `InTheWorld` is the inductive
invariant: indices are in range only for positions inside the margin.

## 5. WorldSight

Who sees whom. A handler is one action, with every call it makes, except for
PLAYER_ATTACK, whose walk over its copy of the view list is one action per
session tried:

| Action | Code |
|---|---|
| `SignUp` | `ProceedSignUp` of a newcomer whose first receive completes at once |
| `SignIn` | `ProceedSignIn`, `RegisterSight`, `UpdateSight` |
| `Post` | CS_MOVE and CS_ATTACK_NONTARGET: `TryMove`, `TryNormalAttack`; neither asks whether the session signed in |
| `SignOut`, `Expel`, `Fail` | `Disconnect` with `CleanupSight` and `Session::Cleanup`, from CS_SIGNOUT, from a wrong packet, from a failed completion |
| `EntityMove`, `EntityDead` | ENTITY_MOVE and ENTITY_DEAD in `Update` |
| `AttackCopy`, `AttackNext` | PLAYER_ATTACK in `Update`: the copy of the view list, and the look-up and test of one id of it |
| `Leave`, `Reset` | the peer closes, or breaks, its connection |

| Variables | Code |
|---|---|
| `status`, `sid`, `socket`, `pos`, `area`, `view` | each place of `clientsPool`: `Status`, `ID`, `Socket`, `myPosition`, `mySightSector`, `myViewList` |
| `clients`, `orderClientIDs` | as in `SessionPool`, NPCs included |
| `roster` | `SightSector::mySight` |
| `posted` | ENTITY_MOVE, PLAYER_ATTACK and ENTITY_DEAD in the completion port |
| `attacks` | the attacks at work: the attacker's place and the ids still to be tried |
| `link`, `key` | each peer's connection and its completion key |
| `shown`, `astray` | what each client has been told to show, and whether it was told to move anything else |
| `crashed` | a null session or sector was dereferenced |
| `dead`, `rash`, `stray` | for the properties: the ids that died; whether a session moved that had not signed in; the ids that left while an attack still had to try them |

The port is a set here: six workers take from it, so that operations are
handled in any order even if they were posted in one; equal operations are one
member. What is sent to a client is applied when it is sent, since a connection
delivers in order. `UpdateSight` is written as what its two loops do to the
sets: those newly near, those that stay, those that left the radius but were
found, those found too far away, and those of the old list that were not found.

`Undisturbed` is: no player has died, and none has moved before it signed in.
While it holds, rosters follow positions (`RostersFollow`), lists are mutual
(`ViewsAreMutual`) and hold only who is in sight (`ViewsAreNear`), screens show
the lists (`ClientsShowViews`), no client is told to move what it does not show
(`MovesAreShown`), no list that an attack copies names who left before
(`AttacksFindTargets`), and whoever dies disappears at once (`DeathHides`). None
of the lists is computed from the others in the code: each is patched by
whoever moves, so a forgotten branch shows only after several steps of two
characters.

Crash freedom is not among them, because the code does not have it. Lines 356
and 357 look up each id of the copied list and dereference the session without
a test, so a Disconnect on another worker during the walk is enough, with nobody
dead. `AttacksFindTargets` says what the view lists can do about it and do: an
id that is not registered when the attack comes to it was registered when the
list was copied, and left since (`stray`). A list that kept a departed player,
as it does once a player died, would break it. The other null dereference, the
sector of a session that two Disconnects clean up (line 841), is
`SightRace`'s.

After a player dies less is true. ENTITY_DEAD hides the character from everybody,
but leaves the session registered, with its list, its socket and a client that
still plays, while `FindPlaceForNewbie` takes its place for free and `CleanupSight`
of others skips it. The next move of the dead one shows it again (lines 740 to
752), and puts it on a roster when it crosses a border (612): `DeadStayHidden` is
refuted (section 9). So is `DepartedAreForgotten`: a player who left stays in the
dead one's list, and the dead one's attack dereferences its null session.

A session that moves before it signed in is shown to others by `UpdateSight`,
and the branch of Disconnect for sessions that are not accepted (lines 1014 to
1021) skips `CleanupSight`: when it leaves, its id stays in their lists and on a
roster. That is why `Undisturbed` has `rash`.

| Run | Instance | Shows |
|---|---|---|
| `world_sight` | 2 players, 1 NPC in one of two places, 2 by 2 sectors, all directions, no attacks | `TypeOK` and all but the last two |
| `world_combat` | the same, the NPC where it can be hit, one player attacks, the other may post before it signs in, steps to the right only, one attack at a time | `AttacksFindTargets`, `DeathHides` |

Two players and an NPC are enough for each branch of `UpdateSight`, which
treats the others one by one; with steps of 2, a radius of 3 and a world of 8
characters come into sight and leave it, cross borders, and leave the sectors
the search covers. A third player would be one more of the others to each of them. The second peer
takes the place of the first when that has left. `Ways`, `Fighters`, `AttacksMax`
and `Hasty` bound the combat run, where every posted operation of either player
may wait for every other, and any handler may come between two ids of the attack;
the second player walks, dies, leaves, is expelled or reset there.
`world_sight` has nobody in `Hasty`: such a session switches its properties off.
`CHECK_DEADLOCK` is off because peers connect once.

Left out: newcomers that are refused or whose first receive is pending, and
the steps inside the other handlers, which `SessionPool` has; and what two
handlers do to one list at once, which is `SightRace`'s.

### Proofs

`WorldSightProofs` proves every property of the two runs: `WorldTypeCorrect`,
`WorldRosters`, `WorldMutual`, `WorldNear`, `WorldAttacks`, `WorldScreens`,
`WorldMoves` and `WorldDeaths`, for any peers, any number of players and NPCs,
and any world, sectors and radius that satisfy the assumptions of `WorldSight`
and `SightGrid`. `IInv` has two parts, of which the second is in two again.

`PlacesInv` holds whoever dies: NPCs keep their ids and places, a player's id
leads to a user place, ids of players are `FirstId` or more. It makes `TypeOK`
inductive.

`Alive` and `ScreensInv` hold while `Undisturbed` does. `Alive` is about the
server:

* `IdsInv`: a session found by an id has that id, so two ids never share a
  place, and the next id is new;
* `StatusInv`: who plays or is to be moved is accepted, and who is not sees
  nobody;
* `SightInv`: a session's sector is that of its position and its id is on that
  roster only; lists hold inhabitants within sight and are mutual, those of
  the NPCs included;
* `AttacksInv`: who is left in an attack's copy is registered, or is in `stray`.

`ScreensInv` adds the clients: that of a player that plays shows that player's
list, and none has been told to move what it does not show.

None of `RostersFollow`, `ViewsAreMutual` and `ViewsAreNear` is inductive
alone. `UpdateSight` finds whom the rosters of the searched sectors name, and removes
itself from those its old list names: it needs the rosters to know who is
near, and mutual lists to be forgotten by all who are not.
`UpdateViews` says what its loops leave in each list, `UpdateKeepsSight` that
this restores `SightInv`, `CleanupForgets` that a player who leaves is in no
list any more. The lists of NPCs have to be in the invariant although the
properties speak of players, and `SightInv` is where the geometry of
`SightGridProofs` enters. `DisturbedForGood` turns `Undisturbed'` into
`Undisturbed`, so a step that ends undisturbed began so. `AttacksInv` rests on
`SightInv` when the list is copied and on `stray` from then on.

Screens follow lists because a packet goes out wherever a list is written, but
the two happen in different loops: `TellShows` says what a batch of packets does
to a screen, `ScreensUpdate` that those of `UpdateSight` leave the list there,
`ScreensCleanup` that those of `CleanupSight` take the player who leaves off
everybody else's. That last one needs mutual lists: `CleanupSight` tells those in
the leaver's list, and who shows the leaver has to be among them.

`DeathHides` is about a step from an undisturbed world into one where a player
died, in which `Alive` says nothing any more; `DeathForgets` and `ScreensDeath`
therefore compute the rosters, lists and screens after ENTITY_DEAD from those
before.

## 6. SightRace

The same handlers as in `WorldSight`, one shared access per step, for the worker
threads that run them at once. `UpdateSight` says in its comments that a worker
owns a sector while it uses the roster; `SightSector::Acquire` sets `isOwned`
whether or not it was set, only `TryAcquire` looks at it, and `Release` clears it
for everybody.

| Variables | Code |
|---|---|
| `stage` | a session's `Status`, as far as it goes for one player: not yet there, signing in, accepted, disconnected |
| `pos`, `area`, `view`, `roster` | as in `WorldSight` |
| `owned` | the sectors whose `isOwned` is set |
| `pc`, `who`, `here`, `before`, `found`, `corner`, `spot`, `rest` | each worker: where it is, whose operation it handles, and the locals of `UpdateSight` |
| `alone` | for a property: the workers beside whom nobody ran since they began |

Actions: `Enter`, `Move` and `Leave` take up an operation; then `RegisterSight` in
3 steps, `UpdateSight` in 17, `Disconnect` with `CleanupSight` in 5. A call on
a roster or on a view list is one step: where two such calls overlap the program
has a data race with no outcome to speak of, so the model has the executions in
which they do not, and `RostersAreOwned` (section 9) says whether they can.
Everybody is a player who signs in once; there is no combat.

Nothing keeps two workers from handling one player: its client sends moves in a
row (`GameScenes.cpp` 257 to 285), each is posted, and it may be disconnected, even
twice, in the middle of one. The model has all of it. `mixed` is a history: the
players two of whose operations ever ran at a time. `Dereference` is what is then
left of a worker whose player has lost its sector to a `Cleanup`: the program dies
(`crashed`). A null test and the use after it are one step, with no other worker
between.

| Run | Instance | Shows |
|---|---|---|
| `race` | 2 workers, 2 players, 2 by 2 sectors, 2 moves each to the left, right or down | `FlagsReturn`, `OneRoster`, `CrashNeedsOverlap`, `LoneMoveHeals` |

* `FlagsReturn`: when no worker runs, no flag is set, unless some player is in
  `mixed`. A flag that stays set would make every `TryAcquire` of that sector fail
  from then on. It is not evident: workers clear each other's flags, and
  `ReleasePrevious` reads the sector to release from the session again. With a
  player in `mixed` it is false (`FlagsAlwaysReturn`, section 9).
* `OneRoster`: a player that no worker has in hand and that is not in `mixed` is on
  the roster of the sector its session remembers and on no other, whatever is
  done to the others, also when `TryAcquire` failed and the character stays where
  it was registered.
* `CrashNeedsOverlap`: the sector that is dereferenced as null is that of a
  player in `mixed`. Whatever races other players run, they do not kill the
  handler of one whose operations come one at a time.
* `LoneMoveHeals`: races do leave wrong sectors and one-sided sights behind
  (section 9); the next move that nothing runs beside puts right the list of the
  character that moved, and, if nobody is in `mixed`, its sector.

Two moves each let a character leave its sector and come back, and two workers
meet on every pair of steps, also with one player; with steps of 2 in sectors of
6 the two characters cross the same border at the same time, where they want each
other's sector.

Left out: a session that is disconnected while it signs in, and, as everybody
has a session of its own, a place that is given away while the handler of its
former player still runs (`SessionPool` has that).

### Proofs

`SightRaceProofs` proves all properties of the run, for any number of players and
workers, any grid and any overlap of operations: `RaceTypeCorrect`,
`RaceFlagsReturn`, `RaceOneRoster`, `RaceCrash` and `RaceHeals`.

`RaceTypeCorrect` does not depend on `mixed`: also where two workers have one player, every
step that indexes rosters or flags with a local finds a sector there. `TypeInv` adds
to the types what the workers' locals are (`SectorsInv`); where the sector of the
session itself may be null, `Dereference` is the step.

The others rest on `IInv`, the conjunction of

* `ShapeInv`: which locals are sectors at which step;
* `ExclusiveInv`: a player that two workers have is in `mixed`; nobody is handled
  before it signs in;
* `FlagInv`: while nobody is in `mixed`, every flag that is set is held by some
  worker that has yet to clear it (`Holds`);
* `RosterInv`: on which rosters a player that is not in `mixed` is at each step of
  its worker.

`FlagInv` is one-sided on purpose: a flag may be clear although a worker holds
it, since others clear it. `RaceCrash` adds `PresentInv`: who is in the world, or
handled after its registration, has a sector unless it is in `mixed`.

`LoneMoveHeals` compares the end of a handler with the world as it is then,
which only an invariant over the whole handler can. `HealInv` adds to `IInv` and
`TypeInv`, for a worker
beside whom nobody ran so far (`LoneInv`), what it has made of its player at each
step (`LoneStep`): what it found is who is registered in the sectors searched so
far, and from `compare` on its player's list differs from those in sight only by
whom it has still to look at. Nothing is asked of the other lists, nor of the
state the worker began in: the list is put together from the rosters as they
are, and `AssignSight` replaces what was there, so earlier races do not matter.

## 7. Packet streams

`PacketPipe` is what a connection promises: packets are handed over whole, once
each and in order, until it is torn, from where on nothing is promised; another
connection may follow. `ByteStream` is the sender's half of the real thing: packets
of `Sizes` are written into a stream of numbered bytes, a receive takes as many
as there are and as there is room for, and `SizeRead` is what a byte says when it
is read as the `Size` of a packet: the size if it is that byte, 0 if nothing was
ever there, anything otherwise. In front of `Size` is the pointer to the virtual
table, so it is at `SizeAt`, not at the first byte.

`StressStream` is `Worker_Thread` of the stress test: a receive starts at the
front of `IOCP_buf`, a round of the loop (`Handle`) completes a packet
(`Finish`) or keeps a part in `packet_buf` (`Keep`).

| Variables | Code |
|---|---|
| `iocp_buf`, `packet_buf`, `curr`, `prev` | `IOCP_buf`, `packet_buf`, `curr_packet_size`, `prev_packet_data` |
| `io_size`, `at` | the bytes the loop has still to do, and where it is |
| `pc`, `got` | the outstanding receive or the handler; the packets given to `ProcessPacket` |
| `torn` | for the properties: a receive ended before the `Size` of a packet |

`RecvStream` is `ProceedReceived` with `RecvStream` and `MoveStream` of the
server's session; the client's `OnReceive` is the same code. A session is a place
that players have one after the other: `Fail`, `TakeSignOut`, `TakeUnknown` and a
`Take` whose handler disconnects end a connection, and `SignUp` gives the place to
the next player with the buffer and the `recvBytes` it has. Only the default
branch clears them (`ClearRecvBuffer`, line 242): CS_SIGNOUT returns before its
packet is counted off (192 to 198, 252), a receive that fails leaves the part of a packet
that was kept, and neither `Cleanup` nor the sign-up resets anything. After a
graceful close (`Close`) the place is never free again.

| Variables | Code |
|---|---|
| `recvCBuffer`, `recvBytes` | the same |
| `begin` | `recvBuffer.buf - recvCBuffer` |
| `connected`, `pc`, `got` | the socket; the receive or the handler; the packets of the present player that were handled |
| `players` | how many players had the place |
| `torn` | for the properties: a receive ended within a packet, or the place came with bytes of its former player |

| Run | Instance | Shows |
|---|---|---|
| `stress_stream` | 4 packets of 2, 3 or 5 bytes, a buffer of 6, any cuts | `DeliversInOrder`, `DeliversAll`: it implements `PacketPipe`, liveness included |
| `recv_stream` | 2 players with 3 such packets each, any cuts | `DeliversInOrder`, `MovesInside`, `AllDelivered` |
| `recv_stream_cut` | the same, 1 player | violated: `CompletesPackets` |

A buffer of 6 holds one packet of 5 and part of the next, or up to three
packets of 2; 5 is cut in two places after its size, so a packet arrives in up
to three parts. A first player that is reset between two packets, or sends a
packet of no type, leaves the place clean, and the second is served in order; one
that signs out does not.

No cut is assumed away. The stress test puts packets together that are cut
anywhere behind their `Size`; from the first receive on that ends before it
(offset 8, as the receive limit of 255 bytes alone does) nothing is promised.
The server keeps the bytes of a partial packet at the front, the next receive
goes behind them, and `recvBuffer.buf`, where it goes, is where the next handler
begins to read: any receive that ends within a packet is the end of the promise,
and so is a place that comes with counted bytes. What happens then is in section
9; the model runs on into it, up to the first packet that is none.

Left out: another worker that disconnects the session and gives its place away
while the handler of the former player runs, which is `SessionPool`'s.

Fairness: `WF_vars(Receive \/ Handle \/ Again)`. The network delivers what was
written and the workers run; the sender need not send.

`StressStreamProofs` and `RecvStreamProofs` prove, for packets and buffers of any
size, any number of players and any cuts, `StressTypeCorrect`, `StressDelivers`,
`RecvTypeCorrect`, `RecvMovesInside` and `RecvDelivers`. The invariant says, until
the connection is torn, where in the stream every byte of every
buffer comes from: that what is kept are the first `prev` bytes of packet
`Len(got) + 1`, that the bytes still to do follow them, and that what a size is
read from is a `Size`. `StreamProofs` has the facts about the stream: packets lie
one behind the other, a byte belongs to one of them. `DeliversAll` and
`AllDelivered` are liveness and stay with TLC.

## 8. ClientScenes

The game client and the connection it talks over.

| Variables | Code |
|---|---|
| `sends`, `receiving`, `calls` | the overlapped operations that are outstanding, and the completions that wait for `SleepEx` |
| `tasks` | `myTasks` |
| `stage`, `completed` | `myState` with `myStageIterator` and `SceneLoading::myLife`; `isCompleted` of each scene |
| `myID` | `myProfile.myID` |
| `drawn`, `instances`, `player` | `SceneGame`'s `myInstances`, `myLocalInstances`, `myPlayerCharacter` |
| `running` | the process has not ended by an exception |
| `link`, `wire`, `serving`, `told` | the connection, what is in flight, and what the server did and told |

| Action | Code |
|---|---|
| `Tick` | `Framework::Update`: the scene's `Update`, a jump if the scene is completed, the oldest packet to `OnNetwork` |
| `CallbackRecv`, `CallbackSend` | the completion routines, `OnReceive` and `OnSend` |
| `Connect`, `Key` | key presses in the main scene and in the game |
| `SignUp`, `Refuse`, `TellAppear`, `TellDisappear`, `TellMove` | what the server sends, as `ProceedSignIn`, `RegisterSight` and `UpdateSight` send it |
| `SendDone`, `ReceiveDone`, `Close`, `Reset` | the system and the network |

`Pop` returns a scene and moves the iterator behind it, so the iterator points
one past the scene that is shown. The first timeout of `SceneLoading` therefore
enters that scene again with a new life; the second shows the main scene, which
is still completed, so that the next tick jumps on. A late answer thus finds
`SceneLoading` again, and `SignedUpPlays` says that it is always enough.

| Run | Instance | Shows |
|---|---|---|
| `client_scenes` | 2 entities, 2 places, a life of 2 ticks, 3 packets after the sign up, 1 key | `HeadIsTaken`, `ScreenAgrees`, `CameraFollows`, `SignedUpPlays`, `ScreenCatchesUp` |

A life of 2 gives every number of timeouts before, at and after the answer, since
ticks are not bounded; three packets show, hide and show again one entity, or
show, move and hide it; one key puts a packet of the client's own between them.

`AnswerFirst` is the exception in `SignedUpPlays`: the completion of the sign-in's
send is modelled as arbitrarily late, so that the answer may be called back
before it; the main scene then holds an answer it does not take in front of the
packet it waits for. Fairness: the timer ticks (`WF` of `Tick` while the connection
is not closed), waiting completions are called back (`WF` of `CallbackRecv` and
`CallbackSend`: a loop that dispatches messages and sleeps alertably otherwise),
and the system completes what it can (`WF` of `SendDone`, `ReceiveDone`). After a
graceful close every receive completes at once with 0 bytes and its callback
posts the next, so that the alertable sleep need not return to the messages and
the timer may starve: nothing is assumed of `Tick` then, and `SignedUpPlays` and
`ScreenCatchesUp` promise nothing from the end of the connection on. Nothing is
assumed of the player or of the server. Receives hold whole packets here; partial ones are section 7's.
`CHECK_DEADLOCK` is off since the process may end.

### Proofs

`ClientScenesProofs` proves `ClientTypeCorrect`, `ClientHeads`, `ClientScreen` and
`ClientCamera` for any entities, places, numbers of packets and keys and any life
of `SceneLoading`.

The four rest on one view of the queue: `Pending` is what no scene has taken, the
tasks, then the reception that waits to be called back, then what is in flight. A
receive (`ReceiveDoneKeeps`) and its callback (`CallbackRecvKeeps`) only move the
borders between the three; a tick takes the head off (`TaskTaken`), the client's
own packets go in between (`SentBetween`), the server adds at the end, and a
reset cuts the end off (`ResetKeeps`). `IInv` consists of

* `SceneInv`, where the iterator can be in each scene and what is completed by
  then, and `AnswerInv`: from when the sign up completes `SceneLoading` until the
  game takes it, it is at the head of the tasks;
* `CallsInv`: one reception at most waits, and none while a receive is
  outstanding, without which `Pending` would have no order;
* `RequestInv` and `KeysInv`: the sign-in is in one place at most, and neither it
  nor a key is where a scene that would not take it could meet it;
* `OriginInv` and `ServerInv`: only the server's packets are in flight, and those
  about entities are behind a sign up;
* `ScreenInv`: what is visible is registered, and nothing else;
* `ToldInv` and `MovesInv`: `Pending`, applied to the screen, gives what the server
  told, and each move in it is of an entity shown by then.

`Shown` says what packets applied to a screen give by the last one about the
entity, so no recursion over `Pending` is needed. `ScreenAgrees` is `ToldInv` with
nothing pending. `HeadIsTaken` follows from where the other parts say each kind
of packet can be.

## 9. What the source says and the code does not do

Three runs are expected to violate their property: `pool_unique_ids`,
`pool_cleanup` and `recv_stream_cut`; `PROJECT.json` quotes the lines. The
modules state more of the kind. They are not among the runs; each is refuted by
TLC when the configuration named is given the property as its only one, with the
changes named:

| Property | Configuration | Changes | What happens |
|---|---|---|---|
| `SessionPool!CountIsExact` | `MCSessionPool.cfg` | none | two workers store `numberClients` from the same load: an update is lost |
| `SessionPool!ServerKeyIsTheListeners` | `MCSessionPool.cfg` | 1 worker, 3 peers, 1 place | ids are not bounded by `USERS_ID_END`: a player's socket gets the listener's key |
| `SightWalk!TouchedAreSearched` | `MCSightWalk.cfg` | none | a corner in row or column 0 is not searched |
| `SessionPool!CleanedStayFree` | `MCSessionPool.cfg` | none | `ProceedSignIn` stores the Status it loaded before a Disconnect: a cleaned place reads as accepted |
| `WorldSight!DeadStayHidden` | `MCWorldSightCombat.cfg` | none | a dead player moves, and is shown again |
| `WorldSight!DepartedAreForgotten` | `MCWorldSightCombat.cfg` | none | who left stays in the list of a dead player |
| `StressStream!CompletesPackets` | `MCStressStream.cfg` | none | a size is read from what an earlier receive left |
| `RecvStream!CleanupClears` | `MCRecvStream.cfg` | none | a player signs out, or is reset within a packet, and its bytes are counted for the next player in the place |
| `SightRace!RostersAreOwned` | `MCSightRace.cfg` | none | `Acquire` excludes nobody: two workers use one roster, one of them writing |
| `SightRace!AreaIsUpdated` | `MCSightRace.cfg` | none | `TryAcquire` fails and the character stays in its old sector |
| `SightRace!SightIsMutual` | `MCSightRace.cfg` | none | `AssignSight` overwrites what another worker has just put into the list |
| `SightRace!FlagsAlwaysReturn` | `MCSightRace.cfg` | none | a worker releases the sector that the other worker of the same player has set meanwhile; the first stays set |
| `SightRace!DepartedIsOffRosters` | `MCSightRace.cfg` | none | a move registers the player that `CleanupSight` has just removed |

`CleanupClears` matters most for players: the bytes of a sign-out stay counted in
the place, so the first packet of the next player in it seems to be followed by
another one, and whatever lies there is handled. Where that is of no known type,
the newcomer is disconnected for it. Two null dereferences contradict no line
of the source and have no property: `crashed` in `WorldSight` is reached by a
Disconnect during an attack, with nobody dead, and in `SightRace` by two
Disconnects of one player.

## 10. Not modelled

* The number of clients of the stress test. `DisconnectClient` and the measured
  delay count only for ids from 200000 on, and both are given the clients' indices,
  so the growth never reverses; what is left is a loop that opens connections.
* The timer. `TimerWorker` pops a locked queue into which nothing pushes.
* Chat: `Update` only deletes the posted operation. Scripts, ENTITY_ATTACK and
  skills: nothing loads, posts or implements them. The database scripts are run
  by hand.
* Drawing, windows, fonts and images.
* Data races proper: two overlapping calls on one `std::set` or
  `std::unordered_map` have no outcome the source defines.
* `Class`, `Old`, `Homeworks`, `Practices` and the files at the root, most of the
  lines of the repository: lecture samples with vendored headers, exercises, and
  the earlier stages that `WorldServer` and `WorldClient` replaced. Nothing in
  them is built into the programs modelled here.
