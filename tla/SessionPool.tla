----------------------------- MODULE SessionPool -----------------------------
(***************************************************************************)
(* The life cycle of the players' sessions in WorldServer, at the          *)
(* granularity of one shared access per step: the accept loop              *)
(* (ProceedSignUp), the registry of players (RegisterPlayer,               *)
(* DeregisterPlayer), Disconnect, Session::Cleanup, the parts of           *)
(* ProceedReceived and ProceedSignIn that touch a session's ID, Status and *)
(* Socket, and the death of a player.  Every worker runs IOCPFramework::   *)
(* Update in a loop; all of them serve one FIFO completion port, and none  *)
(* of them locks anything.                                                 *)
(*                                                                         *)
(* Left to other modules: sectors, view lists and what is sent to clients  *)
(* (WorldSight), and how packets are cut out of the stream (RecvStream).   *)
(***************************************************************************)
EXTENDS Integers, Sequences, FiniteSets

CONSTANTS
    Workers,     \* the threads started by BuildThreads
    Clients,     \* the peers that may connect; also the names of their sockets
    NoSocket,    \* NULL as a socket
    UsersMax,    \* USERS_MAX: places for players, and the limit on logins
    FirstId,     \* USERS_ID_BEGIN
    UIntMod,     \* 2^32: numberClients is an unsigned int
    MaxPackets   \* bound: packets a client sends in its life

Places == 1..UsersMax
NoPlace == 0
NoId == -1
NoKey == -2      \* a socket not yet associated with the completion port

(* serverKey is ENTITIES_MAX_NUMBER + 1, that is USERS_ID_END + 1. *)
ServerKey == FirstId + UsersMax + 1

ASSUME SessionPoolAssumption ==
    /\ UsersMax \in Nat \ {0}
    /\ FirstId \in Nat
    /\ UIntMod \in Nat /\ UIntMod > UsersMax
    /\ MaxPackets \in Nat
    /\ NoSocket \notin Clients

Statuses == {"NONE", "CONNECTED", "ACCEPTED"}

VARIABLES
    status, sid, socket,       \* the atomics of each place: Status, ID, Socket
    clients,                   \* myClients: id -> place
    numberClients,             \* the count of players, as the server believes it
    orderClientIDs,            \* the next id to give
    accept,                    \* the AcceptEx: "listening", "failed" or done ("busy")
    newbie,                    \* the socket in acceptNewbie, once a peer has it
    port,                      \* the completion port: a FIFO of completions
    crashed,                   \* the process died on undefined behaviour
    pc, frame,                 \* each worker's program counter and locals
    peer, key, recvs, sent, closed, packets   \* each socket, see TypeOK

poolVars == <<status, sid, socket>>
registryVars == <<clients, numberClients, orderClientIDs>>
acceptVars == <<accept, newbie>>
linkVars == <<peer, key, sent, closed>>
netVars == <<linkVars, recvs, packets>>
ioVars == <<acceptVars, port, crashed, netVars>>
serviceVars == <<registryVars, ioVars>>
sharedVars == <<poolVars, serviceVars>>
stateVars == <<poolVars, registryVars, acceptVars, crashed>>
workerVars == <<pc, frame>>
vars == <<sharedVars, workerVars>>

(* A worker's locals: `this` session, the session a callee works on, the   *)
(* id the handler loaded, the id a sight or attack routine loaded, the     *)
(* status or the count it loaded, and where the callee returns to.         *)
EmptyFrame == [self |-> NoPlace, target |-> NoPlace, id |-> NoId,
               seen |-> NoId, st |-> "NONE", value |-> 0, back |-> "idle"]

SignUpPCs == {"su_check", "su_scan", "su_assoc", "su_setid", "su_setsock",
              "su_setstatus", "su_recv", "su_load", "su_insert", "su_store",
              "su_release", "su_reset"}
CleanupPCs == {"cl_close", "cl_id", "cl_status", "cl_sock"}
DisconnectPCs == {"dc_id", "dc_find", "dc_accepted", "dc_connected", "dc_load",
                  "dc_erase", "dc_store"} \cup CleanupPCs
ReceivePCs == {"rx_find", "rx_parse", "rx_recv", "tm_move", "tm_attack",
               "si_id", "si_status", "si_setid", "si_send", "si_update",
               "si_store", "si_release"}
EntityPCs == {"mv_find", "at_find", "at_load", "de_find", "de_status",
              "id_load", "id_store"}
PCs == {"idle"} \cup SignUpPCs \cup DisconnectPCs \cup ReceivePCs \cup EntityPCs

Backs == {"idle", "su_release", "rx_recv", "si_update", "si_store"}

Frames == [self : Int, target : Int, id : Int, seen : Int, st : Statuses,
           value : 0..(UIntMod - 1), back : Backs]

Completion(op, k) == [op |-> op, key |-> k]
Ops == {"LISTEN", "RECV", "FAIL", "MOVE", "ATTACK", "DEAD"}

Init ==
    /\ status = [p \in Places |-> "NONE"]
    /\ sid = [p \in Places |-> NoId]
    /\ socket = [p \in Places |-> NoSocket]
    /\ clients = <<>>
    /\ numberClients = 0
    /\ orderClientIDs = FirstId
    /\ accept = "listening"
    /\ newbie = NoSocket
    /\ port = <<>>
    /\ crashed = FALSE
    /\ pc = [w \in Workers |-> "idle"]
    /\ frame = [w \in Workers |-> EmptyFrame]
    /\ peer = [c \in Clients |-> "away"]
    /\ key = [c \in Clients |-> NoKey]
    /\ recvs = [c \in Clients |-> 0]
    /\ sent = [c \in Clients |-> FALSE]
    /\ closed = [c \in Clients |-> FALSE]
    /\ packets = [c \in Clients |-> 0]

-----------------------------------------------------------------------------
(* A worker's control flow. *)

At(w, l) == ~crashed /\ pc[w] = l
Step(w, l, f) == /\ pc' = [pc EXCEPT ![w] = l]
                 /\ frame' = [frame EXCEPT ![w] = f]
Goto(w, l) == Step(w, l, frame[w])
Finish(w) == Step(w, "idle", EmptyFrame)

(* The callee returns: to the caller's next step, or out of Update. *)
Return(w) ==
    IF frame[w].back = "idle" THEN Finish(w)
    ELSE Step(w, frame[w].back, [EmptyFrame EXCEPT !.self = frame[w].self,
                                                   !.id = frame[w].id,
                                                   !.st = frame[w].st])

(* GetQueuedCompletionStatus and the dispatch of Update.  A failed         *)
(* completion leads to Disconnect unless its key is the listener's.        *)
Update(w) ==
    /\ At(w, "idle") /\ port # <<>>
    /\ port' = Tail(port)
    /\ LET c == Head(port) IN
       IF c.op = "FAIL" /\ c.key = ServerKey
       THEN UNCHANGED workerVars
       ELSE Step(w, CASE c.op = "LISTEN" -> "su_check"
                      [] c.op = "RECV"   -> "rx_find"
                      [] c.op = "FAIL"   -> "dc_find"
                      [] c.op = "MOVE"   -> "mv_find"
                      [] c.op = "ATTACK" -> "at_find"
                      [] c.op = "DEAD"   -> "de_find",
                 [EmptyFrame EXCEPT !.id = c.key])
    /\ UNCHANGED <<stateVars, netVars>>

-----------------------------------------------------------------------------
(* Sockets, as the server sees them.  A socket dies when the peer resets   *)
(* it or the server closes it; the receives outstanding on it then fail,   *)
(* and so may a send.                                                      *)

Alive(s) == s # NoSocket /\ ~closed[s] /\ peer[s] # "reset"

Failures(s) == {[i \in 1..(recvs[s] + k) |-> Completion("FAIL", key[s])] :
                  k \in IF sent[s] THEN {0, 1} ELSE {0}}

(* closesocket, on a socket or on NULL. *)
CloseSocket(s) ==
    /\ closed' = IF s = NoSocket THEN closed ELSE [closed EXCEPT ![s] = TRUE]
    /\ IF Alive(s)
       THEN /\ \E failures \in Failures(s) : port' = port \o failures
            /\ recvs' = [recvs EXCEPT ![s] = 0]
       ELSE UNCHANGED <<port, recvs>>

(* WSARecv fails at once, stays pending, or finds data or the end of the   *)
(* stream (a completion of 0 bytes, which ProceedReceived ignores).        *)
RecvFails(s) == ~Alive(s) /\ UNCHANGED <<port, recvs, packets>>
RecvPends(s) ==
    /\ Alive(s) /\ peer[s] = "open"
    /\ recvs' = [recvs EXCEPT ![s] = @ + 1]
    /\ UNCHANGED <<port, packets>>
RecvSucceeds(s) ==
    /\ Alive(s)
    /\ UNCHANGED recvs
    /\ \/ /\ peer[s] = "left"
          /\ UNCHANGED <<port, packets>>
       \/ /\ peer[s] = "open" /\ packets[s] < MaxPackets
          /\ packets' = [packets EXCEPT ![s] = @ + 1]
          /\ port' = Append(port, Completion("RECV", key[s]))

-----------------------------------------------------------------------------
(* ProceedSignUp: the LISTEN completion. *)

(* A bug to be caught: the refusal returns without listening again. *)
SignUpCheckDeaf(w) ==
    /\ At(w, "su_check")
    /\ IF UsersMax <= numberClients
       THEN Finish(w)
       ELSE Step(w, "su_scan", [frame[w] EXCEPT !.self = 1])
    /\ UNCHANGED sharedVars

(* Too many players: the newcomer is sent a refusal and forgotten. *)
SignUpCheck(w) ==
    /\ At(w, "su_check")
    /\ IF UsersMax <= numberClients
       THEN Goto(w, "su_reset")
       ELSE Step(w, "su_scan", [frame[w] EXCEPT !.self = 1])
    /\ UNCHANGED sharedVars

(* FindPlaceForNewbie reads one Status after another; with no free place   *)
(* it dereferences the end of the array: the process dies, or the garbage  *)
(* reads as a null session.                                                *)
FindPlaceForNewbie(w) ==
    /\ At(w, "su_scan")
    /\ LET p == frame[w].self IN
       \/ /\ p \in Places /\ status[p] = "NONE"
          /\ Goto(w, "su_assoc")
          /\ UNCHANGED crashed
       \/ /\ p \in Places /\ status[p] # "NONE"
          /\ Step(w, "su_scan", [frame[w] EXCEPT !.self = p + 1])
          /\ UNCHANGED crashed
       \/ /\ p \notin Places
          /\ \/ crashed' = TRUE /\ UNCHANGED workerVars
             \/ Goto(w, "su_reset") /\ UNCHANGED crashed
    /\ UNCHANGED <<poolVars, registryVars, acceptVars, port, netVars>>

(* AcquireNewbieID and CreateIoCompletionPort, which may fail. *)
Associate(w) ==
    /\ At(w, "su_assoc")
    /\ LET f == [frame[w] EXCEPT !.id = orderClientIDs] IN
       \/ /\ key' = [key EXCEPT ![newbie] = orderClientIDs]
          /\ Step(w, "su_setid", f)
          /\ UNCHANGED closed
       \/ /\ closed' = [closed EXCEPT ![newbie] = TRUE]
          /\ Step(w, "su_release", f)
          /\ UNCHANGED key
    /\ UNCHANGED <<poolVars, registryVars, acceptVars, port, crashed, peer,
                   recvs, sent, packets>>

SignUpSetID(w) ==
    /\ At(w, "su_setid") /\ Goto(w, "su_setsock")
    /\ sid' = [sid EXCEPT ![frame[w].self] = frame[w].id]
    /\ UNCHANGED <<status, socket, serviceVars>>

SignUpSetSocket(w) ==
    /\ At(w, "su_setsock") /\ Goto(w, "su_setstatus")
    /\ socket' = [socket EXCEPT ![frame[w].self] = newbie]
    /\ UNCHANGED <<status, sid, serviceVars>>

SignUpSetStatus(w) ==
    /\ At(w, "su_setstatus") /\ Goto(w, "su_recv")
    /\ status' = [status EXCEPT ![frame[w].self] = "CONNECTED"]
    /\ UNCHANGED <<sid, socket, serviceVars>>

(* session->RecvStream(): on failure the session is cleaned up again; only *)
(* a receive that succeeds at once gets the player registered.             *)
SignUpRecv(w) ==
    /\ At(w, "su_recv")
    /\ LET s == socket[frame[w].self] IN
       \/ /\ RecvFails(s)
          /\ Step(w, "cl_close", [frame[w] EXCEPT !.target = frame[w].self,
                                                  !.back = "su_release"])
       \/ RecvPends(s) /\ Goto(w, "su_release")
       \/ RecvSucceeds(s) /\ Goto(w, "su_load")
    /\ UNCHANGED <<stateVars, linkVars>>

(* RegisterPlayer: a load, an insertion (which keeps an older entry of the *)
(* same id) and a store; then newbie_id++.                                 *)
RegisterLoad(w) ==
    /\ At(w, "su_load")
    /\ Step(w, "su_insert", [frame[w] EXCEPT !.value = numberClients])
    /\ UNCHANGED sharedVars

RegisterInsert(w) ==
    /\ At(w, "su_insert") /\ Goto(w, "su_store")
    /\ LET id == frame[w].id IN
       clients' = [i \in DOMAIN clients \cup {id} |->
                        IF i \in DOMAIN clients THEN clients[i] ELSE frame[w].self]
    /\ UNCHANGED <<poolVars, numberClients, orderClientIDs, ioVars>>

(* A bug to be caught: newbie_id++ is forgotten. *)
RegisterStoreSameId(w) ==
    /\ At(w, "su_store")
    /\ Goto(w, "su_release")
    /\ numberClients' = (frame[w].value + 1) % UIntMod
    /\ UNCHANGED <<poolVars, clients, orderClientIDs, ioVars>>

RegisterStore(w) ==
    /\ At(w, "su_store")
    /\ Step(w, "su_release", [frame[w] EXCEPT !.id = @ + 1])
    /\ numberClients' = (frame[w].value + 1) % UIntMod
    /\ UNCHANGED <<poolVars, clients, orderClientIDs, ioVars>>

(* A bug to be caught: AcceptEx is called before the newcomer is served.   *)
ReleaseNewbieIDListening(w) ==
    /\ At(w, "su_release") /\ Goto(w, "su_reset")
    /\ orderClientIDs' = frame[w].id
    /\ accept' = "listening"
    /\ UNCHANGED <<poolVars, clients, numberClients, newbie, port, crashed, netVars>>

ReleaseNewbieID(w) ==
    /\ At(w, "su_release") /\ Goto(w, "su_reset")
    /\ orderClientIDs' = frame[w].id
    /\ UNCHANGED <<poolVars, clients, numberClients, ioVars>>

(* A new acceptNewbie socket, and Listen(): when AcceptEx fails, nothing   *)
(* ever calls it again.                                                    *)
Listen(w) ==
    /\ At(w, "su_reset") /\ Finish(w)
    /\ newbie' = NoSocket
    /\ accept' \in {"listening", "failed"}
    /\ UNCHANGED <<poolVars, registryVars, port, crashed, netVars>>

ProceedSignUp(w) ==
    \/ SignUpCheck(w)     \/ FindPlaceForNewbie(w) \/ Associate(w)
    \/ SignUpSetID(w)     \/ SignUpSetSocket(w)    \/ SignUpSetStatus(w)
    \/ SignUpRecv(w)      \/ RegisterLoad(w)       \/ RegisterInsert(w)
    \/ RegisterStore(w)   \/ ReleaseNewbieID(w)    \/ Listen(w)

-----------------------------------------------------------------------------
(* Disconnect(id), reached from a failed completion or from a session.  It *)
(* ends in Cleanup; CleanupSight, between the two, is left to WorldSight.  *)

(* Session::Disconnect passes on the session's present ID. *)
SessionDisconnect(w) ==
    /\ At(w, "dc_id")
    /\ Step(w, "dc_find", [frame[w] EXCEPT !.id = sid[frame[w].self]])
    /\ UNCHANGED sharedVars

(* AcquireClientByID *)
DisconnectFind(w) ==
    /\ At(w, "dc_find")
    /\ IF frame[w].id \in DOMAIN clients
       THEN Step(w, "dc_accepted", [frame[w] EXCEPT !.target = clients[frame[w].id]])
       ELSE Return(w)
    /\ UNCHANGED sharedVars

(* IsAccepted, else IsConnected: two reads of Status. *)
DisconnectTestAccepted(w) ==
    /\ At(w, "dc_accepted")
    /\ Goto(w, IF status[frame[w].target] = "ACCEPTED" THEN "dc_load"
               ELSE "dc_connected")
    /\ UNCHANGED sharedVars

DisconnectTestConnected(w) ==
    /\ At(w, "dc_connected")
    /\ IF status[frame[w].target] # "NONE"
       THEN Goto(w, "dc_load")
       ELSE Return(w)
    /\ UNCHANGED sharedVars

(* DeregisterPlayer: a load, an erasure and a store.  value - 1 wraps.     *)
DeregisterLoad(w) ==
    /\ At(w, "dc_load")
    /\ Step(w, "dc_erase", [frame[w] EXCEPT !.value = numberClients])
    /\ UNCHANGED sharedVars

(* A bug to be caught: the id of the player who left is given again.       *)
DeregisterEraseRecycling(w) ==
    /\ At(w, "dc_erase") /\ Goto(w, "dc_store")
    /\ clients' = [i \in DOMAIN clients \ {frame[w].id} |-> clients[i]]
    /\ orderClientIDs' = frame[w].id
    /\ UNCHANGED <<poolVars, numberClients, ioVars>>

DeregisterErase(w) ==
    /\ At(w, "dc_erase") /\ Goto(w, "dc_store")
    /\ clients' = [i \in DOMAIN clients \ {frame[w].id} |-> clients[i]]
    /\ UNCHANGED <<poolVars, numberClients, orderClientIDs, ioVars>>

(* A bug to be caught: the count is not an unsigned int. *)
DeregisterStoreSigned(w) ==
    /\ At(w, "dc_store") /\ Goto(w, "cl_close")
    /\ numberClients' = frame[w].value - 1
    /\ UNCHANGED <<poolVars, clients, orderClientIDs, ioVars>>

DeregisterStore(w) ==
    /\ At(w, "dc_store") /\ Goto(w, "cl_close")
    /\ numberClients' = (frame[w].value - 1) % UIntMod
    /\ UNCHANGED <<poolVars, clients, orderClientIDs, ioVars>>

(* Session::Cleanup: Status becomes NONE before Socket becomes NULL. *)
CleanupClose(w) ==
    /\ At(w, "cl_close") /\ Goto(w, "cl_id")
    /\ CloseSocket(socket[frame[w].target])
    /\ UNCHANGED <<stateVars, peer, key, sent, packets>>

CleanupID(w) ==
    /\ At(w, "cl_id") /\ Goto(w, "cl_status")
    /\ sid' = [sid EXCEPT ![frame[w].target] = NoId]
    /\ UNCHANGED <<status, socket, serviceVars>>

CleanupStatus(w) ==
    /\ At(w, "cl_status") /\ Goto(w, "cl_sock")
    /\ status' = [status EXCEPT ![frame[w].target] = "NONE"]
    /\ UNCHANGED <<sid, socket, serviceVars>>

CleanupSocket(w) ==
    /\ At(w, "cl_sock") /\ Return(w)
    /\ socket' = [socket EXCEPT ![frame[w].target] = NoSocket]
    /\ UNCHANGED <<status, sid, serviceVars>>

Disconnect(w) ==
    \/ SessionDisconnect(w)       \/ DisconnectFind(w)
    \/ DisconnectTestAccepted(w)  \/ DisconnectTestConnected(w)
    \/ DeregisterLoad(w) \/ DeregisterErase(w) \/ DeregisterStore(w)
    \/ CleanupClose(w) \/ CleanupID(w) \/ CleanupStatus(w) \/ CleanupSocket(w)

-----------------------------------------------------------------------------
(* ProceedReceived, on the session found by the completion's key, which    *)
(* need not be the one whose socket received.  One packet per completion.  *)

ReceiveFind(w) ==
    /\ At(w, "rx_find")
    /\ IF frame[w].id \in DOMAIN clients
       THEN Step(w, "rx_parse", [frame[w] EXCEPT !.self = clients[frame[w].id]])
       ELSE Finish(w)
    /\ UNCHANGED sharedVars

(* Any packet may come: nothing complete yet, a chat message or one whose  *)
(* claimed id is wrong (nothing happens), a sign-in, a sign-out, a move,   *)
(* an attack, or garbage.                                                  *)
Parse(w) ==
    /\ At(w, "rx_parse")
    /\ LET st == status[frame[w].self]
           Call(label, back) == Step(w, label, [frame[w] EXCEPT !.back = back])
       IN \/ Goto(w, "rx_recv")
          \/ st = "ACCEPTED" /\ Call("dc_id", "rx_recv")   \* CS_SIGNIN
          \/ st # "ACCEPTED" /\ Goto(w, "si_id")           \* CS_SIGNIN
          \/ st = "ACCEPTED" /\ Call("dc_id", "idle")      \* CS_SIGNOUT
          \/ Goto(w, "tm_move")                            \* CS_MOVE
          \/ Goto(w, "tm_attack")                          \* CS_ATTACK_NONTARGET
          \/ Call("dc_id", "idle")                         \* default
    /\ UNCHANGED sharedVars

(* TryMove and TryNormalAttack load the ID, post the operation under it,   *)
(* and store the ID back.                                                  *)
TryOperation(w, label, op) ==
    /\ At(w, label)
    /\ LET my_id == sid[frame[w].self] IN
       /\ port' = Append(port, Completion(op, my_id))
       /\ Step(w, "id_store", [frame[w] EXCEPT !.seen = my_id, !.back = "rx_recv",
                                               !.target = frame[w].self])
    /\ UNCHANGED <<stateVars, netVars>>

(* RecvStream(recvBytes): on failure, Disconnect and return. *)
ReceiveAgain(w) ==
    /\ At(w, "rx_recv")
    /\ LET s == socket[frame[w].self] IN
       \/ RecvFails(s) /\ Step(w, "dc_id", [frame[w] EXCEPT !.back = "idle"])
       \/ (RecvPends(s) \/ RecvSucceeds(s)) /\ Finish(w)
    /\ UNCHANGED <<stateVars, linkVars>>

(* ProceedSignIn: loads of ID and Status, and, long after, their stores,   *)
(* whatever happened to the session meanwhile.                             *)
SignInLoadID(w) ==
    /\ At(w, "si_id")
    /\ Step(w, "si_status", [frame[w] EXCEPT !.id = sid[frame[w].self]])
    /\ UNCHANGED sharedVars

SignInLoadStatus(w) ==
    /\ At(w, "si_status")
    /\ LET st == status[frame[w].self] IN
       Step(w, IF st = "CONNECTED" THEN "si_setid" ELSE "si_store",
            [frame[w] EXCEPT !.st = st])
    /\ UNCHANGED sharedVars

SignInSetID(w) ==
    /\ At(w, "si_setid") /\ Goto(w, "si_send")
    /\ sid' = [sid EXCEPT ![frame[w].self] = frame[w].id]
    /\ UNCHANGED <<status, socket, serviceVars>>

(* SCPacketSignUp, then InitializeSight: RegisterSight and UpdateSight,    *)
(* each of which loads the ID at its start and stores it at its end.       *)
SignInSend(w) ==
    /\ At(w, "si_send")
    /\ Step(w, "id_load", [frame[w] EXCEPT !.target = frame[w].self,
                                           !.back = "si_update"])
    /\ LET s == socket[frame[w].self] IN
       sent' = IF Alive(s) THEN [sent EXCEPT ![s] = TRUE] ELSE sent
    /\ UNCHANGED <<poolVars, registryVars, acceptVars, port, crashed, peer, key,
                   recvs, closed, packets>>

SignInUpdateSight(w) ==
    /\ At(w, "si_update")
    /\ Step(w, "id_load", [frame[w] EXCEPT !.target = frame[w].self,
                                           !.st = "ACCEPTED", !.back = "si_store"])
    /\ UNCHANGED sharedVars

SignInReleaseStatus(w) ==
    /\ At(w, "si_store") /\ Goto(w, "si_release")
    /\ status' = [status EXCEPT ![frame[w].self] = frame[w].st]
    /\ UNCHANGED <<sid, socket, serviceVars>>

SignInReleaseID(w) ==
    /\ At(w, "si_release") /\ Goto(w, "rx_recv")
    /\ sid' = [sid EXCEPT ![frame[w].self] = frame[w].id]
    /\ UNCHANGED <<status, socket, serviceVars>>

ProceedReceived(w) ==
    \/ ReceiveFind(w) \/ Parse(w) \/ ReceiveAgain(w)
    \/ TryOperation(w, "tm_move", "MOVE") \/ TryOperation(w, "tm_attack", "ATTACK")
    \/ SignInLoadID(w) \/ SignInLoadStatus(w) \/ SignInSetID(w) \/ SignInSend(w)
    \/ SignInUpdateSight(w) \/ SignInReleaseStatus(w) \/ SignInReleaseID(w)

-----------------------------------------------------------------------------
(* The posted operations.  What they do to positions and sights is left to *)
(* WorldSight; here they find a session by id, and load and store its ID.  *)

LoadID(w) ==
    /\ At(w, "id_load")
    /\ Step(w, "id_store", [frame[w] EXCEPT !.seen = sid[frame[w].target]])
    /\ UNCHANGED sharedVars

StoreID(w) ==
    /\ At(w, "id_store") /\ Return(w)
    /\ sid' = [sid EXCEPT ![frame[w].target] = frame[w].seen]
    /\ UNCHANGED <<status, socket, serviceVars>>

(* ENTITY_MOVE: UpdateSight only if the character moved. *)
EntityMove(w) ==
    /\ At(w, "mv_find")
    /\ \/ /\ frame[w].id \in DOMAIN clients
          /\ Step(w, "id_load", [frame[w] EXCEPT !.target = clients[frame[w].id]])
       \/ Finish(w)
    /\ UNCHANGED sharedVars

(* PLAYER_ATTACK, on one registered player the attacker sees, or on none.  *)
(* (That a player it sees may be gone by now is left to WorldSight.)       *)
PlayerAttack(w) ==
    /\ At(w, "at_find")
    /\ \/ \E victim \in DOMAIN clients \ {frame[w].id} :
            /\ frame[w].id \in DOMAIN clients
            /\ Step(w, "at_load", [frame[w] EXCEPT !.target = clients[victim]])
       \/ Finish(w)
    /\ UNCHANGED sharedVars

(* other->AcquireID(), and the post of ENTITY_DEAD if the boxes collide. *)
PlayerAttackLoad(w) ==
    /\ At(w, "at_load")
    /\ LET other_id == sid[frame[w].target] IN
       /\ Step(w, "id_store", [frame[w] EXCEPT !.seen = other_id])
       /\ \/ port' = Append(port, Completion("DEAD", other_id))
          \/ UNCHANGED port
    /\ UNCHANGED <<stateVars, netVars>>

(* ENTITY_DEAD: the session is marked free but stays registered, with its  *)
(* ID and its socket.                                                      *)
EntityDead(w) ==
    /\ At(w, "de_find")
    /\ IF frame[w].id \in DOMAIN clients
       THEN Step(w, "de_status", [frame[w] EXCEPT !.target = clients[frame[w].id]])
       ELSE Finish(w)
    /\ UNCHANGED sharedVars

EntityDeadStatus(w) ==
    /\ At(w, "de_status") /\ Finish(w)
    /\ status' = [status EXCEPT ![frame[w].target] = "NONE"]
    /\ UNCHANGED <<sid, socket, serviceVars>>

ProceedEntity(w) ==
    \/ LoadID(w) \/ StoreID(w) \/ EntityMove(w) \/ PlayerAttack(w)
    \/ PlayerAttackLoad(w) \/ EntityDead(w) \/ EntityDeadStatus(w)

-----------------------------------------------------------------------------
(* The peers. *)

(* A connection completes the outstanding AcceptEx. *)
Connect(c) ==
    /\ ~crashed /\ accept = "listening" /\ peer[c] = "away"
    /\ peer' = [peer EXCEPT ![c] = "open"]
    /\ newbie' = c
    /\ accept' = "busy"
    /\ port' = Append(port, Completion("LISTEN", ServerKey))
    /\ UNCHANGED <<poolVars, registryVars, crashed, workerVars, key, recvs, sent,
                   closed, packets>>

(* AcceptEx fails (the peer went away in the backlog): a failed completion *)
(* under the listener's key.                                               *)
AcceptFails ==
    /\ ~crashed /\ accept = "listening"
    /\ accept' = "failed"
    /\ port' = Append(port, Completion("FAIL", ServerKey))
    /\ UNCHANGED <<poolVars, registryVars, newbie, crashed, workerVars, netVars>>

(* Data completes an outstanding receive. *)
Send(c) ==
    /\ ~crashed /\ peer[c] = "open" /\ recvs[c] > 0 /\ packets[c] < MaxPackets
    /\ recvs' = [recvs EXCEPT ![c] = @ - 1]
    /\ packets' = [packets EXCEPT ![c] = @ + 1]
    /\ port' = Append(port, Completion("RECV", key[c]))
    /\ UNCHANGED <<stateVars, workerVars, linkVars>>

(* A graceful end of stream: receives complete with 0 bytes, and Proceed-  *)
(* Received returns without a word to anyone.                              *)
Leave(c) ==
    /\ ~crashed /\ peer[c] = "open"
    /\ peer' = [peer EXCEPT ![c] = "left"]
    /\ recvs' = [recvs EXCEPT ![c] = 0]
    /\ UNCHANGED <<poolVars, registryVars, acceptVars, port, crashed, pc, frame,
                   key, sent, closed, packets>>

(* A reset: what was outstanding on the socket fails. *)
Reset(c) ==
    /\ ~crashed /\ peer[c] = "open"
    /\ peer' = [peer EXCEPT ![c] = "reset"]
    /\ IF closed[c] THEN UNCHANGED <<port, recvs>>
       ELSE /\ \E failures \in Failures(c) : port' = port \o failures
            /\ recvs' = [recvs EXCEPT ![c] = 0]
    /\ UNCHANGED <<stateVars, workerVars, key,
                   sent, closed, packets>>

Environment ==
    \/ AcceptFails
    \/ \E c \in Clients : Connect(c) \/ Send(c) \/ Leave(c) \/ Reset(c)

Worker(w) == Update(w) \/ ProceedSignUp(w) \/ Disconnect(w) \/ ProceedReceived(w)
             \/ ProceedEntity(w)

Next == Environment \/ \E w \in Workers : Worker(w)

Spec == Init /\ [][Next]_vars

(* The threads of BuildThreads are preemptively scheduled and take no lock:*)
(* each goes on taking steps.                                              *)
FairSpec == Spec /\ \A w \in Workers : WF_vars(Worker(w))

-----------------------------------------------------------------------------
(* Every variable holds a value of its type: the shape of the pool, the    *)
(* registry, the port, the workers' frames and the sockets.                *)
TypePool ==
    /\ status \in [Places -> Statuses]
    /\ sid \in [Places -> Int]
    /\ socket \in [Places -> Clients \cup {NoSocket}]
TypeRegistry ==
    /\ DOMAIN clients \subseteq Int
    /\ \A id \in DOMAIN clients : clients[id] \in Places
    /\ numberClients \in 0..(UIntMod - 1)
    /\ orderClientIDs \in Int
TypePort ==
    /\ accept \in {"listening", "busy", "failed"}
    /\ newbie \in Clients \cup {NoSocket}
    /\ port \in Seq([op : Ops, key : Int])
    /\ crashed \in BOOLEAN
TypeFrame ==
    /\ pc \in [Workers -> PCs]
    /\ frame \in [Workers -> Frames]
TypeNet ==
    /\ peer \in [Clients -> {"away", "open", "left", "reset"}]
    /\ key \in [Clients -> Int]        \* the id its completions carry
    /\ recvs \in [Clients -> Nat]      \* receives outstanding on it
    /\ sent \in [Clients -> BOOLEAN]   \* the server has sent on it
    /\ closed \in [Clients -> BOOLEAN] \* the server has closed it
    /\ packets \in [Clients -> 0..MaxPackets]   \* packets sent by the peer
TypeOK == TypePool /\ TypeRegistry /\ TypePort /\ TypeFrame /\ TypeNet

InSignUp(w) ==
    pc[w] \in SignUpPCs \/ (pc[w] \in CleanupPCs /\ frame[w].back = "su_release")

ListenCompletions == {i \in DOMAIN port : port[i].op = "LISTEN"}

(* There is one acceptOverlap, one acceptNewbie and one orderClientIDs,    *)
(* and nothing guards them: they are safe because at most one of these     *)
(* holds at any time - an AcceptEx is outstanding, its completion is       *)
(* queued, or one worker is inside ProceedSignUp - although other workers  *)
(* disconnect, clean up and register players meanwhile.                    *)
AcceptExclusive ==
    /\ \A v, w \in Workers : InSignUp(v) /\ InSignUp(w) => v = w
    /\ \A i, j \in ListenCompletions : i = j
    /\ ListenCompletions # {} => ~\E w \in Workers : InSignUp(w)
    /\ accept # "busy" => ListenCompletions = {} /\ ~\E w \in Workers : InSignUp(w)

(* RegisterPlayer ignores the result of myClients.insert: the new entry    *)
(* gets in only because the id it is called with is above every id that is *)
(* registered, however the disconnections interleave with it.              *)
RegistrationIsFresh ==
    \A w \in Workers : pc[w] \in {"su_load", "su_insert"} =>
        \A id \in DOMAIN clients : id < frame[w].id

(* The id the next player gets: the acceptor holds it in a local between   *)
(* the insertion and ReleaseNewbieID.                                      *)
Registering(w) ==
    pc[w] = "su_store" \/ (pc[w] = "su_release" /\ frame[w].id # orderClientIDs)
NextId == IF \E w \in Workers : Registering(w)
          THEN orderClientIDs + 1 ELSE orderClientIDs

(* The registry issues ids as PlayerIds says: in order, never twice.       *)
Ids == INSTANCE PlayerIds WITH nextId <- NextId, live <- DOMAIN clients
IssuesIdsInOrder == Ids!Spec

(* A connection that completed the AcceptEx is dealt with, refused or not, *)
(* and the server calls AcceptEx again - whatever the other workers do to  *)
(* the place it was given - unless the process dies.                       *)
ListensAgain ==
    accept = "busy" ~> accept \in {"listening", "failed"} \/ crashed

-----------------------------------------------------------------------------
(* What the code says of itself and does not do. *)

(* Framework.hpp:102 and its fellows call a PID the unique identifier of   *)
(* an NPC, an object or a player: two sessions in use never share one.  A  *)
(* newcomer whose first receive is pending keeps its place and its ID, but *)
(* the next newcomer is given the same ID.                                 *)
UniqueIds ==
    \A p, q \in Places : p # q /\ status[p] # "NONE" /\ status[q] # "NONE"
                           => sid[p] # sid[q]

(* Framework.cpp:1011 has Disconnect "clean the session where the original *)
(* client was": the socket that Cleanup is about to close on behalf of an  *)
(* id is the one associated with that id.                                  *)
CleansOriginalClient ==
    \A w \in Workers :
        pc[w] = "cl_close" /\ frame[w].back # "su_release" =>
            LET s == socket[frame[w].target]
            IN s # NoSocket => key[s] = frame[w].id

(* And it leaves it clean: a place without a socket is not accepted.       *)
(* ProceedSignIn stores the Status it has chosen over Cleanup's.           *)
CleanedStayFree ==
    \A p \in Places : status[p] = "ACCEPTED" => socket[p] # NoSocket

(* Commons.hpp:207 has numberClients sent as "the number of users now      *)
(* connected": with every worker idle it is the size of the registry.      *)
CountIsExact ==
    (\A w \in Workers : pc[w] = "idle") =>
        numberClients = Cardinality(DOMAIN clients)

(* Commons.hpp:354 ends the ids of users at USERS_ID_END, and the key of   *)
(* the listener lies above: no player's socket carries it.                 *)
ServerKeyIsTheListeners == \A c \in Clients : key[c] # ServerKey

=============================================================================
