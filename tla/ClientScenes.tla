---------------------------- MODULE ClientScenes ----------------------------
(***************************************************************************)
(* The game client: one thread, whose message loop (Main.cpp) dispatches a *)
(* window message or, when there is none, sleeps so that the completions   *)
(* of its receives and sends call back.  A callback appends packets, those *)
(* received as well as those whose sending is done, to myTasks; a timer    *)
(* tick (Framework::Update) offers the oldest to the present scene, which  *)
(* takes it or leaves it there.  Receives hold whole packets, and what     *)
(* nothing reads (myLocalClients, myFailedReason, sizes) is left out.      *)
(***************************************************************************)
EXTENDS Integers, Sequences, SequencesExt

CONSTANTS
    Entities,       \* the ids the server may show
    Me,             \* the one it gives this client
    Spots,          \* positions
    Hidden,         \* of an entity that is not shown
    LifeMax,        \* the ticks SceneLoading waits (20 s of 10 ms)
    PacketsMax,     \* bound: packets the server sends after the sign up
    KeysMax         \* bound: packets the keys of the game send

ASSUME ClientScenesAssumption ==
    /\ Me \in Entities
    /\ Hidden \notin Spots
    /\ LifeMax \in Nat \ {0}
    /\ PacketsMax \in Nat /\ KeysMax \in Nat

VARIABLES
    link,           \* the connection: "none", "open", "closed", "reset"
    serving,        \* what the server made of it: "idle", "signed", "refused"
    wire,           \* packets on their way to the client
    told,           \* where the server told the client to show each entity
    sent, keys,     \* what PacketsMax and KeysMax bound
    sends,          \* packets whose WSASend is not done
    receiving,      \* whether a WSARecv is outstanding
    calls,          \* completions that wait for SleepEx
    running,        \* FALSE once the process has ended
    myID,           \* myProfile.myID
    tasks,          \* myTasks, oldest first
    stage,          \* myState, myStageIterator, and myLife of SceneLoading
    completed,      \* the scenes whose isCompleted is set
    drawn,          \* SceneGame::myInstances
    instances,      \* myLocalInstances: the index in drawn of each id, or 0
    player          \* myPlayerCharacter: an index in drawn, or 0

serverVars == <<serving, told, sent>>
sceneVars == <<tasks, stage, completed, drawn, instances, player>>
vars == <<link, wire, serverVars, keys, sends, receiving, calls, running, myID, sceneVars>>

NoId == -1

(* The scenes as Start leaves them, the last to be added last.             *)
Stages == <<"Main", "Loading", "Game">>

(* myState shows a scene; next is where myStageIterator points: behind the *)
(* scene that Pop returned, or past the end (4).                           *)
Enter(s, i, next) ==
    [scene |-> Stages[i], next |-> next,
     life |-> IF Stages[i] = "Loading" THEN LifeMax ELSE s.life]

(* Mutant: an end that is one too near.                                    *)
StopShort(s) == IF s.next < Len(Stages) THEN Enter(s, s.next, s.next + 1) ELSE s

JumpToNextScene(s) == IF s.next <= Len(Stages) THEN Enter(s, s.next, s.next + 1) ELSE s

JumpToPrevScene(s) == IF s.next # 1 THEN Enter(s, s.next - 1, s.next - 1) ELSE s

Init ==
    /\ link = "none" /\ serving = "idle"
    /\ wire = <<>>
    /\ told = [e \in Entities |-> Hidden]
    /\ sent = 0 /\ keys = 0
    /\ sends = <<>>
    /\ receiving = FALSE
    /\ calls = <<>>
    /\ running = TRUE
    /\ myID = NoId
    /\ tasks = <<>>
    /\ stage = [scene |-> "Main", next |-> 2, life |-> 0]
    /\ completed = {}
    /\ drawn = <<>>
    /\ instances = [e \in Entities |-> 0]
    /\ player = 0

-----------------------------------------------------------------------------
(* The server and the network.                                             *)

Pack(type, e, spot) == [type |-> type, id |-> e, at |-> spot]

(* ProceedLoginFailed; the server is done with this connection.            *)
Refuse ==
    /\ link = "open" /\ serving = "idle"
    /\ serving' = "refused"
    /\ wire' = Append(wire, Pack("SC_SIGNIN_FAILED", NoId, Hidden))
    /\ UNCHANGED <<link, told, sent, keys, sends, receiving, calls, running, myID, sceneVars>>

(* ProceedSignIn: the sign up is the first packet of a session.            *)
SignUp ==
    /\ link = "open" /\ serving = "idle"
    /\ serving' = "signed"
    /\ wire' = Append(wire, Pack("SC_SIGNUP", Me, Hidden))
    /\ UNCHANGED <<link, told, sent, keys, sends, receiving, calls, running, myID, sceneVars>>

(* The server shows, hides and moves entities; it shows this client's own  *)
(* character once, and never hides it (RegisterSight, UpdateSight).        *)
Tell(type, e, spot) ==
    /\ link = "open" /\ serving = "signed"
    /\ sent < PacketsMax
    /\ sent' = sent + 1
    /\ wire' = Append(wire, Pack(type, e, spot))
    /\ told' = [told EXCEPT ![e] = spot]
    /\ UNCHANGED <<link, serving, keys, sends, receiving, calls, running, myID, sceneVars>>

TellAppear ==
    \E e \in Entities, spot \in Spots :
        /\ e = Me => told[Me] = Hidden
        /\ Tell("SC_APPEAR_OBJ", e, spot)
TellDisappear == \E e \in Entities \ {Me} : Tell("SC_DISAPPEAR_OBJ", e, Hidden)
TellMove ==
    \E e \in Entities, spot \in Spots :
        told[e] # Hidden /\ Tell("SC_MOVE_OBJ", e, spot)

(* The server closes the connection, or it is reset and what was in flight *)
(* is lost with it: what was not sent has failed.                          *)
Close ==
    /\ link = "open"
    /\ link' = "closed"
    /\ UNCHANGED <<wire, serverVars, keys, sends, receiving, calls, running, myID, sceneVars>>

Reset ==
    /\ link \in {"open", "closed"}
    /\ link' = "reset"
    /\ wire' = <<>>
    /\ calls' = calls \o [i \in 1..Len(sends) |-> [call |-> "failed", packets |-> <<>>]]
    /\ sends' = <<>>
    /\ UNCHANGED <<serverVars, keys, receiving, running, myID, sceneVars>>

(* A send is done once its bytes are with the system, at the latest before *)
(* the next one is; a receive once some packets are there, or none will be.*)
SendDone ==
    /\ sends # <<>>
    /\ calls' = Append(calls, [call |-> "sent", packets |-> <<Head(sends)>>])
    /\ sends' = Tail(sends)
    /\ UNCHANGED <<link, wire, serverVars, keys, receiving, running, myID, sceneVars>>

ReceiveDone ==
    /\ receiving
    /\ \/ \E n \in 1..Len(wire) :
            /\ calls' = Append(calls, [call |-> "received", packets |-> SubSeq(wire, 1, n)])
            /\ wire' = SubSeq(wire, n + 1, Len(wire))
       \/ /\ wire = <<>> /\ link \in {"closed", "reset"}
          /\ calls' = Append(calls, [call |-> "received", packets |-> <<>>])
          /\ wire' = wire
    /\ receiving' = FALSE
    /\ UNCHANGED <<link, serverVars, keys, sends, running, myID, sceneVars>>

-----------------------------------------------------------------------------
(* What SleepEx calls back.                                                *)

Answered == "SC_SIGNUP" \in { p.type : p \in Range(Head(calls).packets) }

(* CallbackRecv, OnReceive: the id is known before the scenes see anything.*)
(* Receive is posted again even if there were no bytes; a connection that  *)
(* was reset refuses it.                                                   *)
CallbackRecv ==
    /\ running /\ calls # <<>> /\ Head(calls).call = "received"
    /\ calls' = Tail(calls)
    /\ myID' = IF Answered /\ myID = NoId THEN Me ELSE myID
    /\ tasks' = tasks \o Head(calls).packets
    /\ receiving' = (link # "reset")
    /\ UNCHANGED <<link, wire, serverVars, keys, sends, running, stage, completed,
                   drawn, instances, player>>

(* CallbackSend, OnSend: a packet that was sent is a task as well.  If it  *)
(* was not, the exception ends the process.                                *)
CallbackSend ==
    /\ running /\ calls # <<>> /\ Head(calls).call \in {"sent", "failed"}
    /\ calls' = Tail(calls)
    /\ tasks' = tasks \o Head(calls).packets
    /\ running' = (Head(calls).call = "sent")
    /\ UNCHANGED <<link, wire, serverVars, keys, sends, receiving, myID, stage, completed,
                   drawn, instances, player>>

-----------------------------------------------------------------------------
(* Window messages.                                                        *)

(* VK_RETURN in the main scene: Framework::Connect.  The socket connects   *)
(* only once; whatever fails ends the process (ErrorAbort).                *)
Connect ==
    /\ running /\ stage.scene = "Main"
    /\ \/ /\ link = "none"
          /\ link' = "open"
          /\ sends' = Append(sends, Pack("CS_SIGNIN", NoId, Hidden))
          /\ receiving' = TRUE
          /\ running' = running
       \/ /\ running' = FALSE
          /\ UNCHANGED <<link, sends, receiving>>
    /\ UNCHANGED <<wire, serverVars, keys, calls, myID, sceneVars>>

(* The keys of the game: SendMoveDir and SendAttack, whose errors nobody   *)
(* looks at.                                                               *)
Key ==
    /\ running /\ stage.scene = "Game"
    /\ link # "reset"
    /\ keys < KeysMax
    /\ keys' = keys + 1
    /\ \E type \in {"CS_MOVE", "CS_ATTACK_NONTARGET"} :
         sends' = Append(sends, Pack(type, myID, Hidden))
    /\ UNCHANGED <<link, wire, serverVars, receiving, calls, running, myID, sceneVars>>

(* Mutants: the game does not take what its own keys sent, or the answer   *)
(* that SceneLoading leaves for it.                                        *)
AcceptedButKeys ==
    [Main    |-> {"CS_SIGNIN", "CS_MOVE"},
     Loading |-> {"SC_SIGNIN_FAILED", "CS_MOVE"},
     Game    |-> {"SC_SIGNUP", "SC_APPEAR_OBJ", "SC_DISAPPEAR_OBJ", "SC_MOVE_OBJ"}]
AcceptedButAnswer ==
    [Main    |-> {"CS_SIGNIN", "CS_MOVE"},
     Loading |-> {"SC_SIGNIN_FAILED", "CS_MOVE"},
     Game    |-> {"SC_APPEAR_OBJ", "SC_DISAPPEAR_OBJ", "SC_MOVE_OBJ",
                  "CS_MOVE", "CS_ATTACK_NONTARGET"}]

(* The packets that a scene takes, and those that complete it.             *)
Accepted ==
    [Main    |-> {"CS_SIGNIN", "CS_MOVE"},
     Loading |-> {"SC_SIGNIN_FAILED", "CS_MOVE"},
     Game    |-> {"SC_SIGNUP", "SC_APPEAR_OBJ", "SC_DISAPPEAR_OBJ", "SC_MOVE_OBJ",
                  "CS_MOVE", "CS_ATTACK_NONTARGET"}]
Completes == [Main |-> {"CS_SIGNIN"}, Loading |-> {"SC_SIGNUP"}, Game |-> {}]

(* Mutant: the life may run out, and out again.                            *)
LiveTooLong(s) ==
    LET older == [s EXCEPT !.life = @ - 1]
    IN  CASE s.scene # "Loading" -> s
          [] s.scene = "Loading" /\ older.life < 0 -> JumpToPrevScene(older)
          [] OTHER -> older

(* SceneLoading::Update, the only one that does anything.                  *)
SceneUpdate(s) ==
    LET older == [s EXCEPT !.life = @ - 1]
    IN  CASE s.scene # "Loading" -> s
          [] s.scene = "Loading" /\ older.life <= 0 -> JumpToPrevScene(older)
          [] OTHER -> older

(* The part of Framework::Update before the packets.                       *)
Advance(s) ==
    LET updated == SceneUpdate(s)
    IN  IF updated.scene \in completed THEN JumpToNextScene(updated) ELSE updated

(* Mutants: follow whoever comes first; forget without hiding.             *)
AppearFollowed(p) ==
    IF instances[p.id] # 0
    THEN /\ drawn' = [drawn EXCEPT ![instances[p.id]] = [id |-> p.id, at |-> p.at, visible |-> TRUE]]
         /\ UNCHANGED <<instances, player>>
    ELSE /\ drawn' = Append(drawn, [id |-> p.id, at |-> p.at, visible |-> TRUE])
         /\ instances' = [instances EXCEPT ![p.id] = Len(drawn) + 1]
         /\ player' = IF player = 0 THEN Len(drawn) + 1 ELSE player
Forget(p) == instances' = [instances EXCEPT ![p.id] = 0] /\ UNCHANGED <<drawn, player>>

(* SceneGame::OnNetwork: what it does to the characters on the screen.     *)
Appear(p) ==
    IF instances[p.id] # 0
    THEN /\ drawn' = [drawn EXCEPT ![instances[p.id]] = [id |-> p.id, at |-> p.at, visible |-> TRUE]]
         /\ UNCHANGED <<instances, player>>
    ELSE /\ drawn' = Append(drawn, [id |-> p.id, at |-> p.at, visible |-> TRUE])
         /\ instances' = [instances EXCEPT ![p.id] = Len(drawn) + 1]
         /\ player' = IF player = 0 /\ p.id = myID THEN Len(drawn) + 1 ELSE player

Disappear(p) ==
    /\ drawn' = IF instances[p.id] = 0 THEN drawn
                ELSE [drawn EXCEPT ![instances[p.id]].visible = FALSE]
    /\ instances' = [instances EXCEPT ![p.id] = 0]
    /\ UNCHANGED player

Move(p) ==
    /\ drawn' = IF instances[p.id] = 0 THEN drawn
                ELSE [drawn EXCEPT ![instances[p.id]].at = p.at]
    /\ UNCHANGED <<instances, player>>

OnNetwork(scene, p) ==
    CASE scene = "Game" /\ p.type = "SC_APPEAR_OBJ" -> Appear(p)
      [] scene = "Game" /\ p.type = "SC_DISAPPEAR_OBJ" -> Disappear(p)
      [] scene = "Game" /\ p.type = "SC_MOVE_OBJ" -> Move(p)
      [] OTHER -> UNCHANGED <<drawn, instances, player>>

(* WM_TIMER: Framework::Update, with no packet to handle or with the oldest.*)
Tick ==
    /\ running
    /\ stage' = Advance(stage)
    /\ \/ /\ tasks = <<>>
          /\ UNCHANGED <<tasks, completed, drawn, instances, player>>
       \/ /\ tasks # <<>>
          /\ LET p == Head(tasks)
                 scene == stage'.scene
             IN  /\ OnNetwork(scene, p)
                 /\ completed' = completed \cup (IF p.type \in Completes[scene] THEN {scene} ELSE {})
                 /\ tasks' = IF p.type \in Accepted[scene] THEN Tail(tasks) ELSE tasks
    /\ UNCHANGED <<link, wire, serverVars, keys, sends, receiving, calls, running, myID>>

-----------------------------------------------------------------------------
Next ==
    \/ Refuse \/ SignUp \/ TellAppear \/ TellDisappear \/ TellMove
    \/ Close \/ Reset \/ SendDone \/ ReceiveDone
    \/ CallbackRecv \/ CallbackSend \/ Connect \/ Key \/ Tick

Spec == Init /\ [][Next]_vars

(* The loop dispatches the timer's messages and otherwise lets completions *)
(* call back; the system completes what it can.  After a graceful close    *)
(* each receive completes at once, with no bytes, and its callback posts   *)
(* the next, so that SleepEx may never return to the loop: no tick is      *)
(* promised then.                                                          *)
FairSpec ==
    /\ Spec
    /\ WF_vars(link # "closed" /\ Tick) /\ WF_vars(CallbackRecv) /\ WF_vars(CallbackSend)
    /\ WF_vars(SendDone) /\ WF_vars(ReceiveDone)

-----------------------------------------------------------------------------
Packets ==
    [type : {"SC_SIGNUP", "SC_SIGNIN_FAILED", "SC_APPEAR_OBJ", "SC_DISAPPEAR_OBJ",
             "SC_MOVE_OBJ", "CS_SIGNIN", "CS_MOVE", "CS_ATTACK_NONTARGET"},
     id : Entities \cup {NoId}, at : Spots \cup {Hidden}]

(* The type of every variable; in particular no jump leaves the stages,    *)
(* and what is registered or followed is among what is drawn.              *)
TypeOK ==
    /\ link \in {"none", "open", "closed", "reset"}
    /\ serving \in {"idle", "signed", "refused"}
    /\ wire \in Seq(Packets) /\ tasks \in Seq(Packets) /\ sends \in Seq(Packets)
    /\ told \in [Entities -> Spots \cup {Hidden}]
    /\ sent \in 0..PacketsMax /\ keys \in 0..KeysMax
    /\ receiving \in BOOLEAN /\ running \in BOOLEAN
    /\ calls \in Seq([call : {"sent", "failed", "received"}, packets : Seq(Packets)])
    /\ myID \in {Me, NoId}
    /\ stage \in [scene : Range(Stages), next : 1..4, life : 0..LifeMax]
    /\ completed \subseteq Range(Stages)
    /\ drawn \in Seq([id : Entities, at : Spots, visible : BOOLEAN])
    /\ instances \in [Entities -> 0..Len(drawn)]
    /\ player \in 0..Len(drawn)

(* No packet blocks those behind it: whatever is the oldest packet when a  *)
(* scene other than the first is shown, that scene takes it, or is done    *)
(* because of it (Framework::Update offers no other, and a scene returns   *)
(* false for all it does not name).                                        *)
HeadIsTaken ==
    LET scene == stage.scene
    IN  tasks # <<>> /\ scene # "Main" =>
            Head(tasks).type \in Accepted[scene] \cup Completes[scene]

OnScreen(e) == { d \in Range(drawn) : d.visible /\ d.id = e }

NothingPends ==
    /\ wire = <<>> /\ tasks = <<>>
    /\ \A c \in Range(calls) : c.packets = <<>>

Agrees ==
    \A e \in Entities :
        OnScreen(e) = IF told[e] = Hidden THEN {}
                      ELSE {[id |-> e, at |-> told[e], visible |-> TRUE]}

(* The screen tells what the server told: once a client in the game has    *)
(* handled all packets, each entity the server shows is drawn where the    *)
(* server last put it, and there only, and nothing else is drawn, although *)
(* SceneGame never takes an instance off its list of drawn ones.           *)
ScreenAgrees ==
    stage.scene = "Game" /\ NothingPends /\ link # "reset" => Agrees

(* The camera follows the client's own character (myPlayerCharacter): as   *)
(* soon as the server has shown that and the client has handled it, and    *)
(* never an instance that is hidden or that later packets do not move.     *)
CameraFollows ==
    /\ player # 0 => /\ drawn[player].visible /\ drawn[player].id = Me
                     /\ instances[Me] = player
    /\ instances[Me] # 0 => player # 0

(* The answer got ahead of the news that the request was sent.             *)
AnswerFirst ==
    /\ "Main" \notin completed
    /\ tasks # <<>> /\ Head(tasks).type \in {"SC_SIGNUP", "SC_SIGNIN_FAILED"}

(* A client that the server has signed up plays, however late the answer   *)
(* comes and wherever the timeout of SceneLoading has put the scenes by    *)
(* then; unless the process or the connection ends, or the main scene      *)
(* finds the answer in front of the packet it waits for.                   *)
SignedUpPlays ==
    serving = "signed" ~> (stage.scene = "Game" \/ ~running \/ link # "open" \/ AnswerFirst)

(* A client in the game catches up with the server, while it is connected. *)
ScreenCatchesUp ==
    stage.scene = "Game" ~> (Agrees \/ ~running \/ link # "open")
=============================================================================
