-------------------------- MODULE SessionPoolProofs --------------------------
(***************************************************************************)
(* Proofs about SessionPool, for any number of workers, peers and places.  *)
(***************************************************************************)
EXTENDS SessionPool, TLAPS

SelfPCs == {"su_assoc", "su_setid", "su_setsock", "su_setstatus", "su_recv",
            "su_load", "su_insert", "dc_id"} \cup (ReceivePCs \ {"rx_find"})
TargetPCs == (DisconnectPCs \ {"dc_id", "dc_find"})
             \cup {"at_load", "de_status", "id_load", "id_store"}

(* A worker that works on a session has a place of the pool in hand, and   *)
(* only Cleanup ever returns into ProceedSignUp, which is nobody's callee. *)
Fits(l, f) ==
    /\ l \in PCs
    /\ f \in Frames
    /\ l \in SignUpPCs => f.back = "idle"
    /\ f.back = "su_release" => l \in CleanupPCs
    /\ l \in SelfPCs \/ f.back \in {"rx_recv", "si_update", "si_store"} =>
          f.self \in Places
    /\ l \in TargetPCs => f.target \in Places

WorkersFit == \A w \in Workers : Fits(pc[w], frame[w])

TypeShared == TypePool /\ TypeRegistry /\ TypePort /\ TypeNet
TypeInv == TypeShared /\ TypeFrame /\ WorkersFit

USE SessionPoolAssumption DEF NoPlace, NoId, NoKey, Places, Statuses, Ops, Backs

-----------------------------------------------------------------------------
(* What a step of one worker has to show: that its new frame fits.         *)
LEMMA StepFits ==
  ASSUME TypeFrame, WorkersFit, NEW w \in Workers, NEW l, NEW f,
         Step(w, l, f), Fits(l, f)
  PROVE  TypeFrame' /\ WorkersFit'
BY DEF TypeFrame, WorkersFit, Step, Fits

LEMMA StillFits ==
  ASSUME TypeFrame, WorkersFit, UNCHANGED workerVars
  PROVE  TypeFrame' /\ WorkersFit'
BY DEF TypeFrame, WorkersFit, workerVars, Fits

LEMMA HeadOfSeq ==
  ASSUME NEW S, NEW s \in Seq(S), s # <<>>
  PROVE  Head(s) \in S /\ Tail(s) \in Seq(S)
OBVIOUS

LEMMA TypeInit == Init => TypeInv
<1> SUFFICES ASSUME Init PROVE TypeInv
  OBVIOUS
<1>1. TypePool
  BY DEF Init, TypePool
<1>2. TypeRegistry
  BY DEF Init, TypeRegistry
<1>3. TypePort
  <2>1. port \in Seq([op : Ops, key : Int])
    BY DEF Init
  <2>2. QED
    BY <2>1 DEF Init, TypePort
<1>4. EmptyFrame \in Frames
  BY DEF EmptyFrame, Frames
<1>5. TypeFrame
  BY <1>4 DEF Init, TypeFrame, PCs
<1>6. WorkersFit
  BY <1>4 DEF Init, WorkersFit, Fits, EmptyFrame, PCs, SelfPCs, TargetPCs, ReceivePCs,
              DisconnectPCs, CleanupPCs
<1>7. TypeNet
  BY DEF Init, TypeNet
<1>8. QED
  BY <1>1, <1>2, <1>3, <1>5, <1>6, <1>7 DEF TypeInv, TypeShared

(* The sets of labels, to be expanded where a label is looked up.          *)
LEMMA ReturnFits ==
  ASSUME TypeInv, NEW w \in Workers, Return(w)
  PROVE  \E l, f : Step(w, l, f) /\ Fits(l, f)
<1> DEFINE f == [EmptyFrame EXCEPT !.self = frame[w].self, !.id = frame[w].id,
                                   !.st = frame[w].st]
<1> USE DEF SelfPCs, TargetPCs, DisconnectPCs, CleanupPCs, ReceivePCs, PCs,
            SignUpPCs
<1>1. frame[w] \in Frames /\ Fits(pc[w], frame[w])
  BY DEF TypeInv, TypeFrame, WorkersFit
<1>2. f \in Frames /\ f.self = frame[w].self /\ f.back = "idle"
  <2>1. EmptyFrame \in Frames /\ EmptyFrame.back = "idle"
    BY DEF Frames, EmptyFrame
  <2>2. frame[w].self \in Int /\ frame[w].id \in Int /\ frame[w].st \in Statuses
    BY <1>1 DEF Frames
  <2>3. QED
    BY <2>1, <2>2 DEF Frames
<1>3. CASE frame[w].back = "idle"
  <2>1. Fits("idle", EmptyFrame)
    BY DEF Fits, Frames, EmptyFrame
  <2>2. QED
    BY <1>3, <2>1 DEF Return, Finish
<1>4. CASE frame[w].back # "idle"
  <2>1. frame[w].back \in Backs \ {"idle"}
    BY <1>1, <1>4 DEF Frames
  <2>2. Step(w, frame[w].back, f)
    BY <1>4 DEF Return
  <2>3. Fits(frame[w].back, f)
    BY <1>1, <1>2, <2>1 DEF Fits
  <2>4. QED
    BY <2>2, <2>3
<1>5. QED
  BY <1>3, <1>4

LEMMA UpdateFits ==
  ASSUME TypeInv, NEW w \in Workers, Update(w)
  PROVE  TypeFrame' /\ WorkersFit'
<1> DEFINE c == Head(port)
           f == [EmptyFrame EXCEPT !.id = c.key]
<1>1. c \in [op : Ops, key : Int]
  BY HeadOfSeq DEF Update, TypeInv, TypeShared, TypePort
<1>2. CASE c.op = "FAIL" /\ c.key = ServerKey
  BY <1>2, StillFits DEF Update, TypeInv
<1>3. CASE ~(c.op = "FAIL" /\ c.key = ServerKey)
  <2>1. f \in Frames /\ f.back = "idle"
    BY <1>1 DEF Frames, EmptyFrame
  <2>2. \A l \in {"su_check", "rx_find", "dc_find", "mv_find", "at_find", "de_find"} :
           Fits(l, f)
    BY <2>1 DEF Fits, SelfPCs, TargetPCs, DisconnectPCs, CleanupPCs, ReceivePCs,
                PCs, SignUpPCs, EntityPCs
  <2>3. \E l \in {"su_check", "rx_find", "dc_find", "mv_find", "at_find", "de_find"} :
           Step(w, l, f)
    BY <1>1, <1>3 DEF Update
  <2>4. QED
    BY <2>2, <2>3, StepFits DEF TypeInv
<1>4. QED
  BY <1>2, <1>3

LEMMA WorkerFits ==
  ASSUME TypeInv, NEW w \in Workers, Worker(w)
  PROVE  TypeFrame' /\ WorkersFit'
<1> DEFINE Moves == \E l, f : Step(w, l, f) /\ Fits(l, f)
<1>1. frame[w] \in Frames /\ Fits(pc[w], frame[w])
  BY DEF TypeInv, TypeFrame, WorkersFit
<1>2. \A p \in Places : sid[p] \in Int /\ status[p] \in Statuses
  BY DEF TypeInv, TypeShared, TypePool
<1>3. /\ \A id \in DOMAIN clients : clients[id] \in Places
      /\ numberClients \in 0..(UIntMod - 1)
      /\ orderClientIDs \in Int
  BY DEF TypeInv, TypeShared, TypeRegistry
<1> USE DEF Fits, At, Goto, Frames, PCs, SelfPCs, TargetPCs, SignUpPCs,
            DisconnectPCs, CleanupPCs, ReceivePCs, EntityPCs
<1>4. ASSUME SignUpCheck(w) PROVE Moves
  BY <1>4, <1>1 DEF SignUpCheck
<1>5. ASSUME FindPlaceForNewbie(w) PROVE Moves \/ UNCHANGED workerVars
  <2>1. pc[w] = "su_scan" /\ frame[w].self \in Int
    BY <1>5, <1>1 DEF FindPlaceForNewbie
  <2>2. CASE Goto(w, "su_assoc") /\ frame[w].self \in Places
    BY <2>1, <2>2, <1>1
  <2>3. CASE Step(w, "su_scan", [frame[w] EXCEPT !.self = frame[w].self + 1])
    <3>1. [frame[w] EXCEPT !.self = frame[w].self + 1] \in Frames
      BY <2>1, <1>1
    <3>2. [frame[w] EXCEPT !.self = frame[w].self + 1].back = "idle"
      BY <2>1, <1>1
    <3>3. Fits("su_scan", [frame[w] EXCEPT !.self = frame[w].self + 1])
      BY <3>1, <3>2
    <3>4. QED
      BY <2>3, <3>3
  <2>4. CASE Goto(w, "su_reset")
    BY <2>1, <2>4, <1>1
  <2>5. QED
    BY <1>5, <2>2, <2>3, <2>4 DEF FindPlaceForNewbie
<1>6. ASSUME Associate(w) PROVE Moves
  BY <1>6, <1>1, <1>3 DEF Associate
<1>7. ASSUME SignUpSetID(w) PROVE Moves
  BY <1>7, <1>1 DEF SignUpSetID
<1>8. ASSUME SignUpSetSocket(w) PROVE Moves
  BY <1>8, <1>1 DEF SignUpSetSocket
<1>9. ASSUME SignUpSetStatus(w) PROVE Moves
  BY <1>9, <1>1 DEF SignUpSetStatus
<1>10. ASSUME SignUpRecv(w) PROVE Moves
  <2> DEFINE f == [frame[w] EXCEPT !.target = frame[w].self, !.back = "su_release"]
  <2>1. pc[w] = "su_recv" /\ frame[w].self \in Places
    BY <1>10, <1>1 DEF SignUpRecv
  <2>2. CASE Step(w, "cl_close", f)
    <3>1. f \in Frames /\ f.target \in Places /\ f.back = "su_release"
      BY <2>1, <1>1
    <3>2. Fits("cl_close", f)
      BY <3>1
    <3>3. QED
      BY <2>2, <3>2
  <2>3. CASE Goto(w, "su_release")
    BY <2>1, <2>3, <1>1
  <2>4. CASE Goto(w, "su_load")
    BY <2>1, <2>4, <1>1
  <2>5. QED
    BY <1>10, <2>2, <2>3, <2>4 DEF SignUpRecv
<1>11. ASSUME RegisterLoad(w) PROVE Moves
  BY <1>11, <1>1, <1>3 DEF RegisterLoad
<1>12. ASSUME RegisterInsert(w) PROVE Moves
  BY <1>12, <1>1 DEF RegisterInsert
<1>13. ASSUME RegisterStore(w) PROVE Moves
  BY <1>13, <1>1 DEF RegisterStore
<1>14. ASSUME ReleaseNewbieID(w) PROVE Moves
  BY <1>14, <1>1 DEF ReleaseNewbieID
<1>15. ASSUME Listen(w) PROVE Moves
  BY <1>15, <1>1 DEF Listen, Finish, EmptyFrame
<1>16. ASSUME SessionDisconnect(w) PROVE Moves
  BY <1>16, <1>1, <1>2 DEF SessionDisconnect
<1>17. ASSUME DisconnectFind(w) PROVE Moves
  BY <1>17, <1>1, <1>3, ReturnFits DEF DisconnectFind
<1>18. ASSUME DisconnectTestAccepted(w) PROVE Moves
  BY <1>18, <1>1 DEF DisconnectTestAccepted
<1>19. ASSUME DisconnectTestConnected(w) PROVE Moves
  BY <1>19, <1>1, ReturnFits DEF DisconnectTestConnected
<1>20. ASSUME DeregisterLoad(w) PROVE Moves
  BY <1>20, <1>1, <1>3 DEF DeregisterLoad
<1>21. ASSUME DeregisterErase(w) PROVE Moves
  BY <1>21, <1>1 DEF DeregisterErase
<1>22. ASSUME DeregisterStore(w) PROVE Moves
  BY <1>22, <1>1 DEF DeregisterStore
<1>23. ASSUME CleanupClose(w) PROVE Moves
  BY <1>23, <1>1 DEF CleanupClose
<1>24. ASSUME CleanupID(w) PROVE Moves
  BY <1>24, <1>1 DEF CleanupID
<1>25. ASSUME CleanupStatus(w) PROVE Moves
  BY <1>25, <1>1 DEF CleanupStatus
<1>26. ASSUME CleanupSocket(w) PROVE Moves
  BY <1>26, <1>1, ReturnFits DEF CleanupSocket
<1>27. ASSUME ReceiveFind(w) PROVE Moves
  BY <1>27, <1>1, <1>3 DEF ReceiveFind, Finish, EmptyFrame
<1>28. ASSUME Parse(w) PROVE Moves
  BY <1>28, <1>1 DEF Parse
<1>29. ASSUME ReceiveAgain(w) PROVE Moves
  BY <1>29, <1>1 DEF ReceiveAgain, Finish, EmptyFrame
<1>30. ASSUME SignInLoadID(w) PROVE Moves
  BY <1>30, <1>1, <1>2 DEF SignInLoadID
<1>31. ASSUME SignInLoadStatus(w) PROVE Moves
  BY <1>31, <1>1, <1>2 DEF SignInLoadStatus
<1>32. ASSUME SignInSetID(w) PROVE Moves
  BY <1>32, <1>1 DEF SignInSetID
<1>33. ASSUME SignInSend(w) PROVE Moves
  <2> DEFINE f == [frame[w] EXCEPT !.target = frame[w].self, !.back = "si_update"]
  <2>1. pc[w] = "si_send" /\ Step(w, "id_load", f)
    BY <1>33 DEF SignInSend
  <2>2. frame[w].self \in Places
    BY <2>1, <1>1
  <2>3. f \in Frames /\ f.self = frame[w].self /\ f.target = frame[w].self
    BY <2>2, <1>1
  <2>4. Fits("id_load", f)
    BY <2>2, <2>3
  <2>5. QED
    BY <2>1, <2>4
<1>34. ASSUME SignInUpdateSight(w) PROVE Moves
  <2> DEFINE f == [frame[w] EXCEPT !.target = frame[w].self, !.st = "ACCEPTED", !.back = "si_store"]
  <2>1. pc[w] = "si_update" /\ Step(w, "id_load", f)
    BY <1>34 DEF SignInUpdateSight
  <2>2. frame[w].self \in Places
    BY <2>1, <1>1
  <2>3. f \in Frames /\ f.self = frame[w].self /\ f.target = frame[w].self
    BY <2>2, <1>1
  <2>4. Fits("id_load", f)
    BY <2>2, <2>3
  <2>5. QED
    BY <2>1, <2>4
<1>35. ASSUME SignInReleaseStatus(w) PROVE Moves
  BY <1>35, <1>1 DEF SignInReleaseStatus
<1>36. ASSUME SignInReleaseID(w) PROVE Moves
  BY <1>36, <1>1 DEF SignInReleaseID
<1>37. ASSUME LoadID(w) PROVE Moves
  BY <1>37, <1>1, <1>2 DEF LoadID
<1>38. ASSUME StoreID(w) PROVE Moves
  BY <1>38, <1>1, ReturnFits DEF StoreID
<1>39. ASSUME EntityMove(w) PROVE Moves
  BY <1>39, <1>1, <1>3 DEF EntityMove, Finish, EmptyFrame
<1>40. ASSUME PlayerAttack(w) PROVE Moves
  <2>1. CASE Finish(w)
    BY <2>1 DEF Finish, EmptyFrame
  <2>2. ASSUME NEW victim \in DOMAIN clients,
               Step(w, "at_load", [frame[w] EXCEPT !.target = clients[victim]])
        PROVE  Moves
    <3>1. pc[w] = "at_find" /\ clients[victim] \in Places
      BY <1>40, <1>3 DEF PlayerAttack
    <3>2. Fits("at_load", [frame[w] EXCEPT !.target = clients[victim]])
      BY <3>1, <1>1
    <3>3. QED
      BY <2>2, <3>2
  <2>3. QED
    BY <1>40, <2>1, <2>2 DEF PlayerAttack
<1>41. ASSUME PlayerAttackLoad(w) PROVE Moves
  <2> DEFINE f == [frame[w] EXCEPT !.seen = sid[frame[w].target]]
  <2>1. pc[w] = "at_load" /\ Step(w, "id_store", f)
    BY <1>41 DEF PlayerAttackLoad
  <2>2. frame[w].target \in Places
    BY <2>1, <1>1
  <2>3. f \in Frames /\ f.self = frame[w].self /\ f.target = frame[w].target
        /\ f.back = frame[w].back
    BY <2>2, <1>1, <1>2
  <2>4. Fits("id_store", f)
    BY <2>1, <2>2, <2>3, <1>1
  <2>5. QED
    BY <2>1, <2>4
<1>42. ASSUME EntityDead(w) PROVE Moves
  BY <1>42, <1>1, <1>3 DEF EntityDead, Finish, EmptyFrame
<1>43. ASSUME EntityDeadStatus(w) PROVE Moves
  BY <1>43, <1>1 DEF EntityDeadStatus, Finish, EmptyFrame
<1>44. ASSUME TryOperation(w, "tm_move", "MOVE")
              \/ TryOperation(w, "tm_attack", "ATTACK")
       PROVE  Moves
  <2> DEFINE f == [frame[w] EXCEPT !.seen = sid[frame[w].self], !.back = "rx_recv",
                                   !.target = frame[w].self]
  <2>1. pc[w] \in {"tm_move", "tm_attack"} /\ Step(w, "id_store", f)
    BY <1>44 DEF TryOperation
  <2>2. frame[w].self \in Places
    BY <2>1, <1>1
  <2>3. f \in Frames /\ f.self = frame[w].self /\ f.target = frame[w].self
    BY <2>2, <1>1, <1>2
  <2>4. Fits("id_store", f)
    BY <2>2, <2>3
  <2>5. QED
    BY <2>1, <2>4
<1>45. CASE Update(w)
  BY <1>45, UpdateFits
<1>46. CASE Moves
  BY <1>46, StepFits DEF TypeInv
<1>47. CASE UNCHANGED workerVars
  BY <1>47, StillFits DEF TypeInv
<1>48. QED
  BY <1>4, <1>5, <1>6, <1>7, <1>8, <1>9, <1>10, <1>11, <1>12, <1>13, <1>14, <1>15,
     <1>16, <1>17, <1>18, <1>19, <1>20, <1>21, <1>22, <1>23, <1>24, <1>25, <1>26,
     <1>27, <1>28, <1>29, <1>30, <1>31, <1>32, <1>33, <1>34, <1>35, <1>36, <1>37,
     <1>38, <1>39, <1>40, <1>41, <1>42, <1>43, <1>44, <1>45, <1>46, <1>47
     DEF Worker, ProceedSignUp, Disconnect, ProceedReceived, ProceedEntity

-----------------------------------------------------------------------------
(* The shared variables keep their types. *)

(* What a step leaves alone keeps its type.                                *)
LEMMA Keeps ==
  ASSUME TypeShared
  PROVE  /\ UNCHANGED poolVars => TypePool'
         /\ UNCHANGED registryVars => TypeRegistry'
         /\ UNCHANGED <<acceptVars, port, crashed>> => TypePort'
         /\ UNCHANGED netVars => TypeNet'
<1> USE DEF TypeShared
<1>1. ASSUME UNCHANGED poolVars PROVE TypePool'
  BY <1>1 DEF poolVars, TypePool
<1>2. ASSUME UNCHANGED registryVars PROVE TypeRegistry'
  BY <1>2 DEF registryVars, TypeRegistry
<1>3. ASSUME UNCHANGED <<acceptVars, port, crashed>> PROVE TypePort'
  BY <1>3 DEF acceptVars, TypePort
<1>4. ASSUME UNCHANGED netVars PROVE TypeNet'
  BY <1>4 DEF netVars, linkVars, TypeNet
<1>5. QED
  BY <1>1, <1>2, <1>3, <1>4

LEMMA KeepsAll == ASSUME TypeShared, UNCHANGED sharedVars PROVE TypeShared'
BY Keeps DEF sharedVars, serviceVars, ioVars, TypeShared

LEMMA KeepsService ==
  ASSUME TypeShared, UNCHANGED serviceVars, TypePool' PROVE TypeShared'
BY Keeps DEF serviceVars, ioVars, TypeShared

LEMMA KeepsNonRegistry ==
  ASSUME TypeShared, UNCHANGED <<poolVars, ioVars>>, TypeRegistry' PROVE TypeShared'
BY Keeps DEF ioVars, TypeShared

LEMMA PortGrows ==
  ASSUME TypePort, NEW s \in Seq([op : Ops, key : Int]), port' = port \o s,
         UNCHANGED <<accept, newbie, crashed>>
  PROVE  TypePort'
<1>1. port' \in Seq([op : Ops, key : Int])
  BY DEF TypePort
<1>2. QED
  BY <1>1 DEF TypePort

LEMMA PortAppends ==
  ASSUME TypePort, NEW o \in Ops, NEW k \in Int, port' = Append(port, Completion(o, k)),
         UNCHANGED <<accept, newbie, crashed>>
  PROVE  TypePort'
<1>1. Completion(o, k) \in [op : Ops, key : Int]
  BY DEF Completion
<1>2. port' \in Seq([op : Ops, key : Int])
  BY <1>1 DEF TypePort
<1>3. QED
  BY <1>2 DEF TypePort

LEMMA FailuresType ==
  ASSUME TypeNet, NEW s \in Clients, NEW f \in Failures(s)
  PROVE  f \in Seq([op : Ops, key : Int])
<1>1. PICK n \in Nat : f = [i \in 1..n |-> Completion("FAIL", key[s])]
  BY DEF Failures, TypeNet
<1>2. Completion("FAIL", key[s]) \in [op : Ops, key : Int]
  BY DEF Completion, TypeNet
<1>3. QED
  BY <1>1, <1>2

LEMMA Count ==
  ASSUME NEW n \in Int PROVE n % UIntMod \in 0..(UIntMod - 1)
OBVIOUS

(* The outcomes of a WSARecv.                                              *)
LEMMA RecvTypes ==
  ASSUME TypePort, TypeNet, NEW s \in Clients \cup {NoSocket},
         UNCHANGED <<acceptVars, crashed, linkVars>>,
         RecvFails(s) \/ RecvPends(s) \/ RecvSucceeds(s)
  PROVE  TypePort' /\ TypeNet'
<1> USE DEF acceptVars, linkVars
<1>1. CASE RecvFails(s)
  BY <1>1 DEF RecvFails, TypePort, TypeNet
<1>2. CASE RecvPends(s)
  <2>1. s \in Clients
    BY <1>2 DEF RecvPends, Alive
  <2>2. QED
    BY <1>2, <2>1 DEF RecvPends, TypePort, TypeNet
<1>3. CASE RecvSucceeds(s)
  <2>1. s \in Clients
    BY <1>3 DEF RecvSucceeds, Alive
  <2>2. CASE UNCHANGED <<port, packets>>
    BY <1>3, <2>2 DEF RecvSucceeds, TypePort, TypeNet
  <2>3. CASE /\ packets[s] < MaxPackets
             /\ packets' = [packets EXCEPT ![s] = @ + 1]
             /\ port' = Append(port, Completion("RECV", key[s]))
    <3>1. TypePort'
      BY <2>1, <2>3, PortAppends DEF TypeNet
    <3>2. TypeNet'
      BY <1>3, <2>1, <2>3 DEF RecvSucceeds, TypeNet
    <3>3. QED
      BY <3>1, <3>2
  <2>4. QED
    BY <1>3, <2>2, <2>3 DEF RecvSucceeds
<1>4. QED
  BY <1>1, <1>2, <1>3

LEMMA CloseTypes ==
  ASSUME TypePort, TypeNet, NEW s \in Clients \cup {NoSocket}, CloseSocket(s),
         UNCHANGED <<acceptVars, crashed, peer, key, sent, packets>>
  PROVE  TypePort' /\ TypeNet'
<1>1. closed' \in [Clients -> BOOLEAN]
  BY DEF CloseSocket, TypeNet
<1>2. recvs' \in [Clients -> Nat]
  BY DEF CloseSocket, TypeNet
<1>3. TypeNet'
  BY <1>1, <1>2 DEF TypeNet
<1>4. CASE UNCHANGED port
  BY <1>3, <1>4 DEF acceptVars, TypePort
<1>5. ASSUME s \in Clients, NEW f \in Failures(s), port' = port \o f
      PROVE  TypePort'
  BY <1>5, FailuresType, PortGrows DEF acceptVars
<1>6. QED
  BY <1>3, <1>4, <1>5 DEF CloseSocket, Alive

LEMMA WorkerTypes ==
  ASSUME TypeInv, NEW w \in Workers, Worker(w)
  PROVE  TypeShared'
<1>1. frame[w] \in Frames /\ Fits(pc[w], frame[w])
  BY DEF TypeInv, TypeFrame, WorkersFit
<1>2. TypeShared
  BY DEF TypeInv
<1>3. CASE SignUpCheck(w)
  BY <1>3, <1>1, <1>2, KeepsAll DEF SignUpCheck
<1>4. CASE FindPlaceForNewbie(w)
  <2>1. TypePort'
    BY <1>4, <1>2 DEF FindPlaceForNewbie, TypeShared, TypePort, acceptVars
  <2>2. QED
    BY <1>4, <1>2, <2>1, Keeps DEF FindPlaceForNewbie, TypeShared
<1>5. CASE Associate(w)
  <2> USE DEF Associate
  <2>1. /\ key \in [Clients -> Int]
        /\ closed \in [Clients -> BOOLEAN]
        /\ orderClientIDs \in Int
    BY <1>2 DEF TypeShared, TypeRegistry, TypeNet
  <2>2. key' \in [Clients -> Int] /\ closed' \in [Clients -> BOOLEAN]
    <3>1. key' = key \/ key' = [key EXCEPT ![newbie] = orderClientIDs]
      BY <1>5
    <3>2. closed' = closed \/ closed' = [closed EXCEPT ![newbie] = TRUE]
      BY <1>5
    <3>3. key' \in [Clients -> Int]
      BY <2>1, <3>1
    <3>4. closed' \in [Clients -> BOOLEAN]
      BY <2>1, <3>2
    <3>5. QED
      BY <3>3, <3>4
  <2>3. TypeNet'
    BY <1>5, <1>2, <2>2 DEF TypeShared, TypeNet
  <2>4. QED
    BY <1>5, <1>2, <2>3, Keeps DEF TypeShared
<1>6. CASE SignUpSetID(w)
  <2>1. TypePool'
    BY <1>6, <1>1, <1>2 DEF SignUpSetID, TypeShared, TypePool, TypePort, Frames
  <2>2. QED
    BY <1>6, <1>2, <2>1, KeepsService DEF SignUpSetID
<1>7. CASE SignUpSetSocket(w)
  <2>1. TypePool'
    BY <1>7, <1>1, <1>2 DEF SignUpSetSocket, TypeShared, TypePool, TypePort, Frames
  <2>2. QED
    BY <1>7, <1>2, <2>1, KeepsService DEF SignUpSetSocket
<1>8. CASE SignUpSetStatus(w)
  <2>1. TypePool'
    BY <1>8, <1>1, <1>2 DEF SignUpSetStatus, TypeShared, TypePool, TypePort, Frames
  <2>2. QED
    BY <1>8, <1>2, <2>1, KeepsService DEF SignUpSetStatus
<1>9. CASE SignUpRecv(w)
  <2>1. socket[frame[w].self] \in Clients \cup {NoSocket}
    BY <1>9, <1>1, <1>2 DEF SignUpRecv, At, Fits, SelfPCs, ReceivePCs, TypeShared,
       TypePool
  <2>2. /\ UNCHANGED <<acceptVars, crashed, linkVars>>
        /\ \/ RecvFails(socket[frame[w].self])
           \/ RecvPends(socket[frame[w].self])
           \/ RecvSucceeds(socket[frame[w].self])
    BY <1>9 DEF SignUpRecv, stateVars
  <2>3. TypePort' /\ TypeNet'
    BY <1>2, <2>1, <2>2, RecvTypes DEF TypeShared
  <2>4. QED
    BY <1>9, <1>2, <2>3, Keeps DEF SignUpRecv, stateVars, TypeShared
<1>10. CASE RegisterLoad(w)
  BY <1>10, <1>1, <1>2, KeepsAll DEF RegisterLoad
<1>11. CASE RegisterInsert(w)
  <2>1. TypeRegistry'
    BY <1>11, <1>1, <1>2 DEF RegisterInsert, At, TypeShared, TypeRegistry, Frames,
       Fits, SelfPCs
  <2>2. QED
    BY <1>11, <1>2, <2>1, KeepsNonRegistry DEF RegisterInsert
<1>12. CASE RegisterStore(w)
  <2>1. numberClients' \in 0..(UIntMod - 1)
    BY <1>12, <1>1, Count DEF RegisterStore, Frames
  <2>2. TypeRegistry'
    BY <1>12, <1>2, <2>1 DEF RegisterStore, TypeShared, TypeRegistry
  <2>3. QED
    BY <1>12, <1>2, <2>2, KeepsNonRegistry DEF RegisterStore
<1>13. CASE ReleaseNewbieID(w)
  <2>1. TypeRegistry'
    BY <1>13, <1>1, <1>2 DEF ReleaseNewbieID, At, TypeShared, TypeRegistry, Frames,
       Fits, SelfPCs
  <2>2. QED
    BY <1>13, <1>2, <2>1, KeepsNonRegistry DEF ReleaseNewbieID
<1>14. CASE Listen(w)
  <2>1. TypePort'
    BY <1>14, <1>2 DEF Listen, TypeShared, TypePort
  <2>2. QED
    BY <1>14, <1>2, <2>1, Keeps DEF Listen, TypeShared
<1>15. CASE SessionDisconnect(w)
  BY <1>15, <1>1, <1>2, KeepsAll DEF SessionDisconnect
<1>16. CASE DisconnectFind(w)
  BY <1>16, <1>1, <1>2, KeepsAll DEF DisconnectFind
<1>17. CASE DisconnectTestAccepted(w)
  BY <1>17, <1>1, <1>2, KeepsAll DEF DisconnectTestAccepted
<1>18. CASE DisconnectTestConnected(w)
  BY <1>18, <1>1, <1>2, KeepsAll DEF DisconnectTestConnected
<1>19. CASE DeregisterLoad(w)
  BY <1>19, <1>1, <1>2, KeepsAll DEF DeregisterLoad
<1>20. CASE DeregisterErase(w)
  <2>1. TypeRegistry'
    BY <1>20, <1>1, <1>2 DEF DeregisterErase, At, TypeShared, TypeRegistry, Frames,
       Fits, SelfPCs
  <2>2. QED
    BY <1>20, <1>2, <2>1, KeepsNonRegistry DEF DeregisterErase
<1>21. CASE DeregisterStore(w)
  <2>1. numberClients' \in 0..(UIntMod - 1)
    BY <1>21, <1>1, Count DEF DeregisterStore, Frames
  <2>2. TypeRegistry'
    BY <1>21, <1>2, <2>1 DEF DeregisterStore, TypeShared, TypeRegistry
  <2>3. QED
    BY <1>21, <1>2, <2>2, KeepsNonRegistry DEF DeregisterStore
<1>22. CASE CleanupClose(w)
  <2>1. socket[frame[w].target] \in Clients \cup {NoSocket}
    BY <1>22, <1>1, <1>2 DEF CleanupClose, At, Fits, TargetPCs, DisconnectPCs,
       CleanupPCs,
                          TypeShared, TypePool
  <2>2. TypePort' /\ TypeNet'
    BY <1>22, <1>2, <2>1, CloseTypes DEF CleanupClose, stateVars, TypeShared
  <2>3. QED
    BY <1>22, <1>2, <2>2, Keeps DEF CleanupClose, stateVars, TypeShared
<1>23. CASE CleanupID(w)
  <2>1. sid' \in [Places -> Int]
    <3>1. sid \in [Places -> Int] /\ sid' = [sid EXCEPT ![frame[w].target] = NoId]
      BY <1>23, <1>2 DEF CleanupID, TypeShared, TypePool
    <3>2. NoId \in Int
      OBVIOUS
    <3>3. QED
      BY <3>1, <3>2
  <2>2. TypePool'
    BY <1>23, <1>2, <2>1 DEF CleanupID, TypeShared, TypePool
  <2>3. QED
    BY <1>23, <1>2, <2>2, KeepsService DEF CleanupID
<1>24. CASE CleanupStatus(w)
  <2>1. TypePool'
    BY <1>24, <1>1, <1>2 DEF CleanupStatus, TypeShared, TypePool, TypePort, Frames
  <2>2. QED
    BY <1>24, <1>2, <2>1, KeepsService DEF CleanupStatus
<1>25. CASE CleanupSocket(w)
  <2>1. TypePool'
    BY <1>25, <1>1, <1>2 DEF CleanupSocket, TypeShared, TypePool, TypePort, Frames
  <2>2. QED
    BY <1>25, <1>2, <2>1, KeepsService DEF CleanupSocket
<1>26. CASE ReceiveFind(w)
  BY <1>26, <1>1, <1>2, KeepsAll DEF ReceiveFind
<1>27. CASE Parse(w)
  BY <1>27, <1>1, <1>2, KeepsAll DEF Parse
<1>28. CASE ReceiveAgain(w)
  <2>1. socket[frame[w].self] \in Clients \cup {NoSocket}
    BY <1>28, <1>1, <1>2 DEF ReceiveAgain, At, Fits, SelfPCs, ReceivePCs,
       TypeShared, TypePool
  <2>2. /\ UNCHANGED <<acceptVars, crashed, linkVars>>
        /\ \/ RecvFails(socket[frame[w].self])
           \/ RecvPends(socket[frame[w].self])
           \/ RecvSucceeds(socket[frame[w].self])
    BY <1>28 DEF ReceiveAgain, stateVars
  <2>3. TypePort' /\ TypeNet'
    BY <1>2, <2>1, <2>2, RecvTypes DEF TypeShared
  <2>4. QED
    BY <1>28, <1>2, <2>3, Keeps DEF ReceiveAgain, stateVars, TypeShared
<1>29. CASE SignInLoadID(w)
  BY <1>29, <1>1, <1>2, KeepsAll DEF SignInLoadID
<1>30. CASE SignInLoadStatus(w)
  BY <1>30, <1>1, <1>2, KeepsAll DEF SignInLoadStatus
<1>31. CASE SignInSetID(w)
  <2>1. TypePool'
    BY <1>31, <1>1, <1>2 DEF SignInSetID, TypeShared, TypePool, TypePort, Frames
  <2>2. QED
    BY <1>31, <1>2, <2>1, KeepsService DEF SignInSetID
<1>32. CASE SignInSend(w)
  <2>1. TypeNet'
    BY <1>32, <1>2 DEF SignInSend, TypeShared, TypeNet
  <2>2. QED
    BY <1>32, <1>2, <2>1, Keeps DEF SignInSend, TypeShared
<1>33. CASE SignInUpdateSight(w)
  BY <1>33, <1>1, <1>2, KeepsAll DEF SignInUpdateSight
<1>34. CASE SignInReleaseStatus(w)
  <2>1. TypePool'
    BY <1>34, <1>1, <1>2 DEF SignInReleaseStatus, TypeShared, TypePool, TypePort, Frames
  <2>2. QED
    BY <1>34, <1>2, <2>1, KeepsService DEF SignInReleaseStatus
<1>35. CASE SignInReleaseID(w)
  <2>1. TypePool'
    BY <1>35, <1>1, <1>2 DEF SignInReleaseID, TypeShared, TypePool, TypePort, Frames
  <2>2. QED
    BY <1>35, <1>2, <2>1, KeepsService DEF SignInReleaseID
<1>36. CASE LoadID(w)
  BY <1>36, <1>1, <1>2, KeepsAll DEF LoadID
<1>37. CASE StoreID(w)
  <2>1. TypePool'
    BY <1>37, <1>1, <1>2 DEF StoreID, TypeShared, TypePool, TypePort, Frames
  <2>2. QED
    BY <1>37, <1>2, <2>1, KeepsService DEF StoreID
<1>38. CASE EntityMove(w)
  BY <1>38, <1>1, <1>2, KeepsAll DEF EntityMove
<1>39. CASE PlayerAttack(w)
  BY <1>39, <1>1, <1>2, KeepsAll DEF PlayerAttack
<1>40. CASE PlayerAttackLoad(w)
  <2>1. sid[frame[w].target] \in Int
    BY <1>40, <1>1, <1>2 DEF PlayerAttackLoad, At, Fits, TargetPCs, TypeShared, TypePool
  <2>2. TypePort'
    <3>1. CASE UNCHANGED port
      BY <1>40, <3>1, <1>2, Keeps DEF PlayerAttackLoad, stateVars
    <3>2. CASE port' = Append(port, Completion("DEAD", sid[frame[w].target]))
      BY <1>40, <3>2, <2>1, <1>2, PortAppends DEF PlayerAttackLoad, stateVars,
         acceptVars, TypeShared
    <3>3. QED
      BY <1>40, <3>1, <3>2 DEF PlayerAttackLoad
  <2>3. QED
    BY <1>40, <1>2, <2>2, Keeps DEF PlayerAttackLoad, stateVars, TypeShared
<1>41. CASE EntityDead(w)
  BY <1>41, <1>1, <1>2, KeepsAll DEF EntityDead
<1>42. CASE EntityDeadStatus(w)
  <2>1. TypePool'
    BY <1>42, <1>1, <1>2 DEF EntityDeadStatus, TypeShared, TypePool, TypePort, Frames
  <2>2. QED
    BY <1>42, <1>2, <2>1, KeepsService DEF EntityDeadStatus
<1>43. CASE Update(w)
  <2>1. TypePort'
    <3>1. port' \in Seq([op : Ops, key : Int])
      BY <1>43, <1>2, HeadOfSeq DEF Update, TypeShared, TypePort
    <3>2. QED
      BY <1>43, <1>2, <3>1 DEF Update, stateVars, acceptVars, TypeShared, TypePort
  <2>2. QED
    BY <1>43, <1>2, <2>1, Keeps DEF Update, stateVars, TypeShared
<1>44. ASSUME NEW l \in PCs, NEW o \in Ops, TryOperation(w, l, o),
              l \in {"tm_move", "tm_attack"}
       PROVE  TypeShared'
  <2>1. sid[frame[w].self] \in Int
    BY <1>44, <1>1, <1>2 DEF TryOperation, At, Fits, SelfPCs, ReceivePCs,
       TypeShared, TypePool
  <2>2. TypePort'
    BY <1>44, <2>1, <1>2, PortAppends DEF TryOperation, stateVars, acceptVars,
       TypeShared
  <2>3. QED
    BY <1>44, <1>2, <2>2, Keeps DEF TryOperation, stateVars, TypeShared
<1>45. "tm_move" \in PCs /\ "tm_attack" \in PCs /\ "MOVE" \in Ops /\ "ATTACK" \in Ops
  BY DEF PCs, ReceivePCs
<1>46. QED
  BY <1>3, <1>4, <1>5, <1>6, <1>7, <1>8, <1>9, <1>10, <1>11, <1>12, <1>13, <1>14,
     <1>15, <1>16, <1>17, <1>18, <1>19, <1>20, <1>21, <1>22, <1>23, <1>24, <1>25,
     <1>26, <1>27, <1>28, <1>29, <1>30, <1>31, <1>32, <1>33, <1>34, <1>35, <1>36,
     <1>37, <1>38, <1>39, <1>40, <1>41, <1>42, <1>43, <1>44, <1>45
     DEF Worker, ProceedSignUp, Disconnect, ProceedReceived, ProceedEntity

(* The peers.                                                              *)
LEMMA EnvironmentTypes ==
  ASSUME TypeInv, Environment
  PROVE  TypeInv'
<1>1. TypeShared
  BY DEF TypeInv
<1>2. CASE AcceptFails
  <2>1. Completion("FAIL", ServerKey) \in [op : Ops, key : Int]
    BY DEF Completion, ServerKey
  <2>2. port' \in Seq([op : Ops, key : Int])
    BY <1>2, <1>1, <2>1 DEF AcceptFails, TypeShared, TypePort
  <2>3. TypePort'
    BY <1>2, <1>1, <2>2 DEF AcceptFails, TypeShared, TypePort
  <2>4. TypeShared'
    BY <1>2, <1>1, <2>3, Keeps DEF AcceptFails, TypeShared
  <2>5. QED
    BY <1>2, <2>4, StillFits DEF AcceptFails, TypeInv
<1>3. ASSUME NEW c \in Clients, Connect(c) PROVE TypeInv'
  <2>1. Completion("LISTEN", ServerKey) \in [op : Ops, key : Int]
    BY DEF Completion, ServerKey
  <2>2. port' \in Seq([op : Ops, key : Int])
    BY <1>3, <1>1, <2>1 DEF Connect, TypeShared, TypePort
  <2>3. TypePort'
    BY <1>3, <1>1, <2>2 DEF Connect, TypeShared, TypePort
  <2>4. TypeNet'
    BY <1>3, <1>1 DEF Connect, TypeShared, TypeNet
  <2>5. TypeShared'
    BY <1>3, <1>1, <2>3, <2>4, Keeps DEF Connect, TypeShared
  <2>6. QED
    BY <1>3, <2>5, StillFits DEF Connect, TypeInv
<1>4. ASSUME NEW c \in Clients, Send(c) PROVE TypeInv'
  <2>1. TypePort'
    BY <1>4, <1>1, PortAppends DEF Send, stateVars, acceptVars, TypeShared, TypeNet
  <2>2. recvs[c] - 1 \in Nat /\ packets[c] + 1 \in 0..MaxPackets
    BY <1>4, <1>1 DEF Send, TypeShared, TypeNet
  <2>3. TypeNet'
    BY <1>4, <1>1, <2>2 DEF Send, linkVars, TypeShared, TypeNet
  <2>4. TypeShared'
    BY <1>4, <1>1, <2>1, <2>3, Keeps DEF Send, stateVars, TypeShared
  <2>5. QED
    BY <1>4, <2>4, StillFits DEF Send, TypeInv
<1>5. ASSUME NEW c \in Clients, Leave(c) PROVE TypeInv'
  <2>1. TypeNet'
    BY <1>5, <1>1 DEF Leave, TypeShared, TypeNet
  <2>2. TypeShared'
    BY <1>5, <1>1, <2>1, Keeps DEF Leave, TypeShared
  <2>3. QED
    BY <1>5, <2>2, StillFits DEF Leave, workerVars, TypeInv
<1>6. ASSUME NEW c \in Clients, Reset(c) PROVE TypeInv'
  <2>1. recvs' \in [Clients -> Nat]
    <3>1. recvs' = recvs \/ recvs' = [recvs EXCEPT ![c] = 0]
      BY <1>6 DEF Reset
    <3>2. recvs \in [Clients -> Nat]
      BY <1>1 DEF TypeShared, TypeNet
    <3>3. QED
      BY <3>1, <3>2
  <2>2. TypeNet'
    BY <1>6, <1>1, <2>1 DEF Reset, TypeShared, TypeNet
  <2>3. CASE UNCHANGED port
    <3>1. TypeShared'
      BY <1>6, <1>1, <2>2, <2>3, Keeps DEF Reset, stateVars, TypeShared
    <3>2. QED
      BY <1>6, <3>1, StillFits DEF Reset, TypeInv
  <2>4. ASSUME NEW failures \in Failures(c), port' = port \o failures
        PROVE  TypeInv'
    <3>1. TypePort'
      BY <1>6, <1>1, <2>4, FailuresType, PortGrows
         DEF Reset, stateVars, acceptVars, TypeShared
    <3>2. TypeShared'
      BY <1>6, <1>1, <2>2, <3>1, Keeps DEF Reset, stateVars, TypeShared
    <3>3. QED
      BY <1>6, <3>2, StillFits DEF Reset, TypeInv
  <2>5. QED
    BY <1>6, <2>3, <2>4 DEF Reset
<1>7. QED
  BY <1>2, <1>3, <1>4, <1>5, <1>6 DEF Environment

LEMMA TypeStutters == ASSUME TypeInv, UNCHANGED vars PROVE TypeInv'
BY KeepsAll, StillFits DEF vars, TypeInv

LEMMA TypeStep == ASSUME TypeInv, [Next]_vars PROVE TypeInv'
<1>1. CASE Environment
  BY <1>1, EnvironmentTypes
<1>2. ASSUME NEW w \in Workers, Worker(w) PROVE TypeInv'
  BY <1>2, WorkerFits, WorkerTypes DEF TypeInv
<1>3. CASE UNCHANGED vars
  BY <1>3, TypeStutters
<1>4. QED
  BY <1>1, <1>2, <1>3 DEF Next

(* Type correctness, whatever the workers do to one another: every         *)
(* variable of SessionPool keeps its type, and in particular no worker     *)
(* works on a session without a place of the pool in hand.                 *)
THEOREM TypeCorrect == Spec => []TypeOK
<1>1. TypeInv => TypeOK
  BY DEF TypeInv, TypeShared, TypeOK
<1>2. Spec => []TypeInv
  BY TypeInit, TypeStep, PTL DEF Spec
<1>3. QED
  BY <1>1, <1>2, PTL

-----------------------------------------------------------------------------
(* One acceptor.  Only Update lets a worker into ProceedSignUp, with the   *)
(* one LISTEN completion there is; only Connect makes a LISTEN completion, *)
(* out of the one AcceptEx that is outstanding.                            *)

LEMMA ReturnsOutside ==
  ASSUME TypeInv, NEW w \in Workers, Return(w), ~InSignUp(w)
  PROVE  ~InSignUp(w)'
<1>1. frame[w] \in Frames /\ Fits(pc[w], frame[w])
  BY DEF TypeInv, TypeFrame, WorkersFit
<1>2. frame[w].back # "su_release"
  BY <1>1 DEF Fits, InSignUp
<1>3. frame[w].back \in {"idle", "rx_recv", "si_update", "si_store"}
  BY <1>1, <1>2 DEF Frames
<1>4. \E f : Step(w, frame[w].back, f)
  BY DEF Return, Finish
<1>5. pc'[w] = frame[w].back
  BY <1>4 DEF Step, TypeInv, TypeFrame
<1>6. QED
  BY <1>3, <1>5 DEF InSignUp, SignUpPCs, CleanupPCs

(* A worker that is not dispatched stays outside ProceedSignUp.            *)
LEMMA StaysOutside ==
  ASSUME TypeInv, NEW w \in Workers, Worker(w), ~Update(w), ~InSignUp(w)
  PROVE  ~InSignUp(w)'
<1>1. frame[w] \in Frames /\ Fits(pc[w], frame[w])
  BY DEF TypeInv, TypeFrame, WorkersFit
<1>2. frame[w].back # "su_release" /\ pc[w] \notin SignUpPCs
  BY <1>1 DEF Fits, InSignUp
<1>3. ~ProceedSignUp(w)
  BY <1>2 DEF ProceedSignUp, SignUpPCs, At, SignUpCheck, FindPlaceForNewbie, Associate,
     SignUpSetID, SignUpSetSocket, SignUpSetStatus, SignUpRecv, RegisterLoad,
     RegisterInsert, RegisterStore, ReleaseNewbieID, Listen
<1>4. pc \in [Workers -> PCs] /\ frame \in [Workers -> Frames]
  BY DEF TypeInv, TypeFrame
<1>5. ASSUME NEW l, NEW f, Step(w, l, f), l \notin SignUpPCs,
             l \notin CleanupPCs \/ f.back # "su_release"
      PROVE  ~InSignUp(w)'
  BY <1>4, <1>5 DEF Step, InSignUp
<1>6. CASE Return(w)
  BY <1>6, ReturnsOutside
<1>7. CASE Finish(w)
  BY <1>7, <1>5 DEF Finish, SignUpPCs, CleanupPCs
<1>8. CASE Disconnect(w)
  <2>1. CASE SessionDisconnect(w)
    BY <2>1, <1>5 DEF SessionDisconnect, SignUpPCs, CleanupPCs
  <2>2. CASE DisconnectFind(w)
    BY <2>2, <1>5, <1>6 DEF DisconnectFind, SignUpPCs, CleanupPCs
  <2>3. CASE DisconnectTestAccepted(w)
    BY <2>3, <1>5 DEF DisconnectTestAccepted, Goto, SignUpPCs, CleanupPCs
  <2>4. CASE DisconnectTestConnected(w)
    BY <2>4, <1>5, <1>6 DEF DisconnectTestConnected, Goto, SignUpPCs, CleanupPCs
  <2>5. CASE DeregisterLoad(w)
    BY <2>5, <1>5 DEF DeregisterLoad, SignUpPCs, CleanupPCs
  <2>6. CASE DeregisterErase(w)
    BY <2>6, <1>5 DEF DeregisterErase, Goto, SignUpPCs, CleanupPCs
  <2>7. CASE DeregisterStore(w)
    BY <2>7, <1>2, <1>5 DEF DeregisterStore, Goto, SignUpPCs
  <2>8. CASE CleanupClose(w) \/ CleanupID(w) \/ CleanupStatus(w)
    <3>1. \E l \in {"cl_id", "cl_status", "cl_sock"} : Goto(w, l)
      BY <2>8 DEF CleanupClose, CleanupID, CleanupStatus
    <3>2. QED
      BY <3>1, <1>2, <1>5 DEF Goto, SignUpPCs
  <2>9. CASE CleanupSocket(w)
    BY <2>9, <1>6 DEF CleanupSocket
  <2>10. QED
    BY <1>8, <2>1, <2>2, <2>3, <2>4, <2>5, <2>6, <2>7, <2>8, <2>9 DEF Disconnect
<1>9. CASE ProceedReceived(w)
  <2>1. CASE ReceiveFind(w)
    BY <2>1, <1>5, <1>7 DEF ReceiveFind, SignUpPCs, CleanupPCs
  <2>2. CASE Parse(w)
    BY <2>2, <1>5 DEF Parse, Goto, SignUpPCs, CleanupPCs
  <2>3. CASE ReceiveAgain(w)
    BY <2>3, <1>5, <1>7 DEF ReceiveAgain, SignUpPCs, CleanupPCs
  <2>4. CASE TryOperation(w, "tm_move", "MOVE")
             \/ TryOperation(w, "tm_attack", "ATTACK")
    BY <2>4, <1>5 DEF TryOperation, SignUpPCs, CleanupPCs
  <2>5. CASE SignInLoadID(w) \/ SignInLoadStatus(w)
    BY <2>5, <1>5 DEF SignInLoadID, SignInLoadStatus, SignUpPCs, CleanupPCs
  <2>6. CASE SignInSend(w) \/ SignInUpdateSight(w)
    BY <2>6, <1>5 DEF SignInSend, SignInUpdateSight, SignUpPCs, CleanupPCs
  <2>7. CASE SignInSetID(w) \/ SignInReleaseStatus(w) \/ SignInReleaseID(w)
    <3>1. \E l \in {"si_send", "si_release", "rx_recv"} : Goto(w, l)
      BY <2>7 DEF SignInSetID, SignInReleaseStatus, SignInReleaseID
    <3>2. QED
      BY <3>1, <1>5 DEF Goto, SignUpPCs, CleanupPCs
  <2>8. QED
    BY <1>9, <2>1, <2>2, <2>3, <2>4, <2>5, <2>6, <2>7 DEF ProceedReceived
<1>10. CASE ProceedEntity(w)
  <2>1. CASE LoadID(w)
    BY <2>1, <1>5 DEF LoadID, SignUpPCs, CleanupPCs
  <2>2. CASE StoreID(w)
    BY <2>2, <1>6 DEF StoreID
  <2>3. CASE EntityMove(w)
    BY <2>3, <1>5, <1>7 DEF EntityMove, SignUpPCs, CleanupPCs
  <2>4. CASE PlayerAttack(w)
    BY <2>4, <1>5, <1>7 DEF PlayerAttack, SignUpPCs, CleanupPCs
  <2>5. CASE PlayerAttackLoad(w)
    BY <2>5, <1>5 DEF PlayerAttackLoad, SignUpPCs, CleanupPCs
  <2>6. CASE EntityDead(w)
    BY <2>6, <1>5, <1>7 DEF EntityDead, SignUpPCs, CleanupPCs
  <2>7. CASE EntityDeadStatus(w)
    BY <2>7, <1>7 DEF EntityDeadStatus
  <2>8. QED
    BY <1>10, <2>1, <2>2, <2>3, <2>4, <2>5, <2>6, <2>7 DEF ProceedEntity
<1>11. QED
  BY <1>3, <1>8, <1>9, <1>10 DEF Worker

LEMMA WorkerMoves ==
  ASSUME NEW w \in Workers, Worker(w)
  PROVE  UNCHANGED workerVars \/ \E l, f : Step(w, l, f)
<1> USE DEF Goto, Finish, Return
<1>1. CASE Update(w)
  BY <1>1 DEF Update
<1>2. CASE ProceedSignUp(w)
  BY <1>2 DEF ProceedSignUp, SignUpCheck, FindPlaceForNewbie, Associate, SignUpSetID,
     SignUpSetSocket, SignUpSetStatus, SignUpRecv, RegisterLoad, RegisterInsert,
     RegisterStore, ReleaseNewbieID, Listen
<1>3. CASE Disconnect(w)
  BY <1>3 DEF Disconnect, SessionDisconnect, DisconnectFind, DisconnectTestAccepted,
     DisconnectTestConnected, DeregisterLoad, DeregisterErase, DeregisterStore,
     CleanupClose, CleanupID, CleanupStatus, CleanupSocket
<1>4. CASE ProceedReceived(w)
  BY <1>4 DEF ProceedReceived, ReceiveFind, Parse, ReceiveAgain, TryOperation,
     SignInLoadID, SignInLoadStatus, SignInSetID, SignInSend, SignInUpdateSight,
     SignInReleaseStatus, SignInReleaseID
<1>5. CASE ProceedEntity(w)
  BY <1>5 DEF ProceedEntity, LoadID, StoreID, EntityMove, PlayerAttack,
     PlayerAttackLoad, EntityDead, EntityDeadStatus
<1>6. QED
  BY <1>1, <1>2, <1>3, <1>4, <1>5 DEF Worker

(* Only Listen renews the AcceptEx.                                        *)
LEMMA WorkerAccepts ==
  ASSUME NEW w \in Workers, Worker(w), ~Listen(w)
  PROVE  accept' = accept
<1> USE DEF sharedVars, stateVars, serviceVars, ioVars, acceptVars
<1>1. CASE Update(w)
  BY <1>1 DEF Update
<1>2. CASE ProceedSignUp(w)
  BY <1>2 DEF ProceedSignUp, SignUpCheck, FindPlaceForNewbie, Associate, SignUpSetID,
     SignUpSetSocket, SignUpSetStatus, SignUpRecv, RegisterLoad, RegisterInsert,
     RegisterStore, ReleaseNewbieID
<1>3. CASE Disconnect(w)
  BY <1>3 DEF Disconnect, SessionDisconnect, DisconnectFind, DisconnectTestAccepted,
     DisconnectTestConnected, DeregisterLoad, DeregisterErase, DeregisterStore,
     CleanupClose, CleanupID, CleanupStatus, CleanupSocket
<1>4. CASE ProceedReceived(w)
  BY <1>4 DEF ProceedReceived, ReceiveFind, Parse, ReceiveAgain, TryOperation,
     SignInLoadID, SignInLoadStatus, SignInSetID, SignInSend, SignInUpdateSight,
     SignInReleaseStatus, SignInReleaseID
<1>5. CASE ProceedEntity(w)
  BY <1>5 DEF ProceedEntity, LoadID, StoreID, EntityMove, PlayerAttack,
     PlayerAttackLoad, EntityDead, EntityDeadStatus
<1>6. QED
  BY <1>1, <1>2, <1>3, <1>4, <1>5 DEF Worker

(* What is posted behind the completions that are there.                   *)
LEMMA ListenUnderGrowth ==
  ASSUME TypePort, port' \in Seq([op : Ops, key : Int]), Len(port) <= Len(port'),
         \A i \in 1..Len(port) : port'[i] = port[i],
         \A i \in (Len(port) + 1)..Len(port') : port'[i].op # "LISTEN"
  PROVE  ListenCompletions' = ListenCompletions
<1>1. port \in Seq([op : Ops, key : Int])
  BY DEF TypePort
<1>2. DOMAIN port' = 1..Len(port') /\ DOMAIN port = 1..Len(port)
  BY <1>1
<1>3. Len(port) \in Nat /\ Len(port') \in Nat
  BY <1>1
<1>4. QED
  BY <1>2, <1>3 DEF ListenCompletions

LEMMA ListenUnderAppend ==
  ASSUME TypePort, NEW o \in Ops \ {"LISTEN"}, NEW k \in Int,
         port' = Append(port, Completion(o, k))
  PROVE  ListenCompletions' = ListenCompletions
<1>1. Completion(o, k) \in [op : Ops, key : Int] /\ Completion(o, k).op = o
  BY DEF Completion
<1>2. port \in Seq([op : Ops, key : Int])
  BY DEF TypePort
<1>3. /\ port' \in Seq([op : Ops, key : Int])
      /\ Len(port') = Len(port) + 1 /\ Len(port) \in Nat
      /\ \A i \in 1..Len(port) : port'[i] = port[i]
      /\ port'[Len(port) + 1] = Completion(o, k)
  BY <1>1, <1>2
<1>4. \A i \in (Len(port) + 1)..Len(port') : i = Len(port) + 1
  BY <1>3
<1>5. \A i \in (Len(port) + 1)..Len(port') : port'[i].op # "LISTEN"
  BY <1>1, <1>3, <1>4
<1>6. QED
  BY <1>3, <1>5, ListenUnderGrowth

LEMMA ListenUnderFailures ==
  ASSUME TypePort, TypeNet, NEW s \in Clients, NEW f \in Failures(s), port' = port \o f
  PROVE  ListenCompletions' = ListenCompletions
<1>1. f \in Seq([op : Ops, key : Int])
  BY FailuresType
<1>2. \A i \in DOMAIN f : f[i].op # "LISTEN"
  <2>1. PICK n \in Nat : f = [i \in 1..n |-> Completion("FAIL", key[s])]
    BY DEF Failures, TypeNet
  <2>2. QED
    BY <2>1 DEF Completion
<1>3. port \in Seq([op : Ops, key : Int])
  BY DEF TypePort
<1>4. /\ port' \in Seq([op : Ops, key : Int])
      /\ Len(port') = Len(port) + Len(f)
      /\ \A i \in 1..Len(port) : port'[i] = port[i]
      /\ \A i \in (Len(port) + 1)..Len(port') : port'[i] = f[i - Len(port)]
  BY <1>1, <1>3
<1>5. \A i \in (Len(port) + 1)..Len(port') : port'[i].op # "LISTEN"
  BY <1>1, <1>2, <1>3, <1>4
<1>6. QED
  BY <1>1, <1>3, <1>4, <1>5, ListenUnderGrowth

LEMMA ListenUnderRecv ==
  ASSUME TypePort, TypeNet, NEW s \in Clients \cup {NoSocket},
         RecvFails(s) \/ RecvPends(s) \/ RecvSucceeds(s)
  PROVE  ListenCompletions' = ListenCompletions
<1>1. CASE UNCHANGED port
  BY <1>1 DEF ListenCompletions
<1>2. CASE s \in Clients /\ port' = Append(port, Completion("RECV", key[s]))
  BY <1>2, ListenUnderAppend DEF TypeNet
<1>3. QED
  BY <1>1, <1>2 DEF RecvFails, RecvPends, RecvSucceeds, Alive

(* Only Connect posts a LISTEN completion, only Update takes one.          *)
LEMMA WorkerPosts ==
  ASSUME TypeInv, NEW w \in Workers, Worker(w), ~Update(w)
  PROVE  ListenCompletions' = ListenCompletions
<1>1. frame[w] \in Frames /\ Fits(pc[w], frame[w])
  BY DEF TypeInv, TypeFrame, WorkersFit
<1>2. /\ TypePort /\ TypeNet
      /\ \A p \in Places : sid[p] \in Int /\ socket[p] \in Clients \cup {NoSocket}
  BY DEF TypeInv, TypeShared, TypePool
<1>3. CASE UNCHANGED port
  BY <1>3 DEF ListenCompletions
<1>4. CASE ProceedSignUp(w)
  <2>1. CASE SignUpRecv(w)
    <3>1. frame[w].self \in Places
      BY <2>1, <1>1 DEF SignUpRecv, At, Fits, SelfPCs
    <3>2. QED
      BY <2>1, <3>1, <1>2, ListenUnderRecv DEF SignUpRecv
  <2>2. CASE ~SignUpRecv(w)
    BY <1>4, <2>2, <1>3 DEF ProceedSignUp, SignUpCheck, FindPlaceForNewbie, Associate,
       SignUpSetID, SignUpSetSocket, SignUpSetStatus, RegisterLoad, RegisterInsert,
       RegisterStore, ReleaseNewbieID, Listen, sharedVars, serviceVars, ioVars
  <2>3. QED
    BY <2>1, <2>2
<1>5. CASE Disconnect(w)
  <2>1. CASE CleanupClose(w)
    <3>1. frame[w].target \in Places
      BY <2>1, <1>1 DEF CleanupClose, At, Fits, TargetPCs, DisconnectPCs, CleanupPCs
    <3>2. QED
      BY <2>1, <3>1, <1>2, <1>3, ListenUnderFailures DEF CleanupClose, CloseSocket,
         Alive
  <2>2. CASE ~CleanupClose(w)
    BY <1>5, <2>2, <1>3 DEF Disconnect, SessionDisconnect, DisconnectFind,
       DisconnectTestAccepted, DisconnectTestConnected, DeregisterLoad, DeregisterErase,
       DeregisterStore, CleanupID, CleanupStatus, CleanupSocket,
       sharedVars, serviceVars, ioVars
  <2>3. QED
    BY <2>1, <2>2
<1>6. CASE ProceedReceived(w)
  <2>1. CASE ReceiveAgain(w)
    <3>1. frame[w].self \in Places
      BY <2>1, <1>1 DEF ReceiveAgain, At, Fits, SelfPCs, ReceivePCs
    <3>2. QED
      BY <2>1, <3>1, <1>2, ListenUnderRecv DEF ReceiveAgain
  <2>2. ASSUME NEW l \in {"tm_move", "tm_attack"}, NEW o \in {"MOVE", "ATTACK"},
               TryOperation(w, l, o)
        PROVE  ListenCompletions' = ListenCompletions
    <3>1. frame[w].self \in Places
      BY <2>2, <1>1 DEF TryOperation, At, Fits, SelfPCs, ReceivePCs
    <3>2. QED
      BY <2>2, <3>1, <1>2, ListenUnderAppend DEF TryOperation
  <2>3. CASE ~ReceiveAgain(w) /\ ~TryOperation(w, "tm_move", "MOVE")
             /\ ~TryOperation(w, "tm_attack", "ATTACK")
    BY <1>6, <2>3, <1>3 DEF ProceedReceived, ReceiveFind, Parse, SignInLoadID,
       SignInLoadStatus, SignInSetID, SignInSend, SignInUpdateSight,
       SignInReleaseStatus, SignInReleaseID, sharedVars, serviceVars, ioVars
  <2>4. QED
    BY <2>1, <2>2, <2>3
<1>7. CASE ProceedEntity(w)
  <2>1. CASE PlayerAttackLoad(w)
    <3>1. frame[w].target \in Places
      BY <2>1, <1>1 DEF PlayerAttackLoad, At, Fits, TargetPCs
    <3>2. QED
      BY <2>1, <3>1, <1>2, <1>3, ListenUnderAppend DEF PlayerAttackLoad
  <2>2. CASE ~PlayerAttackLoad(w)
    BY <1>7, <2>2, <1>3 DEF ProceedEntity, LoadID, StoreID, EntityMove, PlayerAttack,
       EntityDead, EntityDeadStatus, sharedVars, serviceVars, ioVars
  <2>3. QED
    BY <2>1, <2>2
<1>8. QED
  BY <1>4, <1>5, <1>6, <1>7 DEF Worker
-----------------------------------------------------------------------------

(* A step after which no more workers are in ProceedSignUp, no more LISTEN *)
(* completions queued and the AcceptEx is as it was.                       *)
LEMMA ExclusiveStays ==
  ASSUME AcceptExclusive, accept' = accept,
         ListenCompletions' \subseteq ListenCompletions,
         \A v \in Workers : InSignUp(v)' => InSignUp(v)
  PROVE  AcceptExclusive'
BY DEF AcceptExclusive

LEMMA InSignUpStays ==
  ASSUME NEW v \in Workers, pc'[v] = pc[v], frame'[v] = frame[v]
  PROVE  InSignUp(v)' = InSignUp(v)
BY DEF InSignUp

LEMMA OthersStay ==
  ASSUME TypeInv, NEW w \in Workers, Worker(w), NEW v \in Workers \ {w}
  PROVE  pc'[v] = pc[v] /\ frame'[v] = frame[v]
BY WorkerMoves DEF TypeInv, TypeFrame, Step, workerVars

(* The dispatch of the one LISTEN completion, or of another.               *)
LEMMA ExclusiveDispatch ==
  ASSUME TypeInv, AcceptExclusive, NEW w \in Workers, Update(w)
  PROVE  AcceptExclusive'
<1>1. accept' = accept
  BY DEF Update, stateVars, acceptVars
<1>2. \A v \in Workers \ {w} : InSignUp(v)' = InSignUp(v)
  <2>1. Worker(w)
    BY DEF Worker
  <2>2. QED
    BY <2>1, OthersStay, InSignUpStays
<1>3. port \in Seq([op : Ops, key : Int]) /\ port # <<>> /\ port' = Tail(port)
  BY DEF Update, TypeInv, TypeShared, TypePort
<1>4. /\ Len(port) \in Nat \ {0} /\ Len(port') = Len(port) - 1
      /\ \A i \in 1..Len(port') : port'[i] = port[i + 1]
      /\ DOMAIN port = 1..Len(port) /\ DOMAIN port' = 1..Len(port')
      /\ Head(port) = port[1]
  BY <1>3
<1>5. ListenCompletions' = {i \in 1..Len(port') : port[i + 1].op = "LISTEN"}
  BY <1>4 DEF ListenCompletions
<1>6. \A i \in ListenCompletions' : i \in Nat \ {0} /\ i + 1 \in ListenCompletions
  BY <1>4, <1>5 DEF ListenCompletions
<1>7. ~InSignUp(w)
  BY DEF Update, At, InSignUp, SignUpPCs, CleanupPCs
<1>8. CASE Head(port).op = "LISTEN"
  <2>1. 1 \in ListenCompletions
    BY <1>4, <1>8 DEF ListenCompletions
  <2>2. ListenCompletions' = {}
    BY <2>1, <1>6 DEF AcceptExclusive
  <2>3. \A v \in Workers : ~InSignUp(v)
    BY <2>1 DEF AcceptExclusive
  <2>4. \A v \in Workers : InSignUp(v)' => v = w
    BY <2>3, <1>2
  <2>5. accept = "busy"
    BY <2>1 DEF AcceptExclusive
  <2>6. QED
    BY <2>2, <2>4, <2>5, <1>1 DEF AcceptExclusive
<1>9. CASE Head(port).op # "LISTEN"
  <2>1. \/ UNCHANGED workerVars
        \/ \E l \in {"rx_find", "dc_find", "mv_find", "at_find", "de_find"} :
              \E f : Step(w, l, f)
    <3>1. Head(port) \in [op : Ops, key : Int]
      BY <1>3, HeadOfSeq
    <3>2. Head(port).op \in Ops \ {"LISTEN"}
      BY <3>1, <1>9
    <3>3. QED
      BY <3>2 DEF Update
  <2>2. ~InSignUp(w)'
    <3>1. CASE UNCHANGED workerVars
      BY <3>1, <1>7, InSignUpStays DEF workerVars
    <3>2. CASE \E l \in {"rx_find", "dc_find", "mv_find", "at_find", "de_find"} :
                  \E f : Step(w, l, f)
      BY <3>2 DEF InSignUp, Step, TypeInv, TypeFrame, SignUpPCs, CleanupPCs
    <3>3. QED
      BY <2>1, <3>1, <3>2
  <2>3. \A v \in Workers : InSignUp(v)' => InSignUp(v)
    BY <2>2, <1>2
  <2>4. \A i, j \in ListenCompletions' : i = j
    BY <1>6 DEF AcceptExclusive
  <2>5. ListenCompletions' # {} => ListenCompletions # {}
    BY <1>6
  <2>6. QED
    BY <1>1, <2>3, <2>4, <2>5 DEF AcceptExclusive
<1>10. QED
  BY <1>8, <1>9

LEMMA ExclusiveWorker ==
  ASSUME TypeInv, AcceptExclusive, NEW w \in Workers, Worker(w)
  PROVE  AcceptExclusive'
<1>1. CASE Update(w)
  BY <1>1, ExclusiveDispatch
<1>2. CASE ~Update(w) /\ ~Listen(w)
  <2>1. \A v \in Workers : InSignUp(v)' => InSignUp(v)
    BY <1>2, StaysOutside, OthersStay, InSignUpStays
  <2>2. QED
    BY <1>2, <2>1, WorkerAccepts, WorkerPosts, ExclusiveStays
<1>3. CASE ~Update(w) /\ Listen(w)
  <2>1. InSignUp(w)
    BY <1>3 DEF Listen, At, InSignUp, SignUpPCs
  <2>2. ListenCompletions' = {}
    BY <1>3, <2>1, WorkerPosts DEF AcceptExclusive
  <2>3. ~InSignUp(w)'
    BY <1>3 DEF Listen, Finish, Step, InSignUp, TypeInv, TypeFrame, SignUpPCs,
       CleanupPCs
  <2>4. \A v \in Workers : ~InSignUp(v)'
    BY <2>1, <2>3, OthersStay, InSignUpStays DEF AcceptExclusive
  <2>5. QED
    BY <2>2, <2>4 DEF AcceptExclusive
<1>4. QED
  BY <1>1, <1>2, <1>3

LEMMA ExclusiveEnvironment ==
  ASSUME TypeInv, AcceptExclusive, Environment
  PROVE  AcceptExclusive'
<1>1. UNCHANGED workerVars
  BY DEF Environment, AcceptFails, Connect, Send, Leave, Reset, workerVars
<1>2. \A v \in Workers : InSignUp(v)' = InSignUp(v)
  BY <1>1 DEF InSignUp, workerVars
<1>3. TypePort /\ TypeNet
  BY DEF TypeInv, TypeShared
<1>4. CASE ListenCompletions' = ListenCompletions /\ accept' = accept
  BY <1>2, <1>4, ExclusiveStays
<1>5. CASE AcceptFails
  <2>1. ListenCompletions' = ListenCompletions
    <3>1. ServerKey \in Int
      BY DEF ServerKey
    <3>2. QED
      BY <1>5, <1>3, <3>1, ListenUnderAppend DEF AcceptFails
  <2>2. accept # "busy"
    BY <1>5 DEF AcceptFails
  <2>3. QED
    BY <2>1, <2>2, <1>2 DEF AcceptExclusive
<1>6. ASSUME NEW c \in Clients, Connect(c) PROVE AcceptExclusive'
  <2>1. accept = "listening" /\ accept' = "busy"
    BY <1>6 DEF Connect
  <2>2. ListenCompletions = {} /\ \A v \in Workers : ~InSignUp(v)
    BY <2>1 DEF AcceptExclusive
  <2>3. /\ port \in Seq([op : Ops, key : Int])
        /\ Completion("LISTEN", ServerKey) \in [op : Ops, key : Int]
    BY <1>3 DEF TypePort, Completion, ServerKey
  <2>4. /\ Len(port) \in Nat /\ Len(port') = Len(port) + 1
        /\ DOMAIN port = 1..Len(port) /\ DOMAIN port' = 1..(Len(port) + 1)
        /\ \A i \in 1..Len(port) : port'[i] = port[i]
    BY <1>6, <2>3 DEF Connect
  <2>5. \A i \in ListenCompletions' : i = Len(port) + 1
    BY <2>2, <2>4 DEF ListenCompletions
  <2>6. QED
    BY <2>1, <2>2, <2>5, <1>2 DEF AcceptExclusive
<1>7. ASSUME NEW c \in Clients, Send(c) PROVE AcceptExclusive'
  BY <1>7, <1>3, <1>4, ListenUnderAppend DEF Send, stateVars, acceptVars, TypeNet
<1>8. ASSUME NEW c \in Clients, Leave(c) PROVE AcceptExclusive'
  BY <1>8, <1>4 DEF Leave, acceptVars, ListenCompletions
<1>9. ASSUME NEW c \in Clients, Reset(c) PROVE AcceptExclusive'
  <2>1. accept' = accept
    BY <1>9 DEF Reset, stateVars, acceptVars
  <2>2. ListenCompletions' = ListenCompletions
    <3>1. CASE UNCHANGED port
      BY <3>1 DEF ListenCompletions
    <3>2. QED
      BY <1>9, <1>3, <3>1, ListenUnderFailures DEF Reset
  <2>3. QED
    BY <2>1, <2>2, <1>4
<1>10. QED
  BY <1>5, <1>6, <1>7, <1>8, <1>9 DEF Environment

LEMMA ExclusiveInit == Init => AcceptExclusive
BY DEF Init, AcceptExclusive, InSignUp, ListenCompletions, SignUpPCs, CleanupPCs

LEMMA ExclusiveStep ==
  ASSUME TypeInv, AcceptExclusive, [Next]_vars
  PROVE  AcceptExclusive'
<1>1. CASE Environment
  BY <1>1, ExclusiveEnvironment
<1>2. ASSUME NEW w \in Workers, Worker(w) PROVE AcceptExclusive'
  BY <1>2, ExclusiveWorker
<1>3. CASE UNCHANGED vars
  BY <1>3 DEF vars, sharedVars, serviceVars, ioVars, acceptVars, workerVars,
              AcceptExclusive, InSignUp, ListenCompletions
<1>4. QED
  BY <1>1, <1>2, <1>3 DEF Next

(* However many workers there are, and whatever they disconnect meanwhile: *)
(* one AcceptEx, one completion of it or one worker in ProceedSignUp, the  *)
(* exclusion that acceptOverlap, acceptNewbie and orderClientIDs rely on.  *)
THEOREM OneAcceptor == Spec => []AcceptExclusive
<1>1. Init => TypeInv /\ AcceptExclusive
  BY TypeInit, ExclusiveInit
<1>2. TypeInv /\ AcceptExclusive /\ [Next]_vars => (TypeInv /\ AcceptExclusive)'
  BY TypeStep, ExclusiveStep
<1>3. QED
  BY <1>1, <1>2, PTL DEF Spec
-----------------------------------------------------------------------------
(* The ids.  Between AcquireNewbieID and ReleaseNewbieID the one acceptor   *)
(* holds the next id in a local.                                           *)

Holding == {"su_setid", "su_setsock", "su_setstatus", "su_recv", "su_load",
            "su_insert", "su_store"}

InHand(w) ==
    /\ pc[w] \in Holding => frame[w].id = orderClientIDs
    /\ pc[w] \in CleanupPCs /\ frame[w].back = "su_release" =>
          frame[w].id = orderClientIDs
    /\ pc[w] = "su_release" => frame[w].id \in {orderClientIDs, orderClientIDs + 1}

RegisteredBelow(n) == \A id \in DOMAIN clients : FirstId <= id /\ id < n

IdInv ==
    /\ FirstId <= orderClientIDs
    /\ \A w \in Workers : InHand(w)
    /\ RegisteredBelow(NextId)

SafeInv == TypeInv /\ AcceptExclusive /\ IdInv

LEMMA WorkerOrder ==
  ASSUME NEW w \in Workers, Worker(w), ~ReleaseNewbieID(w)
  PROVE  orderClientIDs' = orderClientIDs
<1> USE DEF sharedVars, stateVars, serviceVars, registryVars
<1>1. CASE Update(w)
  BY <1>1 DEF Update
<1>2. CASE ProceedSignUp(w)
  BY <1>2 DEF ProceedSignUp, SignUpCheck, FindPlaceForNewbie, Associate, SignUpSetID,
     SignUpSetSocket, SignUpSetStatus, SignUpRecv, RegisterLoad, RegisterInsert,
     RegisterStore, Listen
<1>3. CASE Disconnect(w)
  BY <1>3 DEF Disconnect, SessionDisconnect, DisconnectFind, DisconnectTestAccepted,
     DisconnectTestConnected, DeregisterLoad, DeregisterErase, DeregisterStore,
     CleanupClose, CleanupID, CleanupStatus, CleanupSocket
<1>4. CASE ProceedReceived(w)
  BY <1>4 DEF ProceedReceived, ReceiveFind, Parse, ReceiveAgain, TryOperation,
     SignInLoadID, SignInLoadStatus, SignInSetID, SignInSend, SignInUpdateSight,
     SignInReleaseStatus, SignInReleaseID
<1>5. CASE ProceedEntity(w)
  BY <1>5 DEF ProceedEntity, LoadID, StoreID, EntityMove, PlayerAttack,
     PlayerAttackLoad, EntityDead, EntityDeadStatus
<1>6. QED
  BY <1>1, <1>2, <1>3, <1>4, <1>5 DEF Worker

LEMMA WorkerClients ==
  ASSUME NEW w \in Workers, Worker(w), ~RegisterInsert(w), ~DeregisterErase(w)
  PROVE  clients' = clients
<1> USE DEF sharedVars, stateVars, serviceVars, registryVars
<1>1. CASE Update(w)
  BY <1>1 DEF Update
<1>2. CASE ProceedSignUp(w)
  BY <1>2 DEF ProceedSignUp, SignUpCheck, FindPlaceForNewbie, Associate, SignUpSetID,
     SignUpSetSocket, SignUpSetStatus, SignUpRecv, RegisterLoad,
     RegisterStore, ReleaseNewbieID, Listen
<1>3. CASE Disconnect(w)
  BY <1>3 DEF Disconnect, SessionDisconnect, DisconnectFind, DisconnectTestAccepted,
     DisconnectTestConnected, DeregisterLoad, DeregisterStore,
     CleanupClose, CleanupID, CleanupStatus, CleanupSocket
<1>4. CASE ProceedReceived(w)
  BY <1>4 DEF ProceedReceived, ReceiveFind, Parse, ReceiveAgain, TryOperation,
     SignInLoadID, SignInLoadStatus, SignInSetID, SignInSend, SignInUpdateSight,
     SignInReleaseStatus, SignInReleaseID
<1>5. CASE ProceedEntity(w)
  BY <1>5 DEF ProceedEntity, LoadID, StoreID, EntityMove, PlayerAttack,
     PlayerAttackLoad, EntityDead, EntityDeadStatus
<1>6. QED
  BY <1>1, <1>2, <1>3, <1>4, <1>5 DEF Worker

LEMMA OutsideHoldsNothing ==
  ASSUME NEW w \in Workers, ~InSignUp(w)
  PROVE  InHand(w) /\ ~Registering(w)
BY DEF InSignUp, InHand, Registering, Holding, SignUpPCs, CleanupPCs

LEMMA OthersIds ==
  ASSUME NEW v \in Workers, pc'[v] = pc[v], frame'[v] = frame[v],
         orderClientIDs' = orderClientIDs
  PROVE  InHand(v)' = InHand(v) /\ Registering(v)' = Registering(v)
BY DEF InHand, Registering

(* A worker inside ProceedSignUp takes one of its steps.                   *)
LEMMA SignUpActs ==
  ASSUME NEW w \in Workers, Worker(w), pc[w] \in SignUpPCs
  PROVE  ProceedSignUp(w)
<1>1. ~Update(w)
  BY DEF SignUpPCs, Update, At
<1>2. ~ProceedReceived(w)
  BY DEF SignUpPCs, At, ProceedReceived, ReceiveFind, Parse, ReceiveAgain,
     TryOperation, SignInLoadID, SignInLoadStatus, SignInSetID, SignInSend,
     SignInUpdateSight, SignInReleaseStatus, SignInReleaseID
<1>3. ~ProceedEntity(w)
  BY DEF SignUpPCs, At, ProceedEntity, LoadID, StoreID, EntityMove,
     PlayerAttack, PlayerAttackLoad, EntityDead, EntityDeadStatus
<1>4. ~Disconnect(w)
  BY DEF SignUpPCs, At, Disconnect, SessionDisconnect, DisconnectFind,
     DisconnectTestAccepted, DisconnectTestConnected, DeregisterLoad, DeregisterErase,
     DeregisterStore, CleanupClose, CleanupID, CleanupStatus, CleanupSocket
<1>5. QED
  BY <1>1, <1>2, <1>3, <1>4 DEF Worker

(* The acceptor has the id in hand, and only its insertion registers.      *)
LEMMA HandStep ==
  ASSUME SafeInv, NEW w \in Workers, Worker(w), orderClientIDs' = orderClientIDs
  PROVE  /\ InHand(w)'
         /\ RegisterInsert(w) \/ RegisterStore(w) \/ ~Registering(w)'
<1>1. frame[w] \in Frames /\ Fits(pc[w], frame[w]) /\ InHand(w)
  BY DEF SafeInv, TypeInv, TypeFrame, WorkersFit, IdInv
<1>2. pc \in [Workers -> PCs] /\ frame \in [Workers -> Frames]
  BY DEF SafeInv, TypeInv, TypeFrame
<1>3. ASSUME NEW l, NEW f, Step(w, l, f),
             l \in Holding \/ (l \in CleanupPCs /\ f.back = "su_release")
                \/ l = "su_release" => f.id = orderClientIDs
      PROVE  InHand(w)' /\ (l # "su_store" => ~Registering(w)')
  BY <1>2, <1>3 DEF Step, InHand, Registering
<1>4. ASSUME NEW l, NEW f, Step(w, l, f), f.id = frame[w].id,
             pc[w] \in Holding \/ (InSignUp(w) /\ pc[w] \in CleanupPCs)
      PROVE  InHand(w)' /\ (l # "su_store" => ~Registering(w)')
  BY <1>1, <1>3, <1>4 DEF InHand, InSignUp, Holding, CleanupPCs, SignUpPCs
<1>5. CASE Update(w)
  <2>1. CASE UNCHANGED workerVars
    BY <1>5, <2>1, <1>1 DEF Update, At, workerVars, InHand, Registering
  <2>2. CASE \E l \in {"su_check", "rx_find", "dc_find", "mv_find", "at_find", "de_find"} :
                \E f : Step(w, l, f)
    BY <2>2, <1>3 DEF Holding, CleanupPCs
  <2>3. Head(port).op \in Ops
    <3>1. Head(port) \in [op : Ops, key : Int]
      BY <1>5, HeadOfSeq DEF Update, SafeInv, TypeInv, TypeShared, TypePort
    <3>2. QED
      BY <3>1
  <2>4. QED
    BY <1>5, <2>1, <2>2, <2>3 DEF Update
<1>6. CASE ~Update(w) /\ ~InSignUp(w)
  BY <1>6, StaysOutside, OutsideHoldsNothing DEF SafeInv, InHand, Registering,
     InSignUp, Holding, SignUpPCs, CleanupPCs
<1>7. CASE ProceedSignUp(w)
  <2>1. CASE SignUpCheck(w)
    BY <2>1, <1>3 DEF SignUpCheck, Goto, Holding, CleanupPCs
  <2>2. CASE FindPlaceForNewbie(w)
    <3>1. CASE UNCHANGED workerVars
      BY <2>2, <3>1, <1>1 DEF FindPlaceForNewbie, At, workerVars, InHand, Registering
    <3>2. QED
      BY <2>2, <3>1, <1>3 DEF FindPlaceForNewbie, Goto, Holding, CleanupPCs
  <2>3. CASE Associate(w)
    <3>1. [frame[w] EXCEPT !.id = orderClientIDs].id = orderClientIDs
      BY <1>1 DEF Frames
    <3>2. \E l \in {"su_setid", "su_release"} :
             \E f : Step(w, l, f) /\ f.id = orderClientIDs
      BY <2>3, <3>1 DEF Associate
    <3>3. QED
      BY <3>2, <1>3
  <2>4. CASE SignUpSetID(w) \/ SignUpSetSocket(w) \/ SignUpSetStatus(w)
    BY <2>4, <1>4 DEF SignUpSetID, SignUpSetSocket, SignUpSetStatus, Goto, At, Holding
  <2>5. CASE SignUpRecv(w)
    <3>1. [frame[w] EXCEPT !.target = frame[w].self,
                           !.back = "su_release"].id = frame[w].id
      BY <1>1 DEF Frames
    <3>2. \E l \in {"cl_close", "su_release", "su_load"} :
             \E f : Step(w, l, f) /\ f.id = frame[w].id
      BY <2>5, <3>1 DEF SignUpRecv, Goto
    <3>3. pc[w] \in Holding
      BY <2>5 DEF SignUpRecv, At, Holding
    <3>4. QED
      BY <3>2, <3>3, <1>4
  <2>6. CASE RegisterLoad(w)
    <3>1. [frame[w] EXCEPT !.value = numberClients].id = frame[w].id
      BY <1>1 DEF Frames
    <3>2. pc[w] \in Holding
      BY <2>6 DEF RegisterLoad, At, Holding
    <3>3. \E f : Step(w, "su_insert", f) /\ f.id = frame[w].id
      BY <2>6, <3>1 DEF RegisterLoad
    <3>4. QED
      BY <3>2, <3>3, <1>4
  <2>7. CASE RegisterInsert(w)
    BY <2>7, <1>4 DEF RegisterInsert, Goto, At, Holding
  <2>8. CASE RegisterStore(w)
    <3>1. frame[w].id = orderClientIDs /\ orderClientIDs \in Int
      BY <2>8, <1>1 DEF RegisterStore, At, InHand, Holding, SafeInv, TypeInv,
         TypeShared,
         TypeRegistry
    <3>2. [frame[w] EXCEPT !.id = @ + 1].id = orderClientIDs + 1
      BY <3>1, <1>1 DEF Frames
    <3>3. QED
      BY <2>8, <3>2, <1>2 DEF RegisterStore, Step, InHand, Holding, CleanupPCs
  <2>9. CASE ReleaseNewbieID(w) \/ Listen(w)
    BY <2>9, <1>3 DEF ReleaseNewbieID, Listen, Goto, Finish, Holding, CleanupPCs
  <2>10. QED
    BY <1>7, <2>1, <2>2, <2>3, <2>4, <2>5, <2>6, <2>7, <2>8, <2>9 DEF ProceedSignUp
<1>8. CASE InSignUp(w) /\ pc[w] \in CleanupPCs
  <2>1. CASE CleanupSocket(w)
    <3>1. frame[w].back = "su_release"
      BY <1>8 DEF InSignUp, SignUpPCs, CleanupPCs
    <3> DEFINE f == [EmptyFrame EXCEPT !.self = frame[w].self, !.id = frame[w].id,
                                       !.st = frame[w].st]
    <3>2. Step(w, "su_release", f)
      BY <2>1, <3>1 DEF CleanupSocket, Return
    <3>3. f.id = frame[w].id
      BY DEF EmptyFrame
    <3> HIDE DEF f
    <3>4. QED
      BY <1>8, <3>2, <3>3, <1>4
  <2>2. CASE CleanupClose(w) \/ CleanupID(w) \/ CleanupStatus(w)
    BY <2>2, <1>8, <1>4 DEF CleanupClose, CleanupID, CleanupStatus, Goto
  <2>3. CleanupSocket(w) \/ CleanupClose(w) \/ CleanupID(w) \/ CleanupStatus(w)
    <3>1. ~Update(w) /\ ~ProceedSignUp(w)
      BY <1>8 DEF CleanupPCs, Update, At, ProceedSignUp, SignUpCheck,
         FindPlaceForNewbie,
         Associate, SignUpSetID, SignUpSetSocket, SignUpSetStatus, SignUpRecv,
         RegisterLoad, RegisterInsert, RegisterStore, ReleaseNewbieID, Listen
    <3>2. ~ProceedReceived(w)
      BY <1>8 DEF CleanupPCs, At, ProceedReceived, ReceiveFind, Parse, ReceiveAgain,
         TryOperation, SignInLoadID, SignInLoadStatus, SignInSetID, SignInSend,
         SignInUpdateSight, SignInReleaseStatus, SignInReleaseID
    <3>3. ~ProceedEntity(w)
      BY <1>8 DEF CleanupPCs, At, ProceedEntity, LoadID, StoreID, EntityMove,
         PlayerAttack, PlayerAttackLoad, EntityDead, EntityDeadStatus
    <3>4. Disconnect(w)
      BY <3>1, <3>2, <3>3 DEF Worker
    <3>5. QED
      BY <3>4, <1>8 DEF CleanupPCs, At, Disconnect, SessionDisconnect, DisconnectFind,
         DisconnectTestAccepted, DisconnectTestConnected, DeregisterLoad,
         DeregisterErase, DeregisterStore
  <2>4. QED
    BY <2>1, <2>2, <2>3
<1>9. QED
  BY <1>5, <1>6, <1>7, <1>8, SignUpActs DEF InSignUp

LEMMA RegisteringStays ==
  ASSUME SafeInv, NEW w \in Workers, Worker(w), orderClientIDs' = orderClientIDs,
         ~RegisterInsert(w)
  PROVE  InHand(w)' /\ Registering(w)' = Registering(w)
<1>1. /\ frame[w] \in Frames /\ InHand(w) /\ orderClientIDs \in Int
      /\ pc \in [Workers -> PCs] /\ frame \in [Workers -> Frames]
  BY DEF SafeInv, TypeInv, TypeShared, TypeRegistry, TypeFrame, IdInv
<1>2. CASE RegisterStore(w)
  <2>1. frame[w].id = orderClientIDs /\ pc[w] = "su_store"
    BY <1>2, <1>1 DEF RegisterStore, At, InHand, Holding
  <2>2. [frame[w] EXCEPT !.id = @ + 1].id # orderClientIDs
    BY <2>1, <1>1 DEF Frames
  <2>3. Registering(w)'
    BY <1>2, <2>2, <1>1 DEF RegisterStore, Step, Registering
  <2>4. QED
    BY <2>1, <2>3, HandStep DEF Registering
<1>3. CASE ~RegisterStore(w)
  <2>1. pc[w] # "su_store"
    BY <1>3, SignUpActs DEF ProceedSignUp, SignUpPCs, At, SignUpCheck,
       FindPlaceForNewbie, Associate, SignUpSetID, SignUpSetSocket, SignUpSetStatus,
       SignUpRecv, RegisterLoad, RegisterInsert, ReleaseNewbieID, Listen
  <2>2. pc[w] = "su_release" => ReleaseNewbieID(w)
    BY <1>3, SignUpActs DEF ProceedSignUp, SignUpPCs, At, SignUpCheck,
       FindPlaceForNewbie, Associate, SignUpSetID, SignUpSetSocket, SignUpSetStatus,
       SignUpRecv, RegisterLoad, RegisterInsert, Listen
  <2>3. ~Registering(w)
    BY <2>1, <2>2 DEF ReleaseNewbieID, Registering
  <2>4. InHand(w)' /\ ~Registering(w)'
    BY <1>3, HandStep
  <2>5. Registering(w) \in BOOLEAN /\ Registering(w)' \in BOOLEAN
    BY DEF Registering
  <2>6. QED
    BY <2>3, <2>4, <2>5
<1>4. QED
  BY <1>2, <1>3

(* A step that registers nobody and keeps the order, whoever takes it.     *)
LEMMA IdsStay ==
  ASSUME SafeInv, orderClientIDs' = orderClientIDs,
         DOMAIN clients' \subseteq DOMAIN clients,
         \A v \in Workers : InHand(v)' /\ Registering(v)' = Registering(v)
  PROVE  IdInv' /\ NextId' = NextId
<1>1. NextId' = NextId
  BY DEF NextId
<1>2. QED
  BY <1>1 DEF SafeInv, IdInv, RegisteredBelow

LEMMA ActsAlone ==
  ASSUME SafeInv, NEW w \in Workers, InSignUp(w), NEW v \in Workers \ {w}
  PROVE  ~InSignUp(v) /\ InHand(v) /\ ~Registering(v)
BY OutsideHoldsNothing DEF SafeInv, AcceptExclusive

(* RegisterPlayer's insertion is the one step that issues an id.           *)
LEMMA InsertIssues ==
  ASSUME SafeInv, NEW w \in Workers, Worker(w), RegisterInsert(w)
  PROVE  IdInv' /\ Ids!Issue
<1>1. /\ frame[w] \in Frames /\ frame[w].id = orderClientIDs /\ orderClientIDs \in Int
      /\ pc \in [Workers -> PCs] /\ frame \in [Workers -> Frames]
  BY DEF SafeInv, TypeInv, TypeShared, TypeRegistry, TypeFrame, IdInv, InHand, Holding,
         RegisterInsert, At
<1>2. InSignUp(w) /\ ~Registering(w)
  BY DEF RegisterInsert, At, InSignUp, SignUpPCs, Registering
<1>3. orderClientIDs' = orderClientIDs /\ DOMAIN clients' = DOMAIN clients \cup {orderClientIDs}
  BY <1>1 DEF RegisterInsert
<1>4. NextId = orderClientIDs
  BY <1>2, ActsAlone DEF NextId
<1>5. Registering(w)' /\ InHand(w)'
  BY <1>1, <1>3 DEF RegisterInsert, Goto, Step, Registering, InHand, Holding, CleanupPCs
<1>6. NextId' = orderClientIDs + 1
  BY <1>5, <1>3 DEF NextId
<1>7. \A v \in Workers : InHand(v)'
  BY <1>5, <1>3, OthersStay, OthersIds DEF SafeInv, IdInv
<1>8. RegisteredBelow(NextId)'
  BY <1>1, <1>3, <1>4, <1>6 DEF SafeInv, IdInv, RegisteredBelow, TypeInv, TypeShared,
     TypeRegistry
<1>9. QED
  BY <1>3, <1>4, <1>6, <1>7, <1>8 DEF SafeInv, IdInv, Ids!Issue

(* ReleaseNewbieID makes the local the next id: it is the next id already. *)
LEMMA ReleaseKeepsNext ==
  ASSUME SafeInv, NEW w \in Workers, Worker(w), ReleaseNewbieID(w)
  PROVE  IdInv' /\ NextId' = NextId
<1>1. /\ frame[w] \in Frames /\ orderClientIDs \in Int
      /\ frame[w].id \in {orderClientIDs, orderClientIDs + 1}
      /\ pc \in [Workers -> PCs] /\ frame \in [Workers -> Frames]
  BY DEF SafeInv, TypeInv, TypeShared, TypeRegistry, TypeFrame, IdInv, InHand,
         ReleaseNewbieID, At
<1>2. InSignUp(w) /\ orderClientIDs' = frame[w].id /\ clients' = clients
  BY DEF ReleaseNewbieID, At, InSignUp, SignUpPCs
<1>3. NextId = frame[w].id
  BY <1>1, <1>2, ActsAlone DEF NextId, Registering, ReleaseNewbieID, At
<1>4. InHand(w)' /\ ~Registering(w)'
  BY <1>1 DEF ReleaseNewbieID, Goto, Step, InHand, Registering, Holding, CleanupPCs
<1>5. \A v \in Workers \ {w} : InHand(v)' /\ ~Registering(v)'
  <2> TAKE v \in Workers \ {w}
  <2>1. ~InSignUp(v) /\ pc'[v] = pc[v]  /\ frame'[v] = frame[v]
    BY <1>2, ActsAlone, OthersStay DEF SafeInv
  <2>2. QED
    BY <2>1 DEF InSignUp, InHand, Registering, Holding, SignUpPCs, CleanupPCs
<1>6. NextId' = frame[w].id
  BY <1>2, <1>4, <1>5 DEF NextId
<1>7. QED
  BY <1>1, <1>2, <1>3, <1>4, <1>5, <1>6 DEF SafeInv, IdInv, RegisteredBelow

LEMMA WorkerIds ==
  ASSUME SafeInv, NEW w \in Workers, Worker(w)
  PROVE  IdInv' /\ [Ids!Next]_(Ids!idVars)
<1>1. CASE RegisterInsert(w)
  BY <1>1, InsertIssues DEF Ids!Next
<1>2. CASE ReleaseNewbieID(w)
  <2>1. clients' = clients
    BY <1>2 DEF ReleaseNewbieID
  <2>2. QED
    BY <1>2, <2>1, ReleaseKeepsNext DEF Ids!idVars
<1>3. CASE ~RegisterInsert(w) /\ ~ReleaseNewbieID(w)
  <2>1. orderClientIDs' = orderClientIDs
    BY <1>3, WorkerOrder
  <2>2. \A v \in Workers : InHand(v)' /\ Registering(v)' = Registering(v)
    BY <1>3, <2>1, RegisteringStays, OthersStay, OthersIds DEF SafeInv, IdInv
  <2>3. CASE DeregisterErase(w)
    <3>1. DOMAIN clients' = DOMAIN clients \ {frame[w].id}
      BY <2>3 DEF DeregisterErase
    <3>2. IdInv' /\ NextId' = NextId
      BY <2>1, <2>2, <3>1, IdsStay
    <3>3. CASE frame[w].id \in DOMAIN clients
      BY <3>1, <3>2, <3>3 DEF Ids!Next, Ids!Revoke
    <3>4. CASE frame[w].id \notin DOMAIN clients
      BY <3>1, <3>2, <3>4 DEF Ids!idVars
    <3>5. QED
      BY <3>3, <3>4, <3>2
  <2>4. CASE ~DeregisterErase(w)
    <3>1. clients' = clients
      BY <1>3, <2>4, WorkerClients
    <3>2. QED
      BY <2>1, <2>2, <3>1, IdsStay DEF Ids!idVars
  <2>5. QED
    BY <2>3, <2>4
<1>4. QED
  BY <1>1, <1>2, <1>3

LEMMA IdsStep ==
  ASSUME SafeInv, [Next]_vars
  PROVE  IdInv' /\ [Ids!Next]_(Ids!idVars)
<1>1. ASSUME UNCHANGED <<workerVars, registryVars>>
      PROVE  IdInv' /\ [Ids!Next]_(Ids!idVars)
  BY <1>1 DEF workerVars, registryVars, SafeInv, IdInv, InHand, RegisteredBelow, NextId,
              Registering, Ids!idVars
<1>2. CASE Environment
  BY <1>1, <1>2 DEF Environment, AcceptFails, Connect, Send, Leave, Reset, stateVars,
     workerVars
<1>3. ASSUME NEW w \in Workers, Worker(w) PROVE IdInv' /\ [Ids!Next]_(Ids!idVars)
  BY <1>3, WorkerIds
<1>4. CASE UNCHANGED vars
  BY <1>1, <1>4 DEF vars, sharedVars, serviceVars
<1>5. QED
  BY <1>2, <1>3, <1>4 DEF Next

LEMMA IdsInit == Init => IdInv /\ Ids!Init
<1> SUFFICES ASSUME Init PROVE IdInv /\ Ids!Init
  OBVIOUS
<1>1. \A w \in Workers : InHand(w) /\ ~Registering(w)
  BY DEF Init, InHand, Registering, Holding, CleanupPCs
<1>2. DOMAIN clients = {} /\ NextId = FirstId
  BY <1>1 DEF Init, NextId
<1>3. QED
  BY <1>1, <1>2 DEF Init, IdInv, RegisteredBelow, Ids!Init

LEMMA SafeInvariant == Spec => []SafeInv
<1>1. Init => SafeInv
  BY TypeInit, ExclusiveInit, IdsInit DEF SafeInv
<1>2. SafeInv /\ [Next]_vars => SafeInv'
  BY TypeStep, ExclusiveStep, IdsStep DEF SafeInv
<1>3. QED
  BY <1>1, <1>2, PTL DEF Spec

(* RegisterPlayer may ignore whether myClients.insert inserted: the id is  *)
(* always a new one, above every id that is registered.                    *)
THEOREM FreshRegistration == Spec => []RegistrationIsFresh
<1>1. ASSUME SafeInv, NEW w \in Workers, pc[w] \in {"su_load", "su_insert"}
      PROVE  \A id \in DOMAIN clients : id < frame[w].id
  <2>1. InSignUp(w) /\ ~Registering(w) /\ frame[w].id = orderClientIDs
    BY <1>1 DEF SafeInv, IdInv, InSignUp, SignUpPCs, Registering, InHand, Holding
  <2>2. NextId = orderClientIDs
    BY <1>1, <2>1, ActsAlone DEF NextId
  <2>3. QED
    BY <1>1, <2>1, <2>2 DEF SafeInv, IdInv, RegisteredBelow
<1>2. SafeInv => RegistrationIsFresh
  BY <1>1 DEF RegistrationIsFresh
<1>3. QED
  BY <1>2, SafeInvariant, PTL

(* The registry implements PlayerIds: the ids of registered players are    *)
(* issued in order and never twice, although three routines of any number  *)
(* of workers work on myClients and orderClientIDs without a lock.         *)
THEOREM IssuesInOrder == Spec => IssuesIdsInOrder
<1>1. Init => Ids!Init
  BY IdsInit
<1>2. SafeInv /\ [Next]_vars => [Ids!Next]_(Ids!idVars)
  BY IdsStep
<1>3. QED
  BY <1>1, <1>2, SafeInvariant, PTL DEF Spec, IssuesIdsInOrder, Ids!Spec

====
