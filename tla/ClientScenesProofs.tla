------------------------- MODULE ClientScenesProofs -------------------------
(***************************************************************************)
(* What the client's screen, camera and queue of packets keep for any      *)
(* number of entities, packets and keys, however receives, sends, ticks    *)
(* and the reset of the connection interleave.                             *)
(***************************************************************************)
EXTENDS ClientScenes, SequenceTheorems, TLAPS

(* Packets about an entity, answers to the request, and those of keys.     *)
Shows == {"SC_APPEAR_OBJ", "SC_DISAPPEAR_OBJ", "SC_MOVE_OBJ"}
Answers == {"SC_SIGNUP", "SC_SIGNIN_FAILED"}
KeyTypes == {"CS_MOVE", "CS_ATTACK_NONTARGET"}
IsAbout(p, e) == p.type \in Shows /\ p.id = e

(* What no scene has taken, in the order they will see it.                 *)
Receptions == { i \in DOMAIN calls : calls[i].call = "received" }
Arrived == IF Receptions = {} THEN <<>> ELSE calls[CHOOSE i \in Receptions : TRUE].packets
Pending == (tasks \o Arrived) \o wire

(* Where myStageIterator can be with each scene, and what is completed.    *)
Placed(s) ==
    \/ s.scene = "Main" /\ s.next \in {1, 2}
    \/ s.scene = "Loading" /\ s.next \in {2, 3} /\ s.life \in 1..LifeMax
    \/ s.scene = "Game" /\ s.next = 4
Reached(s) ==
    /\ s.scene # "Main" => "Main" \in completed
    /\ s.scene = "Game" => "Loading" \in completed
SceneInv ==
    /\ Placed(stage) /\ Reached(stage)
    /\ "Game" \notin completed
    /\ "Loading" \in completed => myID = Me /\ serving = "signed"

(* One reception at most waits, and none while a receive is outstanding.   *)
CallsInv ==
    /\ receiving => Receptions = {}
    /\ \A i, j \in Receptions : i = j
    /\ \A i \in DOMAIN calls :
         /\ calls[i].call = "sent" =>
              \E p \in Packets : calls[i].packets = <<p>> /\ p.type \in {"CS_SIGNIN"} \cup KeyTypes
         /\ calls[i].call = "failed" => calls[i].packets = <<>>
    /\ link = "none" => ~receiving /\ Receptions = {}

(* The request is in one place at most, and nowhere once the main scene is *)
(* done; no key has been pressed before the game is shown.                 *)
InSends(types) == { i \in DOMAIN sends : sends[i].type \in types }
InCalls(types) == { i \in DOMAIN calls : calls[i].call = "sent" /\ calls[i].packets[1].type \in types }
InTasks(types) == { i \in DOMAIN tasks : tasks[i].type \in types }
Nowhere(types) == InSends(types) = {} /\ InCalls(types) = {} /\ InTasks(types) = {}
RequestInv ==
    LET request == {"CS_SIGNIN"} IN
    /\ \A i, j \in InSends(request) : i = j
    /\ \A i, j \in InCalls(request) : i = j
    /\ InSends(request) = {} \/ InCalls(request) = {}
    /\ InSends(request) = {} \/ InTasks(request) = {}
    /\ InCalls(request) = {} \/ InTasks(request) = {}
    /\ \A i, j \in InTasks(request) : i = j
    /\ link = "none" \/ "Main" \in completed => Nowhere(request)
    /\ link = "none" => "Main" \notin completed
KeysInv == stage.scene # "Game" => Nowhere(KeyTypes)

(* Who sent what: only the server's packets are received.                  *)
OriginInv ==
    /\ \A i \in DOMAIN sends : sends[i].type \in {"CS_SIGNIN"} \cup KeyTypes
    /\ \A i \in DOMAIN Pending : i > Len(tasks) => Pending[i].type \in Answers \cup Shows

(* The server answers, and shows entities only behind a sign up.           *)
Sensible(p) ==
    /\ p.type \in Shows =>
         /\ p.id \in Entities /\ serving = "signed"
         /\ IF p.type = "SC_DISAPPEAR_OBJ" THEN p.at = Hidden /\ p.id # Me ELSE p.at \in Spots
    /\ p.type = "SC_SIGNUP" => serving = "signed"
    /\ p.type = "SC_SIGNIN_FAILED" => serving = "refused"
ServerInv ==
    /\ \A i \in DOMAIN Pending :
         /\ Sensible(Pending[i])
         /\ Pending[i].type \in Shows /\ "Loading" \notin completed =>
              \E j \in 1..(i - 1) : Pending[j].type = "SC_SIGNUP"
    /\ serving = "signed" /\ link # "reset" /\ "Loading" \notin completed =>
         \E j \in DOMAIN Pending : Pending[j].type = "SC_SIGNUP"

(* The id is known from where the sign up is among the tasks; it completes *)
(* SceneLoading but stays there until the game takes it.                   *)
AnswerInv ==
    /\ "Loading" \in completed /\ stage.scene # "Game" =>
         tasks # <<>> /\ Head(tasks).type = "SC_SIGNUP"
    /\ \A i \in DOMAIN tasks : tasks[i].type = "SC_SIGNUP" => myID = Me

(* What is visible is registered, and nothing else is.                     *)
ScreenInv ==
    /\ \A e \in Entities : instances[e] # 0 =>
         drawn[instances[e]].id = e /\ drawn[instances[e]].visible
    /\ \A i \in DOMAIN drawn : drawn[i].visible => instances[drawn[i].id] = i

(* Where the screen shows an entity, and whether the first n packets of s, *)
(* applied to a screen that shows e at before, would show it at spot.      *)
Screen(e) == IF instances[e] = 0 THEN Hidden ELSE drawn[instances[e]].at
Shown(s, e, n, before, spot) ==
    \/ /\ \A k \in 1..n : ~IsAbout(s[k], e)
       /\ spot = before
    \/ \E j \in 1..n :
         /\ IsAbout(s[j], e) /\ spot = s[j].at
         /\ \A k \in (j + 1)..n : ~IsAbout(s[k], e)

(* What the server told is what the screen will be; only who is shown by   *)
(* then is moved.                                                          *)
ToldInv ==
    link # "reset" =>
        \A e \in Entities : Shown(Pending, e, Len(Pending), Screen(e), told[e])
MovesInv ==
    \A i \in DOMAIN Pending : Pending[i].type = "SC_MOVE_OBJ" =>
        \E spot \in Spots :
            Shown(Pending, Pending[i].id, i - 1, Screen(Pending[i].id), spot)

PendInv == ServerInv /\ ToldInv /\ MovesInv

IInv ==
    /\ TypeOK /\ SceneInv /\ CallsInv /\ RequestInv /\ KeysInv /\ OriginInv
    /\ PendInv /\ AnswerInv /\ ScreenInv /\ CameraFollows

-----------------------------------------------------------------------------
(* Sequences of packets and what they show.                                *)

(* What the first n packets show depends on those only.                    *)
LEMMA ShownIsLocal ==
    ASSUME NEW s, NEW t, NEW e, NEW n \in Nat, NEW before, NEW spot,
           \A k \in 1..n : t[k] = s[k], Shown(s, e, n, before, spot)
    PROVE  Shown(t, e, n, before, spot)
<1>1. CASE (\A k \in 1..n : ~IsAbout(s[k], e)) /\ spot = before
  BY <1>1 DEF Shown
<1>2. CASE \E j \in 1..n : /\ IsAbout(s[j], e) /\ spot = s[j].at
                           /\ \A k \in (j + 1)..n : ~IsAbout(s[k], e)
  <2>1. PICK j \in 1..n : /\ IsAbout(s[j], e) /\ spot = s[j].at
                          /\ \A k \in (j + 1)..n : ~IsAbout(s[k], e)
    BY <1>2
  <2>2. \A k \in (j + 1)..n : ~IsAbout(t[k], e)
    BY <2>1
  <2>3. QED
    BY <2>1, <2>2 DEF Shown
<1>3. QED
  BY <1>1, <1>2 DEF Shown

(* A packet more decides, if it is about the entity.                       *)
LEMMA ShownByLast ==
    ASSUME NEW s, NEW e, NEW n \in Nat, NEW before, NEW spot
    PROVE  /\ IsAbout(s[n + 1], e) => Shown(s, e, n + 1, before, s[n + 1].at)
           /\ ~IsAbout(s[n + 1], e) /\ Shown(s, e, n, before, spot) =>
                Shown(s, e, n + 1, before, spot)
<1>1. ASSUME IsAbout(s[n + 1], e) PROVE Shown(s, e, n + 1, before, s[n + 1].at)
  BY <1>1 DEF Shown
<1>2. ASSUME ~IsAbout(s[n + 1], e), Shown(s, e, n, before, spot)
      PROVE  Shown(s, e, n + 1, before, spot)
  <2>1. CASE (\A k \in 1..n : ~IsAbout(s[k], e)) /\ spot = before
    BY <1>2, <2>1 DEF Shown
  <2>2. CASE \E j \in 1..n : /\ IsAbout(s[j], e) /\ spot = s[j].at
                             /\ \A k \in (j + 1)..n : ~IsAbout(s[k], e)
    <3>1. PICK j \in 1..n : /\ IsAbout(s[j], e) /\ spot = s[j].at
                            /\ \A k \in (j + 1)..n : ~IsAbout(s[k], e)
      BY <2>2
    <3>2. j \in 1..(n + 1) /\ \A k \in (j + 1)..(n + 1) : ~IsAbout(s[k], e)
      BY <1>2, <3>1
    <3>3. QED
      BY <3>1, <3>2 DEF Shown
  <2>3. QED
    BY <1>2, <2>1, <2>2 DEF Shown
<1>3. QED
  BY <1>1, <1>2

(* The first packet changes what the screen shows before the others.       *)
LEMMA ShownAfterFirst ==
    ASSUME NEW s, NEW t, NEW e, NEW n \in Nat \ {0}, NEW before, NEW spot,
           \A k \in 1..(n - 1) : t[k] = s[k + 1], Shown(s, e, n, before, spot)
    PROVE  Shown(t, e, n - 1, IF IsAbout(s[1], e) THEN s[1].at ELSE before, spot)
<1>1. CASE (\A k \in 1..n : ~IsAbout(s[k], e)) /\ spot = before
  BY <1>1 DEF Shown
<1>2. CASE \E j \in 1..n : /\ IsAbout(s[j], e) /\ spot = s[j].at
                           /\ \A k \in (j + 1)..n : ~IsAbout(s[k], e)
  <2>1. PICK j \in 1..n : /\ IsAbout(s[j], e) /\ spot = s[j].at
                          /\ \A k \in (j + 1)..n : ~IsAbout(s[k], e)
    BY <1>2
  <2>2. \A k \in 1..(n - 1) : k >= j => ~IsAbout(t[k], e)
    <3>1. \A k \in 1..(n - 1) : k >= j => k + 1 \in (j + 1)..n
      OBVIOUS
    <3>2. QED
      BY <2>1, <3>1
  <2>3. CASE j = 1
    <3>1. \A k \in 1..(n - 1) : ~IsAbout(t[k], e)
      BY <2>2, <2>3
    <3>2. QED
      BY <2>1, <2>3, <3>1 DEF Shown
  <2>4. CASE j # 1
    <3>1. j - 1 \in 1..(n - 1) /\ t[j - 1] = s[j]
      BY <2>4
    <3>2. \A k \in ((j - 1) + 1)..(n - 1) : ~IsAbout(t[k], e)
      BY <2>2
    <3>3. QED
      BY <2>1, <3>1, <3>2 DEF Shown
  <2>5. QED
    BY <2>3, <2>4
<1>3. QED
  BY <1>1, <1>2 DEF Shown

(* One packet of the client among the others shows nothing.                *)
LEMMA ShownAround ==
    ASSUME NEW s, NEW t, NEW e, NEW m \in Nat, NEW n \in Nat, m <= n, NEW before, NEW spot,
           \A k \in 1..m : t[k] = s[k], ~IsAbout(t[m + 1], e),
           \A k \in (m + 1)..n : t[k + 1] = s[k], Shown(s, e, n, before, spot)
    PROVE  Shown(t, e, n + 1, before, spot)
<1>0. ASSUME NEW i \in 0..n, \A k \in (i + 1)..n : ~IsAbout(s[k], e),
             NEW k \in (IF i > m THEN i + 2 ELSE i + 1)..(n + 1)
      PROVE  ~IsAbout(t[k], e)
  <2>1. CASE k <= m
    BY <1>0, <2>1
  <2>2. CASE k = m + 1
    BY <2>2
  <2>3. CASE k > m + 1
    <3>1. k - 1 \in (m + 1)..n /\ k - 1 \in (i + 1)..n
      BY <1>0, <2>3
    <3>2. t[(k - 1) + 1] = s[k - 1]
      BY <3>1
    <3>3. QED
      BY <1>0, <3>1, <3>2
  <2>4. QED
    BY <1>0, <2>1, <2>2, <2>3
<1>1. CASE (\A k \in 1..n : ~IsAbout(s[k], e)) /\ spot = before
  <2>1. \A k \in 1..(n + 1) : ~IsAbout(t[k], e)
    BY <1>0, <1>1
  <2>2. QED
    BY <1>1, <2>1 DEF Shown
<1>2. CASE \E j \in 1..n : /\ IsAbout(s[j], e) /\ spot = s[j].at
                           /\ \A k \in (j + 1)..n : ~IsAbout(s[k], e)
  <2>1. PICK j \in 1..n : /\ IsAbout(s[j], e) /\ spot = s[j].at
                          /\ \A k \in (j + 1)..n : ~IsAbout(s[k], e)
    BY <1>2
  <2>2. PICK i \in 1..(n + 1) : t[i] = s[j] /\ i = IF j > m THEN j + 1 ELSE j
    OBVIOUS
  <2>3. \A k \in (i + 1)..(n + 1) : ~IsAbout(t[k], e)
    BY <1>0, <2>1, <2>2
  <2>4. QED
    BY <2>1, <2>2, <2>3 DEF Shown
<1>3. QED
  BY <1>1, <1>2 DEF Shown

-----------------------------------------------------------------------------
(* How the steps change what is pending.                                   *)

(* The packets of the one reception that waits, if any.                    *)
LEMMA Receives ==
    ASSUME TypeOK, CallsInv
    PROVE  /\ Arrived \in Seq(Packets)
           /\ \A i \in Receptions : Arrived = calls[i].packets
<1>1. \A i \in DOMAIN calls : calls[i].packets \in Seq(Packets)
  <2>1. calls \in Seq([call : {"sent", "failed", "received"}, packets : Seq(Packets)])
    BY DEF TypeOK
  <2>2. \A i \in DOMAIN calls : calls[i] \in [call : {"sent", "failed", "received"}, packets : Seq(Packets)]
    BY <2>1, LenProperties, ElementOfSeq
  <2>3. QED
    BY <2>2
<1>2. CASE Receptions = {}
  BY <1>2 DEF Arrived
<1>3. ASSUME NEW i \in Receptions
      PROVE  Arrived = calls[i].packets
  BY <1>3 DEF Arrived, CallsInv
<1>4. QED
  BY <1>1, <1>2, <1>3 DEF Receptions

(* Other completions do not matter to it.                                  *)
LEMMA ArrivedStays ==
    ASSUME Receptions' = Receptions, \A i \in Receptions : calls'[i] = calls[i]
    PROVE  Arrived' = Arrived
<1>1. CASE Receptions = {}
  BY <1>1 DEF Arrived
<1>2. CASE Receptions # {}
  <2>1. (CHOOSE i \in Receptions : TRUE) \in Receptions
    BY <1>2
  <2>2. /\ Arrived = calls[CHOOSE i \in Receptions : TRUE].packets
        /\ Arrived' = calls'[CHOOSE i \in Receptions' : TRUE].packets
    BY <1>2 DEF Arrived
  <2>3. QED
    BY <2>1, <2>2
<1>3. QED
  BY <1>1, <1>2

(* Which packet is where.                                                  *)
LEMMA Pends ==
    ASSUME TypeOK, CallsInv
    PROVE  /\ Pending \in Seq(Packets)
           /\ Len(Pending) = Len(tasks) + Len(Arrived) + Len(wire)
           /\ Len(tasks) \in Nat /\ Len(Arrived) \in Nat /\ Len(wire) \in Nat
           /\ \A i \in 1..Len(tasks) : Pending[i] = tasks[i]
           /\ \A i \in 1..Len(Arrived) : Pending[Len(tasks) + i] = Arrived[i]
           /\ \A i \in 1..Len(wire) : Pending[Len(tasks) + Len(Arrived) + i] = wire[i]
<1>1. tasks \in Seq(Packets) /\ wire \in Seq(Packets) /\ Arrived \in Seq(Packets)
  BY Receives DEF TypeOK
<1>2. /\ tasks \o Arrived \in Seq(Packets)
      /\ Len(tasks \o Arrived) = Len(tasks) + Len(Arrived)
      /\ \A i \in 1..Len(tasks) + Len(Arrived) :
           (tasks \o Arrived)[i] = IF i <= Len(tasks) THEN tasks[i] ELSE Arrived[i - Len(tasks)]
  BY <1>1, ConcatProperties
<1>3. /\ Pending \in Seq(Packets)
      /\ Len(Pending) = Len(tasks \o Arrived) + Len(wire)
      /\ \A i \in 1..Len(tasks \o Arrived) + Len(wire) :
           Pending[i] = IF i <= Len(tasks \o Arrived) THEN (tasks \o Arrived)[i]
                        ELSE wire[i - Len(tasks \o Arrived)]
  BY <1>1, <1>2, ConcatProperties DEF Pending
<1>4. Len(tasks) \in Nat /\ Len(Arrived) \in Nat /\ Len(wire) \in Nat
  BY <1>1
<1>5. \A i \in 1..Len(tasks) : Pending[i] = tasks[i]
  BY <1>2, <1>3, <1>4
<1>6. ASSUME NEW i \in 1..Len(Arrived) PROVE Pending[Len(tasks) + i] = Arrived[i]
  <2>1. Pending[Len(tasks) + i] = (tasks \o Arrived)[Len(tasks) + i]
    BY <1>2, <1>3, <1>4
  <2>2. (tasks \o Arrived)[Len(tasks) + i] = Arrived[(Len(tasks) + i) - Len(tasks)]
    BY <1>2, <1>4
  <2>3. QED
    BY <1>4, <2>1, <2>2
<1>7. ASSUME NEW i \in 1..Len(wire) PROVE Pending[Len(tasks) + Len(Arrived) + i] = wire[i]
  <2>1. Pending[Len(tasks) + Len(Arrived) + i]
          = wire[(Len(tasks) + Len(Arrived) + i) - (Len(tasks) + Len(Arrived))]
    BY <1>2, <1>3, <1>4
  <2>2. QED
    BY <1>4, <2>1
<1>8. QED
  BY <1>2, <1>3, <1>4, <1>5, <1>6, <1>7

(* What is appended to wire is the last that pends.                        *)
LEMMA PendsLast ==
    ASSUME TypeOK, CallsInv, NEW p \in Packets, wire' = Append(wire, p), UNCHANGED <<tasks, calls>>
    PROVE  Pending' = Append(Pending, p)
<1>1. Arrived' = Arrived
  BY DEF Arrived, Receptions
<1>2. tasks \o Arrived \in Seq(Packets) /\ wire \in Seq(Packets) /\ Pending \in Seq(Packets)
  BY Receives, Pends DEF TypeOK
<1>3. Append(wire, p) = wire \o <<p>> /\ Append(Pending, p) = Pending \o <<p>>
  BY <1>2, AppendIsConcat
<1>4. <<p>> \in Seq(Packets)
  OBVIOUS
<1>5. QED
  BY <1>1, <1>2, <1>3, <1>4, ConcatAssociative DEF Pending

(* A reset loses what is not received.                                     *)
LEMMA ResetKeeps ==
    ASSUME TypeOK, CallsInv, Reset
    PROVE  /\ Receptions' = Receptions /\ Arrived' = Arrived
           /\ Pending' = tasks \o Arrived
<1>1. \A i \in DOMAIN calls : i \in DOMAIN calls' /\ calls'[i] = calls[i]
  BY DEF TypeOK, Reset
<1>2. \A i \in DOMAIN calls' : i \notin DOMAIN calls => calls'[i].call = "failed"
  BY DEF TypeOK, Reset
<1>3. Receptions' = Receptions
  BY <1>1, <1>2 DEF Receptions
<1>4. Arrived' = Arrived
  BY <1>1, <1>3, ArrivedStays DEF Receptions
<1>5. tasks \o Arrived \in Seq(Packets)
  BY Receives, ConcatProperties DEF TypeOK
<1>6. (tasks \o Arrived) \o <<>> = tasks \o Arrived
  BY <1>5, ConcatEmptySeq
<1>7. tasks' = tasks /\ wire' = <<>>
  BY DEF Reset, sceneVars
<1>8. QED
  BY <1>3, <1>4, <1>6, <1>7 DEF Pending

(* A send that is done is a completion, not yet a task.                    *)
LEMMA SendDoneKeeps ==
    ASSUME TypeOK, CallsInv, SendDone
    PROVE  Receptions' = Receptions /\ Arrived' = Arrived /\ Pending' = Pending
<1>1. \A i \in DOMAIN calls : i \in DOMAIN calls' /\ calls'[i] = calls[i]
  BY DEF TypeOK, SendDone
<1>2. \A i \in DOMAIN calls' : i \notin DOMAIN calls => calls'[i].call = "sent"
  BY DEF TypeOK, SendDone
<1>3. Receptions' = Receptions
  BY <1>1, <1>2 DEF Receptions
<1>4. Arrived' = Arrived
  BY <1>1, <1>3, ArrivedStays DEF Receptions
<1>5. tasks' = tasks /\ wire' = wire
  BY DEF SendDone, sceneVars
<1>6. QED
  BY <1>3, <1>4, <1>5 DEF Pending

(* A reception takes packets from the wire, a callback hands them over.    *)
LEMMA ReceiveDoneKeeps ==
    ASSUME TypeOK, CallsInv, ReceiveDone
    PROVE  /\ Receptions' = {Len(calls) + 1} /\ Pending' = Pending
           /\ \A i \in DOMAIN calls : calls'[i] = calls[i]
           /\ DOMAIN calls' = 1..(Len(calls) + 1)
<1>1. Receptions = {} /\ Arrived = <<>>
  BY DEF ReceiveDone, CallsInv, Arrived
<1>2. PICK first \in Seq(Packets) :
        /\ calls' = Append(calls, [call |-> "received", packets |-> first])
        /\ wire' \in Seq(Packets) /\ wire = first \o wire'
  <2>1. CASE \E n \in 1..Len(wire) :
            /\ calls' = Append(calls, [call |-> "received", packets |-> SubSeq(wire, 1, n)])
            /\ wire' = SubSeq(wire, n + 1, Len(wire))
    <3>1. PICK n \in 1..Len(wire) :
            /\ calls' = Append(calls, [call |-> "received", packets |-> SubSeq(wire, 1, n)])
            /\ wire' = SubSeq(wire, n + 1, Len(wire))
      BY <2>1
    <3>2. wire \in Seq(Packets)
      BY DEF TypeOK
    <3>3. SubSeq(wire, 1, n) \in Seq(Packets) /\ SubSeq(wire, n + 1, Len(wire)) \in Seq(Packets)
      BY <3>2, SubSeqProperties
    <3>4. SubSeq(wire, 1, n) \o SubSeq(wire, n + 1, Len(wire)) = SubSeq(wire, 1, Len(wire))
      BY <3>2, ConcatAdjacentSubSeq
    <3>5. SubSeq(wire, 1, Len(wire)) = wire
      BY <3>2, SubSeqFull
    <3>6. QED
      BY <3>1, <3>3, <3>4, <3>5
  <2>2. CASE calls' = Append(calls, [call |-> "received", packets |-> <<>>]) /\ wire' = wire
    <3>1. wire \in Seq(Packets)
      BY DEF TypeOK
    <3>2. wire = <<>> \o wire
      BY <3>1, ConcatEmptySeq
    <3>3. <<>> \in Seq(Packets)
      OBVIOUS
    <3>4. QED
      BY <2>2, <3>1, <3>2, <3>3
  <2>3. QED
    BY <2>1, <2>2 DEF ReceiveDone
<1>3. /\ \A i \in DOMAIN calls : i \in DOMAIN calls' /\ calls'[i] = calls[i]
      /\ DOMAIN calls' = 1..(Len(calls) + 1)
      /\ calls'[Len(calls) + 1] = [call |-> "received", packets |-> first]
  BY <1>2 DEF TypeOK
<1>4. Receptions' = {Len(calls) + 1}
  <2>1. \A i \in 1..Len(calls) : i \in DOMAIN calls
    BY DEF TypeOK
  <2>2. Len(calls) \in Nat
    BY DEF TypeOK
  <2>3. \A i \in DOMAIN calls' : calls'[i].call = "received" <=> i = Len(calls) + 1
    BY <1>1, <1>3, <2>1, <2>2 DEF Receptions
  <2>4. QED
    BY <1>3, <2>2, <2>3 DEF Receptions
<1>5. Arrived' = first
  BY <1>3, <1>4 DEF Arrived
<1>6. tasks \in Seq(Packets) /\ tasks \o <<>> = tasks
  BY ConcatEmptySeq DEF TypeOK
<1>7. Pending' = tasks \o (first \o wire')
  <2>1. tasks' = tasks
    BY DEF ReceiveDone, sceneVars
  <2>2. Pending' = (tasks \o first) \o wire'
    BY <1>5, <2>1 DEF Pending
  <2>3. QED
    BY <1>2, <1>6, <2>2, ConcatAssociative
<1>8. QED
  BY <1>1, <1>2, <1>3, <1>4, <1>6, <1>7 DEF Pending

(* The callback makes tasks of what arrived.                               *)
LEMMA CallbackRecvKeeps ==
    ASSUME TypeOK, CallsInv, CallbackRecv
    PROVE  /\ Receptions' = {} /\ Pending' = Pending
           /\ Head(calls).packets = Arrived /\ tasks' = tasks \o Arrived
           /\ DOMAIN calls' = 1..(Len(calls) - 1) /\ Len(calls) \in Nat \ {0}
           /\ \A i \in DOMAIN calls' : calls'[i] = calls[i + 1] /\ i + 1 \in DOMAIN calls
<1>1. /\ 1 \in DOMAIN calls /\ calls[1] = Head(calls) /\ Len(calls) \in Nat \ {0}
      /\ DOMAIN calls' = 1..(Len(calls) - 1)
      /\ \A i \in DOMAIN calls' : calls'[i] = calls[i + 1] /\ i + 1 \in DOMAIN calls
  BY DEF TypeOK, CallbackRecv
<1>2. 1 \in Receptions
  BY <1>1 DEF Receptions, CallbackRecv
<1>3. Receptions' = {}
  BY <1>1, <1>2 DEF Receptions, CallsInv
<1>4. Head(calls).packets = Arrived
  BY <1>1, <1>2, Receives
<1>5. /\ tasks' = tasks \o Arrived /\ tasks' \o <<>> = tasks' /\ wire' = wire
      /\ Arrived' = <<>>
  <2>1. tasks \o Arrived \in Seq(Packets)
    BY Receives, ConcatProperties DEF TypeOK
  <2>2. QED
    BY <1>3, <1>4, <2>1, ConcatEmptySeq DEF Arrived, CallbackRecv
<1>6. QED
  BY <1>1, <1>3, <1>4, <1>5 DEF Pending

(* The callback of a send puts a packet of the client among the others, or *)
(* none.                                                                   *)
LEMMA CallbackSendKeeps ==
    ASSUME TypeOK, CallsInv, CallbackSend
    PROVE  /\ Receptions' = { i \in DOMAIN calls' : i + 1 \in Receptions } /\ Arrived' = Arrived
           /\ Pending' = ((tasks \o Head(calls).packets) \o Arrived) \o wire
           /\ DOMAIN calls' = 1..(Len(calls) - 1) /\ Len(calls) \in Nat \ {0}
           /\ \A i \in DOMAIN calls' : calls'[i] = calls[i + 1] /\ i + 1 \in DOMAIN calls
           /\ 1 \in DOMAIN calls /\ Head(calls) = calls[1]
<1>1. /\ 1 \in DOMAIN calls /\ calls[1] = Head(calls) /\ Len(calls) \in Nat \ {0}
      /\ DOMAIN calls = 1..Len(calls)
      /\ DOMAIN calls' = 1..(Len(calls) - 1)
      /\ \A i \in DOMAIN calls' : calls'[i] = calls[i + 1] /\ i + 1 \in DOMAIN calls
  BY DEF TypeOK, CallbackSend
<1>2. Receptions' = { i \in DOMAIN calls' : i + 1 \in Receptions }
  BY <1>1 DEF Receptions
<1>3. 1 \notin Receptions
  BY <1>1 DEF Receptions, CallbackSend
<1>4. Arrived' = Arrived
  <2>1. CASE Receptions = {}
    BY <1>2, <2>1 DEF Arrived
  <2>2. CASE Receptions # {}
    <3>1. PICK i \in Receptions : TRUE
      BY <2>2
    <3>2. i - 1 \in DOMAIN calls' /\ (i - 1) + 1 = i
      BY <1>1, <1>3, <3>1 DEF Receptions
    <3>3. i - 1 \in Receptions'
      BY <1>2, <3>1, <3>2
    <3>4. \A j \in Receptions' : j = i - 1
      <4>1. ASSUME NEW j \in Receptions' PROVE j = i - 1
        <5>1. j \in DOMAIN calls' /\ j + 1 \in Receptions
          BY <1>2
        <5>2. j + 1 = i /\ j \in Nat /\ i \in Nat
          BY <1>1, <3>1, <5>1 DEF CallsInv, Receptions
        <5>3. QED
          BY <5>2
      <4>2. QED
        BY <4>1
    <3>5. Arrived' = calls'[i - 1].packets
      BY <3>3, <3>4 DEF Arrived
    <3>6. QED
      BY <1>1, <3>1, <3>2, <3>5, Receives
  <2>3. QED
    BY <2>1, <2>2
<1>5. QED
  BY <1>1, <1>2, <1>4 DEF Pending, CallbackSend

(* Taking the first commutes with what follows.                            *)
LEMMA TailOfConcat ==
    ASSUME NEW S, NEW s \in Seq(S), s # <<>>, NEW t \in Seq(S)
    PROVE  /\ Tail(s) \o t = Tail(s \o t) /\ s \o t # <<>>
           /\ s \o t \in Seq(S) /\ Head(s \o t) = Head(s)
<1>1. /\ s \o t \in Seq(S) /\ Len(s \o t) = Len(s) + Len(t)
      /\ \A i \in 1..(Len(s) + Len(t)) :
           (s \o t)[i] = IF i <= Len(s) THEN s[i] ELSE t[i - Len(s)]
  BY ConcatProperties
<1>2. Len(s) \in Nat \ {0} /\ Len(t) \in Nat
  BY EmptySeq
<1>3. s \o t # <<>> /\ Head(s \o t) = Head(s)
  BY <1>1, <1>2
<1>4. /\ Tail(s \o t) \in Seq(S) /\ Len(Tail(s \o t)) = Len(s \o t) - 1
      /\ \A i \in 1..Len(Tail(s \o t)) : Tail(s \o t)[i] = (s \o t)[i + 1]
  BY <1>1, <1>3, HeadTailProperties
<1>5. /\ Tail(s) \in Seq(S) /\ Len(Tail(s)) = Len(s) - 1
      /\ \A i \in 1..Len(Tail(s)) : Tail(s)[i] = s[i + 1]
  BY HeadTailProperties
<1>6. /\ Tail(s) \o t \in Seq(S) /\ Len(Tail(s) \o t) = Len(Tail(s)) + Len(t)
      /\ \A i \in 1..(Len(Tail(s)) + Len(t)) :
           (Tail(s) \o t)[i] = IF i <= Len(Tail(s)) THEN Tail(s)[i] ELSE t[i - Len(Tail(s))]
  BY <1>5, ConcatProperties
<1>7. Len(Tail(s) \o t) = Len(Tail(s \o t))
  BY <1>1, <1>2, <1>4, <1>5, <1>6
<1>8. ASSUME NEW i \in 1..Len(Tail(s) \o t)
      PROVE  (Tail(s) \o t)[i] = Tail(s \o t)[i]
  BY <1>1, <1>2, <1>4, <1>5, <1>6, <1>7
<1>9. Tail(s) \o t = Tail(s \o t)
  BY <1>4, <1>6, <1>7, <1>8, SeqEqual
<1>10. QED
  BY <1>1, <1>3, <1>9

(* The oldest task is the first that pends.                                *)
LEMMA TaskTaken ==
    ASSUME TypeOK, CallsInv, tasks # <<>>, tasks' = Tail(tasks), UNCHANGED <<calls, wire>>
    PROVE  /\ Arrived' = Arrived /\ Pending' = Tail(Pending)
           /\ Pending # <<>> /\ Pending[1] = Head(tasks)
<1>1. Arrived' = Arrived
  BY DEF Arrived, Receptions
<1>2. /\ tasks \in Seq(Packets) /\ Arrived \in Seq(Packets) /\ wire \in Seq(Packets)
      /\ Tail(tasks) \in Seq(Packets) /\ Len(Tail(tasks)) = Len(tasks) - 1
  BY Receives DEF TypeOK
<1>3. Pending' = (Tail(tasks) \o Arrived) \o wire
  BY <1>1 DEF Pending
<1>4. /\ Tail(tasks) \o Arrived = Tail(tasks \o Arrived) /\ tasks \o Arrived # <<>>
      /\ tasks \o Arrived \in Seq(Packets) /\ Head(tasks \o Arrived) = Head(tasks)
  BY <1>2, TailOfConcat
<1>5. /\ Tail(tasks \o Arrived) \o wire = Tail(Pending) /\ Pending # <<>>
      /\ Pending \in Seq(Packets) /\ Head(Pending) = Head(tasks)
  BY <1>2, <1>4, TailOfConcat DEF Pending
<1>6. \A s \in Seq(Packets) : s # <<>> => s[1] = Head(s)
  OBVIOUS
<1>7. QED
  BY <1>1, <1>3, <1>4, <1>5, <1>6

-----------------------------------------------------------------------------
(* The scenes and the screen.                                              *)

(* The scenes, spelled out.                                                *)
LEMMA StageNames == Stages = <<"Main", "Loading", "Game">> /\ Len(Stages) = 3
                    /\ Range(Stages) = {"Main", "Loading", "Game"}
  BY DEF Stages, Range

(* No jump leaves the stages, and no scene is left forwards before it is   *)
(* completed; the game is not left.                                        *)
LEMMA Advances ==
    ASSUME TypeOK, SceneInv
    PROVE  /\ Advance(stage) \in [scene : Range(Stages), next : 1..4, life : 0..LifeMax]
           /\ Placed(Advance(stage)) /\ Reached(Advance(stage))
           /\ stage.scene = "Game" => Advance(stage).scene = "Game"
<1> DEFINE Shapes == [scene : Range(Stages), next : 1..4, life : 0..LifeMax]
<1> USE StageNames, ClientScenesAssumption
<1>1. stage \in Shapes /\ Placed(stage) /\ Reached(stage)
  BY DEF TypeOK, SceneInv
<1>2. ASSUME NEW s \in Shapes, Placed(s) \/ (s.scene = "Loading" /\ s.next \in {2, 3}),
             Reached(s), s.scene \in completed, "Game" \notin completed
      PROVE  /\ JumpToNextScene(s) \in Shapes /\ Placed(JumpToNextScene(s))
             /\ Reached(JumpToNextScene(s))
  <2>1. CASE s.scene = "Main" /\ s.next = 1
    <3>1. JumpToNextScene(s) = [scene |-> "Main", next |-> 2, life |-> s.life]
      BY <2>1 DEF JumpToNextScene, Enter
    <3>2. QED
      BY <1>2, <2>1, <3>1 DEF Placed, Reached
  <2>2. CASE s.next = 2
    <3>1. JumpToNextScene(s) = [scene |-> "Loading", next |-> 3, life |-> LifeMax]
      BY <2>2 DEF JumpToNextScene, Enter
    <3>2. QED
      BY <1>2, <2>2, <3>1 DEF Placed, Reached
  <2>3. CASE s.scene = "Loading" /\ s.next = 3
    <3>1. JumpToNextScene(s) = [scene |-> "Game", next |-> 4, life |-> s.life]
      BY <2>3 DEF JumpToNextScene, Enter
    <3>2. QED
      BY <1>2, <2>3, <3>1 DEF Placed, Reached
  <2>4. QED
    BY <1>2, <2>1, <2>2, <2>3 DEF Placed
<1>3. /\ SceneUpdate(stage) \in Shapes /\ Placed(SceneUpdate(stage)) /\ Reached(SceneUpdate(stage))
      /\ stage.scene = "Game" => SceneUpdate(stage) = stage
  <2>1. CASE stage.scene # "Loading"
    BY <1>1, <2>1 DEF SceneUpdate
  <2>2. CASE stage.scene = "Loading"
    <3> DEFINE older == [stage EXCEPT !.life = @ - 1]
    <3>1. older = [scene |-> "Loading", next |-> stage.next, life |-> stage.life - 1]
      BY <1>1, <2>2
    <3>2. stage.life \in 1..LifeMax /\ stage.next \in {2, 3}
      BY <1>1, <2>2 DEF Placed
    <3>3. CASE older.life <= 0
      <4>1. SceneUpdate(stage) = JumpToPrevScene(older)
        BY <2>2, <3>3 DEF SceneUpdate
      <4>2. CASE stage.next = 2
        <5>1. JumpToPrevScene(older) = [scene |-> "Main", next |-> 1, life |-> stage.life - 1]
          BY <3>1, <4>2 DEF JumpToPrevScene, Enter
        <5>2. QED
          BY <2>2, <3>2, <4>1, <5>1 DEF Placed, Reached
      <4>3. CASE stage.next = 3
        <5>1. JumpToPrevScene(older) = [scene |-> "Loading", next |-> 2, life |-> LifeMax]
          BY <3>1, <4>3 DEF JumpToPrevScene, Enter
        <5>2. QED
          BY <1>1, <2>2, <4>1, <5>1 DEF Placed, Reached
      <4>4. QED
        BY <3>2, <4>2, <4>3
    <3>4. CASE ~(older.life <= 0)
      <4>1. SceneUpdate(stage) = older
        BY <2>2, <3>4 DEF SceneUpdate
      <4>2. QED
        BY <1>1, <2>2, <3>1, <3>2, <3>4, <4>1 DEF Placed, Reached
    <3>5. QED
      BY <3>3, <3>4
  <2>3. QED
    BY <2>1, <2>2
<1>4. "Game" \notin completed
  BY DEF SceneInv
<1>5. QED
  BY <1>2, <1>3, <1>4 DEF Advance

(* A field of an instance is replaced.                                     *)
LEMMA FigureChanged ==
    ASSUME NEW f \in [id : Entities, at : Spots, visible : BOOLEAN], NEW spot
    PROVE  /\ [f EXCEPT !.visible = FALSE] = [id |-> f.id, at |-> f.at, visible |-> FALSE]
           /\ f.visible => [f EXCEPT !.at = spot] = [id |-> f.id, at |-> spot, visible |-> TRUE]
<1>1. ASSUME NEW e, NEW at, NEW b \in BOOLEAN, NEW g \in [id : {e}, at : {at}, visible : {b}]
      PROVE  g = [id |-> e, at |-> at, visible |-> b]
  BY <1>1
<1>2. [f EXCEPT !.visible = FALSE] \in [id : {f.id}, at : {f.at}, visible : {FALSE}]
  OBVIOUS
<1>3. f.visible => [f EXCEPT !.at = spot] \in [id : {f.id}, at : {spot}, visible : {TRUE}]
  OBVIOUS
<1>4. QED
  BY <1>1, <1>2, <1>3

(* What a packet about an entity does to the screen.                       *)
LEMMA ScreenChanges ==
    ASSUME TypeOK, ScreenInv, CameraFollows, NEW p \in Packets, Sensible(p), p.type \in Shows,
           myID = Me,
           \/ p.type = "SC_APPEAR_OBJ" /\ Appear(p)
           \/ p.type = "SC_DISAPPEAR_OBJ" /\ Disappear(p)
           \/ p.type = "SC_MOVE_OBJ" /\ Move(p) /\ instances[p.id] # 0
    PROVE  /\ drawn' \in Seq([id : Entities, at : Spots, visible : BOOLEAN])
           /\ instances' \in [Entities -> 0..Len(drawn')] /\ player' \in 0..Len(drawn')
           /\ ScreenInv' /\ CameraFollows'
           /\ \A e \in Entities : Screen(e)' = IF p.id = e THEN p.at ELSE Screen(e)
<1> DEFINE Figures == [id : Entities, at : Spots, visible : BOOLEAN]
           x == p.id
           new == [id |-> x, at |-> p.at, visible |-> TRUE]
<1>1. /\ x \in Entities
      /\ IF p.type = "SC_DISAPPEAR_OBJ" THEN p.at = Hidden /\ x # Me ELSE p.at \in Spots
  BY DEF Sensible
<1>2. /\ drawn \in Seq(Figures) /\ Len(drawn) \in Nat /\ DOMAIN drawn = 1..Len(drawn)
      /\ instances \in [Entities -> 0..Len(drawn)] /\ player \in 0..Len(drawn)
      /\ \A i \in 1..Len(drawn) : drawn[i] \in Figures
  BY LenProperties, ElementOfSeq DEF TypeOK
<1>3. Me \in Entities
  BY ClientScenesAssumption
<1>4. ASSUME NEW i \in 1..Len(drawn), NEW f \in Figures, f.id = x, i = instances[x],
             drawn' = [drawn EXCEPT ![i] = f], f.visible, UNCHANGED <<instances, player>>
      PROVE  /\ drawn' \in Seq(Figures) /\ Len(drawn') = Len(drawn)
             /\ ScreenInv' /\ CameraFollows'
             /\ \A e \in Entities : Screen(e)' = IF x = e THEN f.at ELSE Screen(e)
  <2>1. /\ drawn' \in Seq(Figures) /\ Len(drawn') = Len(drawn)
        /\ \A j \in 1..Len(drawn) : drawn'[j] = IF j = i THEN f ELSE drawn[j]
    BY <1>2, <1>4, ExceptSeq
  <2>2. DOMAIN drawn' = 1..Len(drawn)
    BY <2>1, LenProperties
  <2>3. ScreenInv'
    BY <1>1, <1>2, <1>4, <2>1, <2>2 DEF ScreenInv
  <2>4. CameraFollows'
    BY <1>2, <1>3, <1>4, <2>1 DEF CameraFollows, ScreenInv
  <2>5. ASSUME NEW e \in Entities
        PROVE  Screen(e)' = IF x = e THEN f.at ELSE Screen(e)
    BY <1>1, <1>2, <1>4, <2>1, <2>5 DEF Screen, ScreenInv
  <2>6. QED
    BY <2>1, <2>3, <2>4, <2>5
<1>5. CASE p.type = "SC_APPEAR_OBJ" /\ Appear(p)
  <2>1. new \in Figures /\ p.at \in Spots
    BY <1>1, <1>5
  <2>2. CASE instances[x] # 0
    <3>1. instances[x] \in 1..Len(drawn)
      BY <1>1, <1>2, <2>2
    <3>2. drawn' = [drawn EXCEPT ![instances[x]] = new] /\ UNCHANGED <<instances, player>>
      BY <1>5, <2>2 DEF Appear
    <3>3. QED
      BY <1>2, <1>4, <2>1, <3>1, <3>2
  <2>3. CASE instances[x] = 0
    <3>1. /\ drawn' = Append(drawn, new)
          /\ instances' = [instances EXCEPT ![x] = Len(drawn) + 1]
          /\ player' = IF player = 0 /\ x = Me THEN Len(drawn) + 1 ELSE player
      BY <1>5, <2>3 DEF Appear
    <3>2. /\ drawn' \in Seq(Figures) /\ Len(drawn') = Len(drawn) + 1
          /\ \A i \in 1..Len(drawn) : drawn'[i] = drawn[i]
          /\ drawn'[Len(drawn) + 1] = new
      BY <1>2, <2>1, <3>1, AppendProperties
    <3>3. DOMAIN drawn' = 1..(Len(drawn) + 1)
      BY <3>2, LenProperties
    <3>4. instances' \in [Entities -> 0..Len(drawn')] /\ player' \in 0..Len(drawn')
      BY <1>1, <1>2, <3>1, <3>2
    <3>5. ScreenInv'
      BY <1>1, <1>2, <2>3, <3>1, <3>2, <3>3 DEF ScreenInv
    <3>6. CameraFollows'
      BY <1>1, <1>2, <1>3, <2>3, <3>1, <3>2 DEF CameraFollows
    <3>7. ASSUME NEW e \in Entities
          PROVE  Screen(e)' = IF x = e THEN p.at ELSE Screen(e)
      BY <1>1, <1>2, <2>3, <3>1, <3>2, <3>7 DEF Screen
    <3>8. QED
      BY <3>2, <3>4, <3>5, <3>6, <3>7
  <2>4. QED
    BY <2>2, <2>3
<1>6. CASE p.type = "SC_DISAPPEAR_OBJ" /\ Disappear(p)
  <2>1. p.at = Hidden /\ x # Me /\ player' = player /\ instances' = [instances EXCEPT ![x] = 0]
    BY <1>1, <1>6 DEF Disappear
  <2>2. CASE instances[x] = 0
    <3>1. drawn' = drawn /\ instances' = instances
      BY <1>1, <1>2, <1>6, <2>1, <2>2 DEF Disappear
    <3>2. ScreenInv' /\ CameraFollows'
      BY <2>1, <3>1 DEF ScreenInv, CameraFollows
    <3>3. QED
      BY <1>2, <2>1, <2>2, <3>1, <3>2 DEF Screen
  <2>3. CASE instances[x] # 0
    <3> DEFINE i == instances[x]
               f == [id |-> x, at |-> drawn[i].at, visible |-> FALSE]
    <3>1. i \in 1..Len(drawn) /\ drawn[i] \in Figures /\ drawn[i].id = x
      BY <1>1, <1>2, <2>3 DEF ScreenInv
    <3>2. drawn' = [drawn EXCEPT ![i] = f] /\ f \in Figures /\ ~f.visible /\ f.id = x
      <4>1. drawn' = [drawn EXCEPT ![i].visible = FALSE]
        BY <1>6, <2>3 DEF Disappear
      <4>2. [drawn[i] EXCEPT !.visible = FALSE] = f
        BY <3>1, FigureChanged
      <4>3. QED
        BY <1>2, <3>1, <4>1, <4>2
    <3> HIDE DEF f
    <3>3. /\ drawn' \in Seq(Figures) /\ Len(drawn') = Len(drawn)
          /\ \A j \in 1..Len(drawn) : drawn'[j] = IF j = i THEN f ELSE drawn[j]
      BY <1>2, <3>1, <3>2, ExceptSeq
    <3>4. DOMAIN drawn' = 1..Len(drawn)
      BY <3>3, LenProperties
    <3>5. \A e \in Entities : e # x => instances'[e] = instances[e] /\ instances[e] # i
      BY <1>1, <1>2, <2>1, <2>3 DEF ScreenInv
    <3>6. instances'[x] = 0 /\ instances' \in [Entities -> 0..Len(drawn')]
      BY <1>1, <1>2, <2>1, <3>3
    <3>7. ScreenInv'
      <4>1. ASSUME NEW e \in Entities, instances'[e] # 0
            PROVE  drawn'[instances'[e]].id = e /\ drawn'[instances'[e]].visible
        <5>1. e # x /\ instances'[e] = instances[e] /\ instances[e] # i
          BY <3>5, <3>6, <4>1
        <5>2. instances[e] \in 1..Len(drawn)
          BY <1>2, <4>1, <5>1
        <5>3. QED
          BY <3>3, <4>1, <5>1, <5>2 DEF ScreenInv
      <4>2. ASSUME NEW j \in DOMAIN drawn', drawn'[j].visible
            PROVE  instances'[drawn'[j].id] = j
        <5>1. j \in 1..Len(drawn) /\ j # i /\ drawn'[j] = drawn[j] /\ drawn[j].id \in Entities
          BY <1>2, <3>2, <3>3, <3>4, <4>2
        <5>2. instances[drawn[j].id] = j
          BY <1>2, <4>2, <5>1 DEF ScreenInv
        <5>3. QED
          BY <3>5, <5>1, <5>2
      <4>3. QED
        BY <4>1, <4>2 DEF ScreenInv
    <3>8. CameraFollows'
      BY <1>2, <1>3, <2>1, <3>3, <3>5 DEF CameraFollows
    <3>9. ASSUME NEW e \in Entities
          PROVE  Screen(e)' = IF x = e THEN p.at ELSE Screen(e)
      BY <1>2, <2>1, <3>3, <3>5, <3>6, <3>9 DEF Screen
    <3>10. QED
      BY <1>2, <2>1, <3>3, <3>6, <3>7, <3>8, <3>9
  <2>4. QED
    BY <2>2, <2>3
<1>7. CASE p.type = "SC_MOVE_OBJ" /\ Move(p) /\ instances[x] # 0
  <2> DEFINE i == instances[x]
             f == [id |-> x, at |-> p.at, visible |-> TRUE]
  <2>1. i \in 1..Len(drawn) /\ drawn[i] \in Figures /\ drawn[i].id = x /\ drawn[i].visible
    BY <1>1, <1>2, <1>7 DEF ScreenInv
  <2>2. /\ drawn' = [drawn EXCEPT ![i] = f] /\ UNCHANGED <<instances, player>>
        /\ f \in Figures /\ f.visible /\ f.id = x /\ f.at = p.at
    <3>1. drawn' = [drawn EXCEPT ![i].at = p.at] /\ UNCHANGED <<instances, player>>
      BY <1>7 DEF Move
    <3>2. drawn[i].visible = TRUE
      BY <2>1
    <3>3. [drawn[i] EXCEPT !.at = p.at] = f
      BY <2>1, <3>2, FigureChanged
    <3>4. p.at \in Spots
      BY <1>1, <1>7
    <3>5. QED
      BY <1>1, <1>2, <2>1, <3>1, <3>3, <3>4
  <2>3. QED
    BY <1>2, <1>4, <2>1, <2>2
<1>8. QED
  BY <1>5, <1>6, <1>7

-----------------------------------------------------------------------------
(* What pends stays sensible however it changes.                           *)

(* Nothing that pends or is shown changes.                                 *)
LEMMA PendSame ==
    ASSUME PendInv, Pending' = Pending, UNCHANGED <<serving, told, completed, drawn, instances>>,
           link' # "reset" => link # "reset"
    PROVE  PendInv'
<1>1. ServerInv'
  BY DEF PendInv, ServerInv, Sensible
<1>2. \A e \in Entities : Screen(e)' = Screen(e)
  BY DEF Screen
<1>3. ToldInv'
  BY <1>2 DEF PendInv, ToldInv
<1>4. MovesInv'
  BY DEF PendInv, MovesInv, Screen
<1>5. QED
  BY <1>1, <1>3, <1>4 DEF PendInv

(* The end is lost.                                                        *)
LEMMA PendCut ==
    ASSUME TypeOK, CallsInv, PendInv, Reset
    PROVE  PendInv'
<1>1. /\ Pending' = tasks \o Arrived /\ Len(Pending') = Len(tasks) + Len(Arrived)
      /\ Len(Pending') \in Nat /\ Len(Pending) \in Nat /\ Len(Pending') <= Len(Pending)
      /\ DOMAIN Pending' = 1..Len(Pending') /\ DOMAIN Pending = 1..Len(Pending)
  <2>1. /\ tasks \o Arrived \in Seq(Packets)
        /\ Len(tasks \o Arrived) = Len(tasks) + Len(Arrived)
    BY Receives, ConcatProperties DEF TypeOK
  <2>2. Pending \in Seq(Packets)
    BY Pends
  <2>3. QED
    BY <2>1, <2>2, ResetKeeps, Pends, LenProperties
<1>2. \A i \in 1..Len(Pending') : Pending'[i] = Pending[i]
  <2>1. /\ wire \in Seq(Packets) /\ tasks \o Arrived \in Seq(Packets)
    BY Receives, ConcatProperties DEF TypeOK
  <2>2. \A i \in 1..Len(tasks \o Arrived) : Pending[i] = (tasks \o Arrived)[i]
    BY <2>1, ConcatProperties, LenProperties DEF Pending
  <2>3. QED
    BY <1>1, <2>2
<1>3. link' = "reset" /\ UNCHANGED <<serving, told, completed, drawn, instances>>
  BY DEF Reset, serverVars, sceneVars
<1>4. ServerInv'
  <2>1. ASSUME NEW i \in DOMAIN Pending' PROVE Sensible(Pending[i]) /\ i \in DOMAIN Pending
    BY <1>1 DEF PendInv, ServerInv
  <2>2. \A i \in DOMAIN Pending' : \A j \in 1..(i - 1) : Pending'[j] = Pending[j]
    BY <1>1, <1>2
  <2>3. ASSUME NEW i \in DOMAIN Pending' PROVE Sensible(Pending[i])'
    BY <1>1, <1>2, <1>3, <2>1 DEF Sensible
  <2>4. ASSUME NEW i \in DOMAIN Pending', Pending'[i].type \in Shows,
               "Loading" \notin completed'
        PROVE  \E j \in 1..(i - 1) : Pending'[j].type = "SC_SIGNUP"
    <3>1. i \in DOMAIN Pending /\ Pending[i].type \in Shows /\ "Loading" \notin completed
      BY <1>1, <1>2, <1>3, <2>1, <2>4
    <3>2. PICK j \in 1..(i - 1) : Pending[j].type = "SC_SIGNUP"
      BY <3>1 DEF PendInv, ServerInv
    <3>3. QED
      BY <2>2, <3>2
  <2>5. QED
    BY <1>3, <2>3, <2>4 DEF ServerInv
<1>5. ToldInv'
  BY <1>3 DEF ToldInv
<1>6. MovesInv'
  <2>1. SUFFICES ASSUME NEW i \in DOMAIN Pending', Pending[i].type = "SC_MOVE_OBJ"
                 PROVE  \E spot \in Spots :
                          Shown(Pending', Pending[i].id, i - 1, Screen(Pending[i].id), spot)
    BY <1>1, <1>2, <1>3 DEF MovesInv, Screen
  <2>2. PICK spot \in Spots : Shown(Pending, Pending[i].id, i - 1, Screen(Pending[i].id), spot)
    BY <1>1, <2>1 DEF PendInv, MovesInv
  <2>3. i - 1 \in Nat /\ \A k \in 1..(i - 1) : Pending'[k] = Pending[k]
    BY <1>1, <1>2
  <2>4. QED
    BY <2>2, <2>3, ShownIsLocal
<1>7. QED
  BY <1>4, <1>5, <1>6 DEF PendInv

(* The server's next packet comes to the end; told says what it shows.     *)
LEMMA PendLast ==
    ASSUME TypeOK, CallsInv, PendInv, NEW p \in Packets,
           wire' = Append(wire, p), link = "open",
           UNCHANGED <<link, tasks, calls, completed, drawn, instances>>,
           serving' = serving \/ (serving = "idle" /\ serving' \in {"signed", "refused"}),
           Sensible(p)', p.type \in Answers \cup Shows,
           p.type \in Shows => serving = "signed",
           serving = "signed" \/ serving' # "signed" \/ p.type = "SC_SIGNUP",
           told' = IF p.type \in Shows THEN [told EXCEPT ![p.id] = p.at] ELSE told,
           p.type = "SC_MOVE_OBJ" => told[p.id] # Hidden
    PROVE  PendInv'
<1> DEFINE n == Len(Pending)
<1>1. /\ n \in Nat /\ DOMAIN Pending = 1..n
      /\ Len(Pending') = n + 1 /\ DOMAIN Pending' = 1..(n + 1)
      /\ \A i \in 1..n : Pending'[i] = Pending[i]
      /\ Pending'[n + 1] = p
  <2>1. Pending' = Append(Pending, p) /\ Pending \in Seq(Packets)
    BY Pends, PendsLast
  <2>2. QED
    BY <2>1, LenProperties, AppendProperties
<1> HIDE DEF n
<1>2. ServerInv'
  <2>1. \A i \in 1..n : Sensible(Pending[i])'
    BY <1>1 DEF PendInv, ServerInv, Sensible
  <2>2. ASSUME NEW i \in 1..(n + 1), Pending'[i].type \in Shows, "Loading" \notin completed
        PROVE  \E j \in 1..(i - 1) : Pending'[j].type = "SC_SIGNUP"
    <3>1. CASE i \in 1..n
      <4>1. PICK j \in 1..(i - 1) : Pending[j].type = "SC_SIGNUP"
        BY <1>1, <2>2, <3>1 DEF PendInv, ServerInv
      <4>2. j \in 1..n
        BY <1>1, <3>1
      <4>3. QED
        BY <1>1, <4>1, <4>2
    <3>2. CASE i = n + 1
      <4>1. PICK j \in 1..n : Pending[j].type = "SC_SIGNUP"
        BY <1>1, <2>2, <3>2 DEF PendInv, ServerInv
      <4>2. QED
        BY <1>1, <3>2, <4>1
    <3>3. QED
      BY <1>1, <3>1, <3>2
  <2>3. ASSUME serving' = "signed", "Loading" \notin completed
        PROVE  \E j \in 1..(n + 1) : Pending'[j].type = "SC_SIGNUP"
    <3>1. CASE serving = "signed"
      <4>1. PICK j \in 1..n : Pending[j].type = "SC_SIGNUP"
        BY <1>1, <2>3, <3>1 DEF PendInv, ServerInv
      <4>2. QED
        BY <1>1, <4>1
    <3>2. CASE p.type = "SC_SIGNUP"
      BY <1>1, <3>2
    <3>3. QED
      BY <2>3, <3>1, <3>2
  <2>4. \A i \in 1..(n + 1) : Sensible(Pending[i])'
    BY <1>1, <2>1 DEF Sensible
  <2>5. QED
    BY <1>1, <2>2, <2>3, <2>4 DEF ServerInv, Sensible
<1>3. \A e \in Entities : /\ Screen(e)' = Screen(e)
                          /\ Shown(Pending, e, n, Screen(e), told[e])
  BY DEF Screen, PendInv, ToldInv, n
<1>4. ASSUME NEW e \in Entities
      PROVE  /\ Shown(Pending', e, n, Screen(e), told[e])
             /\ Shown(Pending', e, n + 1, Screen(e), told'[e])
  <2>1. Shown(Pending', e, n, Screen(e), told[e])
    BY <1>1, <1>3, ShownIsLocal
  <2>2. CASE IsAbout(p, e)
    <3>1. told'[e] = p.at
      BY <2>2 DEF IsAbout, TypeOK
    <3>2. QED
      BY <1>1, <2>1, <2>2, <3>1, ShownByLast
  <2>3. CASE ~IsAbout(p, e)
    <3>1. told'[e] = told[e]
      BY <2>3 DEF IsAbout, TypeOK
    <3>2. QED
      BY <1>1, <2>1, <2>3, <3>1, ShownByLast
  <2>4. QED
    BY <2>2, <2>3
<1>5. ToldInv'
  BY <1>1, <1>3, <1>4 DEF ToldInv
<1>6. MovesInv'
  <2>1. SUFFICES ASSUME NEW i \in 1..(n + 1), Pending'[i].type = "SC_MOVE_OBJ"
                 PROVE  \E spot \in Spots :
                          Shown(Pending', Pending'[i].id, i - 1, Screen(Pending'[i].id), spot)
    BY <1>1 DEF MovesInv, Screen
  <2>2. CASE i = n + 1
    <3>1. p.id \in Entities
      BY <1>1, <2>1, <2>2 DEF Sensible, Shows
    <3>2. told[p.id] \in Spots
      BY <1>1, <2>1, <2>2, <3>1 DEF TypeOK
    <3>3. QED
      BY <1>1, <1>4, <2>2, <3>1, <3>2
  <2>3. CASE i \in 1..n
    <3>1. PICK spot \in Spots : Shown(Pending, Pending[i].id, i - 1, Screen(Pending[i].id), spot)
      BY <1>1, <2>1, <2>3 DEF PendInv, MovesInv
    <3>2. i - 1 \in Nat /\ \A k \in 1..(i - 1) : Pending'[k] = Pending[k]
      BY <1>1, <2>3
    <3>3. Pending'[i] = Pending[i]
      BY <1>1, <2>3
    <3>4. QED
      BY <3>1, <3>2, <3>3, ShownIsLocal
  <2>4. QED
    BY <1>1, <2>2, <2>3
<1>7. QED
  BY <1>2, <1>5, <1>6 DEF PendInv

(* What was sent comes between the tasks and what arrived.                 *)
LEMMA SentBetween ==
    ASSUME TypeOK, CallsInv, CallbackSend, NEW p \in Packets, Head(calls).packets = <<p>>
    PROVE  LET m == Len(tasks)
               n == Len(Pending)
           IN  /\ m \in Nat /\ n \in Nat /\ m <= n
               /\ DOMAIN Pending = 1..n /\ DOMAIN Pending' = 1..(n + 1) /\ Len(Pending') = n + 1
               /\ \A k \in 1..m : Pending'[k] = Pending[k]
               /\ Pending'[m + 1] = p
               /\ \A k \in (m + 1)..n : Pending'[k + 1] = Pending[k]
               /\ tasks' = Append(tasks, p) /\ Len(tasks') = m + 1
<1> DEFINE m == Len(tasks)
           n == Len(Pending)
           rest == Arrived \o wire
<1>1. /\ tasks \in Seq(Packets) /\ Arrived \in Seq(Packets) /\ wire \in Seq(Packets)
      /\ <<p>> \in Seq(Packets)
  BY Receives DEF TypeOK
<1>2. tasks \o <<p>> \in Seq(Packets) /\ rest \in Seq(Packets)
  BY <1>1, ConcatProperties
<1>3. Pending = tasks \o rest /\ Pending' = (tasks \o <<p>>) \o rest
  <2>1. Pending' = ((tasks \o <<p>>) \o Arrived) \o wire
    BY CallbackSendKeeps
  <2>2. ((tasks \o <<p>>) \o Arrived) \o wire = (tasks \o <<p>>) \o rest
    BY <1>1, <1>2, ConcatAssociative
  <2>3. Pending = tasks \o rest
    BY <1>1, ConcatAssociative DEF Pending
  <2>4. QED
    BY <2>1, <2>2, <2>3
<1>4. tasks' = tasks \o <<p>> /\ tasks \o <<p>> = Append(tasks, p)
  BY <1>1, AppendIsConcat DEF CallbackSend
<1> HIDE DEF rest
<1>5. /\ Len(tasks \o <<p>>) = m + 1 /\ (tasks \o <<p>>)[m + 1] = p
      /\ \A k \in 1..m : (tasks \o <<p>>)[k] = tasks[k]
  BY <1>1, <1>4, AppendProperties
<1>6. /\ m \in Nat /\ Len(rest) \in Nat /\ n = m + Len(rest) /\ DOMAIN Pending = 1..n
      /\ \A k \in 1..n : Pending[k] = IF k <= m THEN tasks[k] ELSE rest[k - m]
  BY <1>1, <1>2, <1>3, ConcatProperties, LenProperties
<1>7. /\ Len(Pending') = m + 1 + Len(rest) /\ DOMAIN Pending' = 1..(m + 1 + Len(rest))
      /\ \A k \in 1..(m + 1 + Len(rest)) :
           Pending'[k] = IF k <= m + 1 THEN (tasks \o <<p>>)[k] ELSE rest[k - (m + 1)]
  BY <1>2, <1>3, <1>5, ConcatProperties, LenProperties
<1> HIDE DEF m, n
<1>8. ASSUME NEW k \in (m + 1)..n PROVE Pending'[k + 1] = Pending[k]
  <2>1. k + 1 \in 1..(m + 1 + Len(rest)) /\ ~(k + 1 <= m + 1) /\ (k + 1) - (m + 1) = k - m
    BY <1>6
  <2>2. Pending'[k + 1] = rest[k - m]
    BY <1>7, <2>1
  <2>3. QED
    BY <1>6, <2>2
<1>9. \A k \in 1..m : Pending'[k] = Pending[k]
  BY <1>5, <1>6, <1>7
<1>10. Pending'[m + 1] = p
  BY <1>5, <1>6, <1>7
<1>11. m <= n /\ n \in Nat /\ m + 1 + Len(rest) = n + 1
  BY <1>6
<1>12. QED
  BY <1>4, <1>5, <1>6, <1>7, <1>8, <1>9, <1>10, <1>11 DEF m, n

(* A packet of the client's own among the others changes nothing.          *)
LEMMA PendMore ==
    ASSUME TypeOK, CallsInv, PendInv, CallbackSend, NEW p \in Packets,
           Head(calls).packets = <<p>>, p.type \in {"CS_SIGNIN"} \cup KeyTypes
    PROVE  PendInv'
<1> DEFINE m == Len(tasks)
           n == Len(Pending)
           At(k) == IF k <= m THEN k ELSE k + 1
<1>1. /\ m \in Nat /\ n \in Nat /\ m <= n
      /\ DOMAIN Pending = 1..n /\ DOMAIN Pending' = 1..(n + 1) /\ Len(Pending') = n + 1
      /\ \A k \in 1..m : Pending'[k] = Pending[k]
      /\ Pending'[m + 1] = p
      /\ \A k \in (m + 1)..n : Pending'[k + 1] = Pending[k]
  BY SentBetween
<1>2. UNCHANGED <<link, serving, told, completed, drawn, instances>>
  BY DEF CallbackSend, serverVars
<1>3. p.type \notin Shows \cup Answers
  BY DEF Shows, Answers, KeyTypes
<1> HIDE DEF m, n
<1>4. ASSUME NEW i \in 1..(n + 1), i # m + 1
      PROVE  \E k \in 1..n : i = At(k) /\ Pending'[i] = Pending[k]
  <2>1. CASE i <= m
    BY <1>1, <2>1
  <2>2. CASE i > m + 1
    <3>1. i - 1 \in (m + 1)..n /\ (i - 1) + 1 = i
      BY <1>1, <2>2
    <3>2. Pending'[(i - 1) + 1] = Pending[i - 1]
      BY <1>1, <3>1
    <3>3. QED
      BY <1>1, <3>1, <3>2
  <2>3. QED
    BY <1>1, <1>4, <2>1, <2>2
<1>5. \A k \in 1..n : At(k) \in 1..(n + 1) /\ Pending'[At(k)] = Pending[k]
  BY <1>1
<1>6. ServerInv'
  <2>1. ASSUME NEW i \in 1..(n + 1)
        PROVE  /\ Sensible(Pending[i])'
               /\ Pending'[i].type \in Shows /\ "Loading" \notin completed' =>
                    \E j \in 1..(i - 1) : Pending'[j].type = "SC_SIGNUP"
    <3>1. CASE i = m + 1
      BY <1>1, <1>3, <3>1 DEF Sensible, Answers
    <3>2. CASE i # m + 1
      <4>1. PICK k \in 1..n : i = At(k) /\ Pending'[i] = Pending[k]
        BY <1>4, <3>2
      <4>2. Sensible(Pending[i])'
        BY <1>1, <1>2, <4>1 DEF PendInv, ServerInv, Sensible
      <4>3. ASSUME Pending'[i].type \in Shows, "Loading" \notin completed'
            PROVE  \E j \in 1..(i - 1) : Pending'[j].type = "SC_SIGNUP"
        <5>1. PICK j \in 1..(k - 1) : Pending[j].type = "SC_SIGNUP"
          BY <1>1, <1>2, <4>1, <4>3 DEF PendInv, ServerInv
        <5>2. At(j) \in 1..(i - 1) /\ Pending'[At(j)] = Pending[j]
          BY <1>1, <1>5, <4>1
        <5>3. QED
          BY <5>1, <5>2
      <4>4. QED
        BY <4>2, <4>3
    <3>3. QED
      BY <3>1, <3>2
  <2>2. ASSUME serving' = "signed", link' # "reset", "Loading" \notin completed'
        PROVE  \E j \in 1..(n + 1) : Pending'[j].type = "SC_SIGNUP"
    <3>1. PICK j \in 1..n : Pending[j].type = "SC_SIGNUP"
      BY <1>1, <1>2, <2>2 DEF PendInv, ServerInv
    <3>2. QED
      BY <1>5, <3>1
  <2>3. QED
    BY <1>1, <2>1, <2>2 DEF ServerInv
<1>7. \A e : Screen(e)' = Screen(e) /\ ~IsAbout(p, e)
  BY <1>2, <1>3 DEF Screen, IsAbout
<1>8. ToldInv'
  <2>1. ASSUME link' # "reset", NEW e \in Entities
        PROVE  Shown(Pending', e, n + 1, Screen(e), told[e])
    <3>1. Shown(Pending, e, n, Screen(e), told[e])
      BY <1>2, <2>1 DEF PendInv, ToldInv, n
    <3>2. QED
      BY <1>1, <1>7, <3>1, ShownAround
  <2>2. QED
    BY <1>1, <1>2, <1>7, <2>1 DEF ToldInv
<1>9. MovesInv'
  <2>1. SUFFICES ASSUME NEW i \in 1..(n + 1), Pending'[i].type = "SC_MOVE_OBJ"
                 PROVE  \E spot \in Spots :
                          Shown(Pending', Pending'[i].id, i - 1, Screen(Pending'[i].id), spot)
    BY <1>1, <1>7 DEF MovesInv
  <2>2. i # m + 1
    BY <1>1, <1>3, <2>1 DEF Shows
  <2>3. PICK k \in 1..n : i = At(k) /\ Pending'[i] = Pending[k]
    BY <1>4, <2>2
  <2>4. PICK spot \in Spots : Shown(Pending, Pending[k].id, k - 1, Screen(Pending[k].id), spot)
    BY <1>1, <2>1, <2>3 DEF PendInv, MovesInv
  <2>5. CASE k <= m
    <3>1. i = k /\ k - 1 \in Nat /\ \A j \in 1..(k - 1) : Pending'[j] = Pending[j]
      BY <1>1, <2>3, <2>5
    <3>2. QED
      BY <2>3, <2>4, <3>1, ShownIsLocal
  <2>6. CASE k > m
    <3>1. i - 1 = (k - 1) + 1 /\ k - 1 \in Nat /\ m <= k - 1
      BY <1>1, <2>3, <2>6
    <3>2. \A j \in (m + 1)..(k - 1) : Pending'[j + 1] = Pending[j]
      BY <1>1
    <3>3. ~IsAbout(Pending'[m + 1], Pending[k].id)
      BY <1>1, <1>7
    <3>4. Shown(Pending', Pending[k].id, (k - 1) + 1, Screen(Pending[k].id), spot)
      BY <1>1, <2>4, <3>1, <3>2, <3>3, ShownAround
    <3>5. QED
      BY <2>3, <3>1, <3>4
  <2>7. QED
    BY <1>1, <2>5, <2>6
<1>10. QED
  BY <1>6, <1>8, <1>9 DEF PendInv

(* The packet that a scene takes is the first; if it is about an entity    *)
(* the screen shows what it says.                                          *)
LEMMA PendFirst ==
    ASSUME TypeOK, CallsInv, PendInv, tasks # <<>>, tasks' = Tail(tasks),
           UNCHANGED <<link, calls, wire, serving, told>>, completed \subseteq completed',
           Head(tasks).type = "SC_SIGNUP" => "Loading" \in completed,
           \A e \in Entities :
             Screen(e)' = IF IsAbout(Head(tasks), e) THEN Head(tasks).at ELSE Screen(e)
    PROVE  PendInv'
<1> DEFINE n == Len(Pending)
           p == Head(tasks)
<1>1. /\ n \in Nat \ {0} /\ DOMAIN Pending = 1..n
      /\ Len(Pending') = n - 1 /\ DOMAIN Pending' = 1..(n - 1)
      /\ \A i \in 1..(n - 1) : Pending'[i] = Pending[i + 1]
      /\ Pending[1] = p
  <2>1. Pending' = Tail(Pending) /\ Pending \in Seq(Packets) /\ Pending # <<>> /\ Pending[1] = p
    BY Pends, TaskTaken
  <2>2. QED
    BY <2>1, LenProperties, HeadTailProperties, EmptySeq
<1> HIDE DEF n, p
<1>2. ServerInv'
  <2>1. ASSUME NEW i \in 1..(n - 1)
        PROVE  /\ Sensible(Pending[i])'
               /\ Pending'[i].type \in Shows /\ "Loading" \notin completed' =>
                    \E j \in 1..(i - 1) : Pending'[j].type = "SC_SIGNUP"
    <3>1. i + 1 \in 1..n /\ Pending'[i] = Pending[i + 1]
      BY <1>1
    <3>2. Sensible(Pending[i])'
      BY <1>1, <3>1 DEF PendInv, ServerInv, Sensible
    <3>3. ASSUME Pending'[i].type \in Shows, "Loading" \notin completed'
          PROVE  \E j \in 1..(i - 1) : Pending'[j].type = "SC_SIGNUP"
      <4>1. PICK j \in 1..((i + 1) - 1) : Pending[j].type = "SC_SIGNUP"
        BY <1>1, <3>1, <3>3 DEF PendInv, ServerInv
      <4>2. j # 1
        BY <1>1, <3>3, <4>1 DEF p
      <4>3. j - 1 \in 1..(i - 1) /\ j - 1 \in 1..(n - 1) /\ (j - 1) + 1 = j
        BY <1>1, <4>2
      <4>4. Pending'[j - 1] = Pending[(j - 1) + 1]
        BY <1>1, <4>3
      <4>5. QED
        BY <4>1, <4>3, <4>4
    <3>4. QED
      BY <3>2, <3>3
  <2>2. ASSUME serving' = "signed", link' # "reset", "Loading" \notin completed'
        PROVE  \E j \in 1..(n - 1) : Pending'[j].type = "SC_SIGNUP"
    <3>1. PICK j \in 1..n : Pending[j].type = "SC_SIGNUP"
      BY <1>1, <2>2 DEF PendInv, ServerInv
    <3>2. j # 1
      BY <1>1, <2>2, <3>1 DEF p
    <3>3. j - 1 \in 1..(n - 1) /\ (j - 1) + 1 = j
      BY <1>1, <3>2
    <3>4. Pending'[j - 1] = Pending[(j - 1) + 1]
      BY <1>1, <3>3
    <3>5. QED
      BY <3>1, <3>3, <3>4
  <2>3. QED
    BY <1>1, <2>1, <2>2 DEF ServerInv
<1>3. \A e \in Entities : Screen(e)' = IF IsAbout(Pending[1], e) THEN Pending[1].at ELSE Screen(e)
  BY <1>1 DEF p
<1>4. ASSUME NEW e \in Entities, NEW k \in 1..n, NEW spot, Shown(Pending, e, k, Screen(e), spot)
      PROVE  Shown(Pending', e, k - 1, Screen(e)', spot)
  <2>1. k \in Nat \ {0} /\ \A i \in 1..(k - 1) : Pending'[i] = Pending[i + 1]
    BY <1>1
  <2>2. Shown(Pending', e, k - 1, IF IsAbout(Pending[1], e) THEN Pending[1].at ELSE Screen(e), spot)
    BY <1>4, <2>1, ShownAfterFirst
  <2>3. QED
    BY <1>3, <2>2
<1>5. ToldInv'
  <2>1. ASSUME link' # "reset", NEW e \in Entities
        PROVE  Shown(Pending', e, n - 1, Screen(e)', told'[e])
    <3>1. Shown(Pending, e, n, Screen(e), told[e])
      BY <2>1 DEF PendInv, ToldInv, n
    <3>2. QED
      BY <1>1, <1>4, <3>1
  <2>2. QED
    BY <1>1, <2>1 DEF ToldInv
<1>6. MovesInv'
  <2>1. SUFFICES ASSUME NEW i \in 1..(n - 1), Pending'[i].type = "SC_MOVE_OBJ"
                 PROVE  \E spot \in Spots :
                          Shown(Pending', Pending'[i].id, i - 1, Screen(Pending[i].id)', spot)
    BY <1>1 DEF MovesInv
  <2>2. i + 1 \in 1..n /\ i \in 1..n /\ (i + 1) - 1 = i /\ Pending'[i] = Pending[i + 1]
    BY <1>1
  <2>3. PICK spot \in Spots : Shown(Pending, Pending[i + 1].id, i, Screen(Pending[i + 1].id), spot)
    BY <1>1, <2>1, <2>2 DEF PendInv, MovesInv
  <2>4. Pending[i + 1].id \in Entities
    BY <1>1, <2>1, <2>2 DEF PendInv, ServerInv, Sensible, Shows
  <2>5. Screen(Pending[i].id)' = IF IsAbout(Pending[1], Pending[i + 1].id) THEN Pending[1].at
                                 ELSE Screen(Pending[i + 1].id)
    <3>1. ASSUME NEW e \in Entities, Pending'[i].id = e
          PROVE  Screen(Pending[i].id)' = Screen(e)'
      BY <3>1 DEF Screen
    <3>2. QED
      BY <1>3, <2>2, <2>4, <3>1
  <2>6. \A k \in 1..(i - 1) : Pending'[k] = Pending[k + 1]
    BY <1>1
  <2>7. Shown(Pending', Pending[i + 1].id, i - 1,
              IF IsAbout(Pending[1], Pending[i + 1].id) THEN Pending[1].at
              ELSE Screen(Pending[i + 1].id), spot)
    BY <2>2, <2>3, <2>6, ShownAfterFirst
  <2>8. QED
    BY <2>2, <2>5, <2>7
<1>7. QED
  BY <1>2, <1>5, <1>6 DEF PendInv

-----------------------------------------------------------------------------
(* The invariant holds at first and every step keeps it.                   *)

LEMMA InitHolds == Init => IInv
<1> SUFFICES ASSUME Init PROVE IInv
  OBVIOUS
<1>1. TypeOK
  <2>1. /\ stage \in [scene : Range(Stages), next : 1..4, life : 0..LifeMax]
        /\ completed \subseteq Range(Stages)
    BY StageNames, ClientScenesAssumption DEF Init
  <2>2. <<>> \in Seq(Packets) /\ <<>> \in Seq([id : Entities, at : Spots, visible : BOOLEAN])
        /\ <<>> \in Seq([call : {"sent", "failed", "received"}, packets : Seq(Packets)])
    OBVIOUS
  <2>3. told \in [Entities -> Spots \cup {Hidden}] /\ Len(drawn) = 0
    BY DEF Init
  <2>4. instances \in [Entities -> 0..Len(drawn)] /\ player \in 0..Len(drawn)
    BY <2>3 DEF Init
  <2>5. /\ wire \in Seq(Packets) /\ tasks \in Seq(Packets) /\ sends \in Seq(Packets)
        /\ drawn \in Seq([id : Entities, at : Spots, visible : BOOLEAN])
        /\ calls \in Seq([call : {"sent", "failed", "received"}, packets : Seq(Packets)])
    BY <2>2 DEF Init
  <2>6. sent \in 0..PacketsMax /\ keys \in 0..KeysMax
    BY ClientScenesAssumption DEF Init
  <2>7. receiving \in BOOLEAN /\ running \in BOOLEAN
    BY DEF Init
  <2>8. /\ myID \in {Me, NoId}
        /\ link \in {"none", "open", "closed", "reset"}
        /\ serving \in {"idle", "signed", "refused"}
    BY DEF Init
  <2>9. QED
    BY <2>1, <2>3, <2>4, <2>5, <2>6, <2>7, <2>8 DEF TypeOK
<1>2. CallsInv /\ SceneInv /\ Arrived = <<>>
  BY ClientScenesAssumption DEF Init, CallsInv, SceneInv, Placed, Reached, Receptions, Arrived
<1>3. RequestInv /\ KeysInv
  BY DEF Init, RequestInv, KeysInv, Nowhere, InSends, InCalls, InTasks
<1>4. Pending = <<>> /\ Len(Pending) = 0 /\ DOMAIN Pending = {}
  <2>1. Pending = <<>>
    BY <1>2 DEF Init, Pending
  <2>2. QED
    BY <2>1
<1>5. OriginInv /\ AnswerInv
  BY <1>4 DEF Init, OriginInv, AnswerInv
<1>6. PendInv
  <2>1. \A e \in Entities : Shown(Pending, e, 0, Screen(e), told[e])
    BY DEF Init, Shown, Screen
  <2>2. QED
    BY <1>4, <2>1 DEF Init, PendInv, ServerInv, ToldInv, MovesInv
<1>7. ScreenInv /\ CameraFollows
  BY ClientScenesAssumption DEF Init, ScreenInv, CameraFollows
<1>8. QED
  BY <1>1, <1>2, <1>3, <1>5, <1>6, <1>7 DEF IInv

(* A set of indices that one more index was not added to.                  *)
LEMMA SameIndices ==
    ASSUME NEW n \in Nat, NEW A, NEW B, A \subseteq 1..(n + 1), B \subseteq 1..n,
           n + 1 \notin A, \A i \in 1..n : i \in A <=> i \in B
    PROVE  A = B
<1>1. A \subseteq 1..n
  OBVIOUS
<1>2. QED
  BY <1>1

(* What the server sends.                                                  *)
LEMMA ServerStep ==
    ASSUME IInv, Refuse \/ SignUp \/ TellAppear \/ TellDisappear \/ TellMove
    PROVE  IInv'
<1>1. TypeOK /\ CallsInv /\ PendInv
  BY DEF IInv
<1>2. PICK p \in Packets :
        /\ wire' = Append(wire, p) /\ link = "open"
        /\ UNCHANGED <<link, keys, sends, receiving, calls, running, myID, tasks, stage,
                       completed, drawn, instances, player>>
        /\ serving' = serving \/ (serving = "idle" /\ serving' \in {"signed", "refused"})
        /\ Sensible(p)' /\ p.type \in Answers \cup Shows
        /\ p.type \in Shows => serving = "signed"
        /\ serving = "signed" \/ serving' # "signed" \/ p.type = "SC_SIGNUP"
        /\ told' = IF p.type \in Shows THEN [told EXCEPT ![p.id] = p.at] ELSE told
        /\ p.type = "SC_MOVE_OBJ" => told[p.id] # Hidden
        /\ sent' \in 0..PacketsMax
  <2> USE ClientScenesAssumption DEF Answers, Shows, Sensible, Packets, Pack, sceneVars
  <2>1. sent \in 0..PacketsMax
    BY <1>1 DEF TypeOK
  <2>2. CASE Refuse
    <3> DEFINE p == Pack("SC_SIGNIN_FAILED", NoId, Hidden)
    <3>1. p \in Packets
      OBVIOUS
    <3>2. QED
      BY <2>1, <2>2, <3>1 DEF Refuse
  <2>3. CASE SignUp
    <3> DEFINE p == Pack("SC_SIGNUP", Me, Hidden)
    <3>1. p \in Packets
      OBVIOUS
    <3>2. QED
      BY <2>1, <2>3, <3>1 DEF SignUp
  <2>4. CASE TellAppear
    <3>1. PICK e \in Entities, spot \in Spots : Tell("SC_APPEAR_OBJ", e, spot)
      BY <2>4 DEF TellAppear
    <3> DEFINE p == Pack("SC_APPEAR_OBJ", e, spot)
    <3>2. p \in Packets
      OBVIOUS
    <3>3. sent' \in 0..PacketsMax
      BY <2>1, <3>1 DEF Tell
    <3>4. QED
      BY <3>1, <3>2, <3>3 DEF Tell
  <2>5. CASE TellDisappear
    <3>1. PICK e \in Entities \ {Me} : Tell("SC_DISAPPEAR_OBJ", e, Hidden)
      BY <2>5 DEF TellDisappear
    <3> DEFINE p == Pack("SC_DISAPPEAR_OBJ", e, Hidden)
    <3>2. p \in Packets
      OBVIOUS
    <3>3. sent' \in 0..PacketsMax
      BY <2>1, <3>1 DEF Tell
    <3>4. QED
      BY <3>1, <3>2, <3>3 DEF Tell
  <2>6. CASE TellMove
    <3>1. PICK e \in Entities, spot \in Spots : told[e] # Hidden /\ Tell("SC_MOVE_OBJ", e, spot)
      BY <2>6 DEF TellMove
    <3> DEFINE p == Pack("SC_MOVE_OBJ", e, spot)
    <3>2. p \in Packets
      OBVIOUS
    <3>3. sent' \in 0..PacketsMax
      BY <2>1, <3>1 DEF Tell
    <3>4. QED
      BY <3>1, <3>2, <3>3 DEF Tell
  <2>7. QED
    BY <2>2, <2>3, <2>4, <2>5, <2>6
<1>3. PendInv'
  BY <1>1, <1>2, PendLast
<1>4. TypeOK'
  <2>1. wire' \in Seq(Packets)
    BY <1>1, <1>2, AppendProperties DEF TypeOK
  <2>2. told' \in [Entities -> Spots \cup {Hidden}]
    BY <1>1, <1>2 DEF TypeOK, Packets
  <2>3. serving' \in {"idle", "signed", "refused"}
    BY <1>1, <1>2 DEF TypeOK
  <2>4. QED
    BY <1>1, <1>2, <2>1, <2>2, <2>3 DEF TypeOK
<1>5. OriginInv'
  <2>1. /\ Pending' = Append(Pending, p) /\ Pending \in Seq(Packets)
    BY <1>1, <1>2, Pends, PendsLast
  <2>2. \A i \in DOMAIN Pending' :
          \/ i \in DOMAIN Pending /\ Pending'[i] = Pending[i]
          \/ Pending'[i] = p
    BY <2>1
  <2>3. QED
    BY <1>2, <2>2 DEF IInv, OriginInv
<1>6. SceneInv' /\ CallsInv' /\ RequestInv' /\ KeysInv'
  BY <1>2 DEF IInv, SceneInv, Reached, CallsInv, Receptions, RequestInv, KeysInv, Nowhere,
     InSends, InCalls, InTasks
<1>7. AnswerInv' /\ ScreenInv' /\ CameraFollows'
  BY <1>2 DEF IInv, AnswerInv, ScreenInv, CameraFollows
<1>8. QED
  BY <1>3, <1>4, <1>5, <1>6, <1>7 DEF IInv

LEMMA CloseStep ==
    ASSUME IInv, Close
    PROVE  IInv'
<1>1. /\ link = "open" /\ link' = "closed"
      /\ UNCHANGED <<wire, serving, told, sent, keys, sends, receiving, calls, running, myID,
                     tasks, stage, completed, drawn, instances, player>>
  BY DEF Close, serverVars, sceneVars
<1>2. Pending' = Pending
  BY <1>1 DEF Pending, Arrived, Receptions
<1>3. PendInv'
  BY <1>1, <1>2, PendSame DEF IInv
<1>4. TypeOK'
  BY <1>1 DEF IInv, TypeOK
<1>5. SceneInv' /\ CallsInv' /\ RequestInv' /\ KeysInv'
  BY <1>1 DEF IInv, SceneInv, Reached, CallsInv, Receptions, RequestInv, KeysInv, Nowhere,
     InSends, InCalls, InTasks
<1>6. OriginInv' /\ AnswerInv' /\ ScreenInv' /\ CameraFollows'
  BY <1>1, <1>2 DEF IInv, OriginInv, AnswerInv, ScreenInv, CameraFollows
<1>7. QED
  BY <1>3, <1>4, <1>5, <1>6 DEF IInv

LEMMA ResetStep ==
    ASSUME IInv, Reset
    PROVE  IInv'
<1> DEFINE Calls == [call : {"sent", "failed", "received"}, packets : Seq(Packets)]
<1>1. TypeOK /\ CallsInv /\ PendInv
  BY DEF IInv
<1>2. /\ link \in {"open", "closed"} /\ link' = "reset" /\ wire' = <<>> /\ sends' = <<>>
      /\ UNCHANGED <<serving, told, sent, keys, receiving, running, myID, tasks, stage,
                     completed, drawn, instances, player>>
  BY DEF Reset, serverVars, sceneVars
<1>3. PendInv'
  BY <1>1, PendCut
<1>4. /\ calls' \in Seq(Calls) /\ Len(calls) \in Nat /\ DOMAIN calls = 1..Len(calls)
      /\ \A i \in DOMAIN calls : i \in DOMAIN calls' /\ calls'[i] = calls[i]
      /\ \A i \in DOMAIN calls' : i \notin DOMAIN calls =>
           calls'[i] = [call |-> "failed", packets |-> <<>>]
  <2> DEFINE failed == [i \in 1..Len(sends) |-> [call |-> "failed", packets |-> <<>>]]
  <2>1. calls \in Seq(Calls) /\ Len(sends) \in Nat
    BY <1>1 DEF TypeOK
  <2>2. /\ [call |-> "failed", packets |-> <<>>] \in Calls
        /\ failed \in Seq(Calls) /\ Len(failed) = Len(sends)
    BY <2>1
  <2>3. /\ calls' = calls \o failed /\ calls' \in Seq(Calls)
        /\ Len(calls') = Len(calls) + Len(sends)
        /\ \A i \in 1..(Len(calls) + Len(sends)) :
             calls'[i] = IF i <= Len(calls) THEN calls[i] ELSE failed[i - Len(calls)]
    BY <2>1, <2>2, ConcatProperties DEF Reset
  <2>4. DOMAIN calls = 1..Len(calls) /\ DOMAIN calls' = 1..(Len(calls) + Len(sends))
        /\ Len(calls) \in Nat
    BY <2>1, <2>3, LenProperties
  <2>5. ASSUME NEW i \in DOMAIN calls', i \notin DOMAIN calls
        PROVE  calls'[i] = [call |-> "failed", packets |-> <<>>]
    <3>1. i - Len(calls) \in 1..Len(sends) /\ ~(i <= Len(calls))
      BY <2>1, <2>4, <2>5
    <3>2. calls'[i] = failed[i - Len(calls)]
      BY <2>3, <2>4, <3>1
    <3>3. QED
      BY <3>1, <3>2
  <2>6. \A i \in DOMAIN calls : i \in DOMAIN calls' /\ calls'[i] = calls[i]
    BY <2>1, <2>3, <2>4
  <2>7. QED
    BY <2>3, <2>4, <2>5, <2>6
<1>5. TypeOK'
  BY <1>1, <1>2, <1>4 DEF TypeOK
<1>6. Receptions' = Receptions /\ Pending' = tasks \o Arrived
  BY <1>1, ResetKeeps
<1>7. CallsInv'
  BY <1>1, <1>2, <1>4, <1>6 DEF CallsInv
<1>8. /\ InSends({"CS_SIGNIN"})' = {} /\ InTasks({"CS_SIGNIN"})' = InTasks({"CS_SIGNIN"})
      /\ InCalls({"CS_SIGNIN"})' = InCalls({"CS_SIGNIN"})
      /\ InSends(KeyTypes)' = {} /\ InTasks(KeyTypes)' = InTasks(KeyTypes)
      /\ InCalls(KeyTypes)' = InCalls(KeyTypes)
  BY <1>2, <1>4 DEF InSends, InTasks, InCalls
<1>9. RequestInv' /\ KeysInv' /\ SceneInv'
  BY <1>2, <1>8 DEF IInv, RequestInv, KeysInv, Nowhere, SceneInv, Reached
<1>10. OriginInv'
  <2>1. /\ tasks \o Arrived \in Seq(Packets) /\ wire \in Seq(Packets)
    BY <1>1, Receives, ConcatProperties DEF TypeOK
  <2>2. \A i \in DOMAIN Pending' : i \in DOMAIN Pending /\ Pending'[i] = Pending[i]
    BY <1>6, <2>1 DEF Pending
  <2>3. QED
    BY <1>2, <2>2 DEF IInv, OriginInv
<1>11. AnswerInv' /\ ScreenInv' /\ CameraFollows'
  BY <1>2 DEF IInv, AnswerInv, ScreenInv, CameraFollows
<1>12. QED
  BY <1>3, <1>5, <1>7, <1>9, <1>10, <1>11 DEF IInv

LEMMA SendDoneStep ==
    ASSUME IInv, SendDone
    PROVE  IInv'
<1> DEFINE Calls == [call : {"sent", "failed", "received"}, packets : Seq(Packets)]
           new == [call |-> "sent", packets |-> <<Head(sends)>>]
<1>1. TypeOK /\ CallsInv /\ PendInv
  BY DEF IInv
<1>2. UNCHANGED <<link, wire, serving, told, sent, keys, receiving, running, myID, tasks,
                  stage, completed, drawn, instances, player>>
  BY DEF SendDone, serverVars, sceneVars
<1>3. Receptions' = Receptions /\ Pending' = Pending
  BY <1>1, SendDoneKeeps
<1>4. PendInv'
  BY <1>1, <1>2, <1>3, PendSame
<1>5. /\ sends \in Seq(Packets) /\ Len(sends) \in Nat \ {0}
      /\ DOMAIN sends = 1..Len(sends) /\ Head(sends) = sends[1] /\ sends[1] \in Packets
      /\ sends' \in Seq(Packets) /\ DOMAIN sends' = 1..(Len(sends) - 1)
      /\ \A i \in DOMAIN sends' : i + 1 \in DOMAIN sends /\ sends'[i] = sends[i + 1]
  <2>1. sends \in Seq(Packets) /\ sends # <<>> /\ sends' = Tail(sends)
    BY <1>1 DEF TypeOK, SendDone
  <2>2. QED
    BY <2>1, HeadTailProperties, LenProperties, EmptySeq
<1>6. /\ calls' \in Seq(Calls) /\ Len(calls) \in Nat
      /\ DOMAIN calls = 1..Len(calls) /\ DOMAIN calls' = 1..(Len(calls) + 1)
      /\ \A i \in DOMAIN calls : calls'[i] = calls[i]
      /\ calls'[Len(calls) + 1] = new
  <2>1. new \in Calls /\ calls \in Seq(Calls)
    BY <1>1, <1>5 DEF TypeOK
  <2>2. calls' = Append(calls, new)
    BY DEF SendDone
  <2>3. QED
    BY <2>1, <2>2, AppendProperties, LenProperties
<1>7. TypeOK'
  BY <1>1, <1>2, <1>5, <1>6 DEF TypeOK
<1>8. sends[1].type \in {"CS_SIGNIN"} \cup KeyTypes
  BY <1>5 DEF IInv, OriginInv
<1>9. CallsInv'
  <2>1. ASSUME NEW i \in DOMAIN calls'
        PROVE  /\ calls'[i].call = "sent" =>
                    \E p \in Packets : calls'[i].packets = <<p>> /\ p.type \in {"CS_SIGNIN"} \cup KeyTypes
               /\ calls'[i].call = "failed" => calls'[i].packets = <<>>
    <3>1. CASE i \in DOMAIN calls
      BY <1>1, <1>6, <3>1 DEF CallsInv
    <3>2. CASE i = Len(calls) + 1
      BY <1>5, <1>6, <1>8, <3>2
    <3>3. QED
      BY <1>6, <3>1, <3>2
  <2>2. QED
    BY <1>1, <1>2, <1>3, <2>1 DEF CallsInv
<1>10. ASSUME NEW types
       PROVE  /\ InTasks(types)' = InTasks(types)
              /\ InSends(types)' = { i \in DOMAIN sends' : i + 1 \in InSends(types) }
              /\ InCalls(types)' = InCalls(types) \cup
                   (IF 1 \in InSends(types) THEN {Len(calls) + 1} ELSE {})
  <2>1. InTasks(types)' = InTasks(types)
    BY <1>2 DEF InTasks
  <2>2. InSends(types)' = { i \in DOMAIN sends' : i + 1 \in InSends(types) }
    BY <1>5 DEF InSends
  <2>3. ASSUME NEW i \in DOMAIN calls
        PROVE  i \in InCalls(types)' <=> i \in InCalls(types)
    BY <1>6 DEF InCalls
  <2>4. Len(calls) + 1 \in InCalls(types)' <=> 1 \in InSends(types)
    BY <1>5, <1>6 DEF InCalls, InSends
  <2>5. InCalls(types)' \subseteq 1..(Len(calls) + 1) /\ InCalls(types) \subseteq 1..Len(calls)
    BY <1>6 DEF InCalls
  <2>6. QED
    BY <1>6, <2>1, <2>2, <2>3, <2>4, <2>5
<1>11. InSends({"CS_SIGNIN"}) \subseteq 1..Len(sends) /\ InCalls({"CS_SIGNIN"}) \subseteq 1..Len(calls)
  BY <1>5, <1>6 DEF InSends, InCalls
<1>12. RequestInv'
  <2> DEFINE request == {"CS_SIGNIN"}
  <2>1. CASE InSends(request) = {}
    BY <1>2, <1>10, <2>1 DEF IInv, RequestInv, Nowhere
  <2>2. CASE InSends(request) # {}
    <3>1. InCalls(request) = {} /\ InTasks(request) = {} /\ ~(link = "none" \/ "Main" \in completed)
          /\ \A i, j \in InSends(request) : i = j
      BY <2>2 DEF IInv, RequestInv, Nowhere
    <3>2. CASE 1 \in InSends(request)
      <4>1. InSends(request)' = {}
        BY <1>5, <1>10, <3>1, <3>2
      <4>2. InCalls(request)' = {Len(calls) + 1} /\ InTasks(request)' = {}
        BY <1>10, <3>1, <3>2
      <4>3. QED
        BY <1>2, <3>1, <4>1, <4>2 DEF RequestInv
    <3>3. CASE 1 \notin InSends(request)
      <4>1. InCalls(request)' = {} /\ InTasks(request)' = {}
        BY <1>10, <3>1, <3>3
      <4>2. \A i, j \in InSends(request)' : i = j
        <5>1. ASSUME NEW i \in InSends(request)', NEW j \in InSends(request)' PROVE i = j
          <6>1. i + 1 = j + 1 /\ i \in Nat /\ j \in Nat
            BY <1>5, <1>10, <3>1
          <6>2. QED
            BY <6>1
        <5>2. QED
          BY <5>1
      <4>3. QED
        BY <1>2, <3>1, <4>1, <4>2 DEF RequestInv
    <3>4. QED
      BY <3>2, <3>3
  <2>3. QED
    BY <2>1, <2>2
<1>13. KeysInv' /\ SceneInv'
  BY <1>2, <1>10 DEF IInv, KeysInv, Nowhere, SceneInv, Reached
<1>14. OriginInv'
  BY <1>2, <1>3, <1>5 DEF IInv, OriginInv
<1>15. AnswerInv' /\ ScreenInv' /\ CameraFollows'
  BY <1>2 DEF IInv, AnswerInv, ScreenInv, CameraFollows
<1>16. QED
  BY <1>4, <1>7, <1>9, <1>12, <1>13, <1>14, <1>15 DEF IInv

LEMMA ReceiveDoneStep ==
    ASSUME IInv, ReceiveDone
    PROVE  IInv'
<1> DEFINE Calls == [call : {"sent", "failed", "received"}, packets : Seq(Packets)]
<1>1. TypeOK /\ CallsInv /\ PendInv
  BY DEF IInv
<1>2. /\ receiving /\ receiving' = FALSE
      /\ UNCHANGED <<link, serving, told, sent, keys, sends, running, myID, tasks, stage,
                     completed, drawn, instances, player>>
  BY DEF ReceiveDone, serverVars, sceneVars
<1>3. /\ Receptions' = {Len(calls) + 1} /\ Pending' = Pending
      /\ \A i \in DOMAIN calls : calls'[i] = calls[i]
      /\ DOMAIN calls' = 1..(Len(calls) + 1)
  BY <1>1, ReceiveDoneKeeps
<1>4. PendInv'
  BY <1>1, <1>2, <1>3, PendSame
<1>5. calls \in Seq(Calls) /\ Len(calls) \in Nat /\ DOMAIN calls = 1..Len(calls)
  BY <1>1, LenProperties DEF TypeOK
<1>6. calls' \in Seq(Calls) /\ wire' \in Seq(Packets)
  <2>1. wire \in Seq(Packets)
    BY <1>1 DEF TypeOK
  <2>2. CASE \E n \in 1..Len(wire) :
            /\ calls' = Append(calls, [call |-> "received", packets |-> SubSeq(wire, 1, n)])
            /\ wire' = SubSeq(wire, n + 1, Len(wire))
    <3>1. PICK n \in 1..Len(wire) :
            /\ calls' = Append(calls, [call |-> "received", packets |-> SubSeq(wire, 1, n)])
            /\ wire' = SubSeq(wire, n + 1, Len(wire))
      BY <2>2
    <3>2. SubSeq(wire, 1, n) \in Seq(Packets) /\ SubSeq(wire, n + 1, Len(wire)) \in Seq(Packets)
      BY <2>1, SubSeqProperties
    <3>3. QED
      BY <1>5, <3>1, <3>2, AppendProperties
  <2>3. CASE calls' = Append(calls, [call |-> "received", packets |-> <<>>]) /\ wire' = wire
    <3>1. [call |-> "received", packets |-> <<>>] \in Calls
      OBVIOUS
    <3>2. QED
      BY <1>5, <2>1, <2>3, <3>1, AppendProperties
  <2>4. QED
    BY <2>2, <2>3 DEF ReceiveDone
<1>7. TypeOK'
  BY <1>1, <1>2, <1>6 DEF TypeOK
<1>8. calls'[Len(calls) + 1].call = "received"
  BY <1>3 DEF Receptions
<1>9. CallsInv'
  <2>1. ASSUME NEW i \in DOMAIN calls'
        PROVE  /\ calls'[i].call = "sent" =>
                    \E p \in Packets : calls'[i].packets = <<p>> /\ p.type \in {"CS_SIGNIN"} \cup KeyTypes
               /\ calls'[i].call = "failed" => calls'[i].packets = <<>>
    <3>1. CASE i \in DOMAIN calls
      BY <1>1, <1>3, <3>1 DEF CallsInv
    <3>2. CASE i = Len(calls) + 1
      BY <1>8, <3>2
    <3>3. QED
      BY <1>3, <1>5, <3>1, <3>2
  <2>2. link # "none"
    BY <1>1, <1>2 DEF CallsInv
  <2>3. QED
    BY <1>2, <1>3, <2>1, <2>2 DEF CallsInv
<1>10. ASSUME NEW types
       PROVE  /\ InTasks(types)' = InTasks(types) /\ InSends(types)' = InSends(types)
              /\ InCalls(types)' = InCalls(types)
  <2>1. \A i \in DOMAIN calls : i \in InCalls(types)' <=> i \in InCalls(types)
    BY <1>3, <1>5 DEF InCalls
  <2>2. Len(calls) + 1 \notin InCalls(types)' /\ InCalls(types)' \subseteq 1..(Len(calls) + 1)
        /\ InCalls(types) \subseteq 1..Len(calls)
    BY <1>3, <1>5, <1>8 DEF InCalls
  <2>3. InCalls(types)' = InCalls(types)
    BY <1>5, <2>1, <2>2, SameIndices
  <2>4. QED
    BY <1>2, <2>3 DEF InTasks, InSends
<1>11. RequestInv' /\ KeysInv' /\ SceneInv'
  BY <1>2, <1>10 DEF IInv, RequestInv, KeysInv, Nowhere, SceneInv, Reached
<1>12. OriginInv' /\ AnswerInv' /\ ScreenInv' /\ CameraFollows'
  BY <1>2, <1>3 DEF IInv, OriginInv, AnswerInv, ScreenInv, CameraFollows
<1>13. QED
  BY <1>4, <1>7, <1>9, <1>11, <1>12 DEF IInv

LEMMA CallbackRecvStep ==
    ASSUME IInv, CallbackRecv
    PROVE  IInv'
<1> DEFINE Calls == [call : {"sent", "failed", "received"}, packets : Seq(Packets)]
<1>1. TypeOK /\ CallsInv /\ PendInv
  BY DEF IInv
<1>2. UNCHANGED <<link, wire, serving, told, sent, keys, sends, running, stage, completed,
                  drawn, instances, player>>
  BY DEF CallbackRecv, serverVars
<1>3. /\ Receptions' = {} /\ Pending' = Pending
      /\ Head(calls).packets = Arrived /\ tasks' = tasks \o Arrived
      /\ DOMAIN calls' = 1..(Len(calls) - 1) /\ Len(calls) \in Nat \ {0}
      /\ \A i \in DOMAIN calls' : calls'[i] = calls[i + 1] /\ i + 1 \in DOMAIN calls
  BY <1>1, CallbackRecvKeeps
<1>4. PendInv'
  BY <1>1, <1>2, <1>3, PendSame
<1>5. /\ tasks \in Seq(Packets) /\ Arrived \in Seq(Packets) /\ tasks' \in Seq(Packets)
      /\ Len(tasks) \in Nat /\ Len(Arrived) \in Nat
      /\ DOMAIN tasks = 1..Len(tasks) /\ DOMAIN tasks' = 1..(Len(tasks) + Len(Arrived))
      /\ Len(tasks') = Len(tasks) + Len(Arrived)
      /\ \A i \in DOMAIN tasks : tasks'[i] = tasks[i]
      /\ \A i \in DOMAIN tasks' : i \notin DOMAIN tasks =>
           i > Len(tasks) /\ i \in DOMAIN Pending /\ tasks'[i] = Pending[i]
  <2>1. tasks \in Seq(Packets) /\ Arrived \in Seq(Packets) /\ wire \in Seq(Packets)
    BY <1>1, Receives DEF TypeOK
  <2>2. /\ tasks' \in Seq(Packets) /\ Len(tasks') = Len(tasks) + Len(Arrived)
        /\ \A i \in 1..(Len(tasks) + Len(Arrived)) :
             tasks'[i] = IF i <= Len(tasks) THEN tasks[i] ELSE Arrived[i - Len(tasks)]
    BY <1>3, <2>1, ConcatProperties
  <2>3. \A i \in 1..Len(tasks') : i \in DOMAIN Pending /\ tasks'[i] = Pending[i]
    BY <1>3, <2>1, <2>2, ConcatProperties, LenProperties DEF Pending
  <2>4. QED
    BY <2>1, <2>2, <2>3, LenProperties
<1>6. \A i \in DOMAIN tasks' : i \notin DOMAIN tasks => tasks'[i].type \in Answers \cup Shows
  BY <1>5 DEF IInv, OriginInv
<1>7. myID' \in {Me, NoId} /\ (myID = Me => myID' = Me)
  BY <1>1 DEF TypeOK, CallbackRecv
<1>8. TypeOK'
  <2>1. calls' \in Seq(Calls)
    BY <1>1 DEF TypeOK, CallbackRecv
  <2>2. receiving' \in BOOLEAN
    BY DEF CallbackRecv
  <2>3. QED
    BY <1>1, <1>2, <1>5, <1>7, <2>1, <2>2 DEF TypeOK
<1>9. CallsInv'
  <2>1. 1 \in Receptions
    BY <1>1 DEF Receptions, CallbackRecv, TypeOK
  <2>2. link # "none"
    BY <1>1, <2>1 DEF CallsInv
  <2>3. QED
    BY <1>1, <1>2, <1>3, <2>2 DEF CallsInv
<1>10. ASSUME NEW types, types \cap (Answers \cup Shows) = {}
       PROVE  /\ InTasks(types)' = InTasks(types) /\ InSends(types)' = InSends(types)
              /\ InCalls(types)' = { i \in DOMAIN calls' : i + 1 \in InCalls(types) }
  <2>1. InCalls(types)' = { i \in DOMAIN calls' : i + 1 \in InCalls(types) }
    BY <1>3 DEF InCalls
  <2>2. InTasks(types)' = InTasks(types)
    BY <1>5, <1>6, <1>10 DEF InTasks
  <2>3. QED
    BY <1>2, <2>1, <2>2 DEF InSends
<1>11. /\ {"CS_SIGNIN"} \cap (Answers \cup Shows) = {} /\ KeyTypes \cap (Answers \cup Shows) = {}
  BY DEF Answers, Shows, KeyTypes
<1>12. RequestInv'
  <2> DEFINE request == {"CS_SIGNIN"}
  <2>1. \A i, j \in InCalls(request)' : i = j
    <3>1. ASSUME NEW i \in InCalls(request)', NEW j \in InCalls(request)' PROVE i = j
      <4>1. i + 1 = j + 1 /\ i \in Nat /\ j \in Nat
        BY <1>3, <1>10, <1>11 DEF IInv, RequestInv
      <4>2. QED
        BY <4>1
    <3>2. QED
      BY <3>1
  <2>2. InCalls(request) = {} => InCalls(request)' = {}
    BY <1>10, <1>11
  <2>3. InTasks(request)' = InTasks(request) /\ InSends(request)' = InSends(request)
    BY <1>10, <1>11
  <2>4. QED
    BY <1>2, <2>1, <2>2, <2>3 DEF IInv, RequestInv, Nowhere
<1>13. KeysInv'
  BY <1>2, <1>10, <1>11 DEF IInv, KeysInv, Nowhere
<1>14. SceneInv'
  BY <1>2, <1>7 DEF IInv, SceneInv, Reached
<1>15. OriginInv'
  <2>1. \A i \in DOMAIN Pending : i > Len(tasks) => Pending[i].type \in Answers \cup Shows
    BY DEF IInv, OriginInv
  <2>2. ASSUME NEW i \in DOMAIN Pending, i > Len(tasks')
        PROVE  i > Len(tasks)
    <3>1. i \in Int
      BY <1>1, Pends, LenProperties
    <3>2. QED
      BY <1>5, <2>2, <3>1
  <2>3. QED
    BY <1>2, <1>3, <2>1, <2>2 DEF IInv, OriginInv
<1>16. AnswerInv'
  <2>1. ASSUME NEW i \in DOMAIN tasks', tasks'[i].type = "SC_SIGNUP" PROVE myID' = Me
    <3>1. CASE i \in DOMAIN tasks
      BY <1>5, <1>7, <2>1, <3>1 DEF IInv, AnswerInv
    <3>2. CASE i \notin DOMAIN tasks
      <4>1. i - Len(tasks) \in 1..Len(Arrived) /\ tasks'[i] = Arrived[i - Len(tasks)]
        BY <1>3, <1>5, <3>2, ConcatProperties
      <4>2. "SC_SIGNUP" \in { p.type : p \in Range(Arrived) }
        <5>1. i - Len(tasks) \in DOMAIN Arrived
          BY <1>5, <4>1, LenProperties
        <5>2. tasks'[i] \in Range(Arrived)
          BY <4>1, <5>1 DEF Range
        <5>3. QED
          BY <2>1, <5>2
      <4>3. Answered
        BY <1>3, <4>2 DEF Answered
      <4>4. QED
        BY <1>1, <4>3 DEF CallbackRecv, TypeOK
    <3>3. QED
      BY <3>1, <3>2
  <2>2. tasks # <<>> => tasks' # <<>> /\ Head(tasks') = Head(tasks)
    <3>1. ASSUME tasks # <<>> PROVE tasks' # <<>> /\ Head(tasks') = Head(tasks)
      <4>1. Len(tasks) > 0 /\ Len(tasks') > 0 /\ tasks'[1] = tasks[1]
        BY <1>5, <3>1
      <4>2. QED
        BY <1>5, <3>1, <4>1
    <3>2. QED
      BY <3>1
  <2>3. QED
    BY <1>2, <2>1, <2>2 DEF IInv, AnswerInv
<1>17. ScreenInv' /\ CameraFollows'
  BY <1>2 DEF IInv, ScreenInv, CameraFollows
<1>18. QED
  BY <1>4, <1>8, <1>9, <1>12, <1>13, <1>14, <1>15, <1>16, <1>17 DEF IInv

LEMMA CallbackSendStep ==
    ASSUME IInv, CallbackSend
    PROVE  IInv'
<1> DEFINE Calls == [call : {"sent", "failed", "received"}, packets : Seq(Packets)]
<1>1. TypeOK /\ CallsInv /\ PendInv
  BY DEF IInv
<1>2. UNCHANGED <<link, wire, serving, told, sent, keys, sends, receiving, myID, stage,
                  completed, drawn, instances, player>>
  BY DEF CallbackSend, serverVars
<1>3. /\ Receptions' = { i \in DOMAIN calls' : i + 1 \in Receptions }
      /\ Pending' = ((tasks \o Head(calls).packets) \o Arrived) \o wire
      /\ DOMAIN calls' = 1..(Len(calls) - 1) /\ Len(calls) \in Nat \ {0}
      /\ \A i \in DOMAIN calls' : calls'[i] = calls[i + 1] /\ i + 1 \in DOMAIN calls
      /\ 1 \in DOMAIN calls /\ Head(calls) = calls[1]
  BY <1>1, CallbackSendKeeps
<1>4. calls' \in Seq(Calls) /\ running' \in BOOLEAN
  BY <1>1 DEF TypeOK, CallbackSend
<1>5. CallsInv'
  <2>1. \A i, j \in Receptions' : i = j
    <3>1. ASSUME NEW i \in Receptions', NEW j \in Receptions' PROVE i = j
      <4>1. i + 1 = j + 1 /\ i \in Nat /\ j \in Nat
        BY <1>1, <1>3 DEF CallsInv
      <4>2. QED
        BY <4>1
    <3>2. QED
      BY <3>1
  <2>2. Receptions = {} => Receptions' = {}
    BY <1>3
  <2>3. QED
    BY <1>1, <1>2, <1>3, <2>1, <2>2 DEF CallsInv
<1>6. ASSUME NEW types
      PROVE  /\ InCalls(types)' = { i \in DOMAIN calls' : i + 1 \in InCalls(types) }
             /\ InSends(types)' = InSends(types)
  BY <1>2, <1>3 DEF InCalls, InSends
<1>7. /\ \A i, j \in InCalls({"CS_SIGNIN"})' : i = j
      /\ InCalls({"CS_SIGNIN"}) = {} => InCalls({"CS_SIGNIN"})' = {}
      /\ InCalls(KeyTypes) = {} => InCalls(KeyTypes)' = {}
  <2>1. ASSUME NEW i \in InCalls({"CS_SIGNIN"})', NEW j \in InCalls({"CS_SIGNIN"})'
        PROVE  i = j
    <3>1. i + 1 = j + 1 /\ i \in Nat /\ j \in Nat
      BY <1>3, <1>6 DEF IInv, RequestInv
    <3>2. QED
      BY <3>1
  <2>2. QED
    BY <1>6, <2>1
<1>8. CASE Head(calls).call = "failed"
  <2>1. Head(calls).packets = <<>>
    BY <1>1, <1>3, <1>8 DEF CallsInv
  <2>2. tasks \o <<>> = tasks
    BY <1>1, ConcatEmptySeq DEF TypeOK
  <2>3. tasks' = tasks /\ Pending' = Pending
    BY <1>3, <2>1, <2>2 DEF CallbackSend, Pending
  <2>4. PendInv'
    BY <1>1, <1>2, <2>3, PendSame
  <2>5. TypeOK'
    BY <1>1, <1>2, <1>4, <2>3 DEF TypeOK
  <2>6. \A types : InTasks(types)' = InTasks(types)
    BY <2>3 DEF InTasks
  <2>7. RequestInv' /\ KeysInv' /\ SceneInv'
    BY <1>2, <1>6, <1>7, <2>6 DEF IInv, RequestInv, KeysInv, Nowhere, SceneInv, Reached
  <2>8. OriginInv' /\ AnswerInv' /\ ScreenInv' /\ CameraFollows'
    BY <1>2, <2>3 DEF IInv, OriginInv, AnswerInv, ScreenInv, CameraFollows
  <2>9. QED
    BY <1>5, <2>4, <2>5, <2>7, <2>8 DEF IInv
<1>9. CASE Head(calls).call = "sent"
  <2>1. PICK p \in Packets : /\ Head(calls).packets = <<p>>
                             /\ p.type \in {"CS_SIGNIN"} \cup KeyTypes
    BY <1>1, <1>3, <1>9 DEF CallsInv
  <2>2. PendInv'
    BY <1>1, <2>1, PendMore
  <2>3. LET m == Len(tasks)
            n == Len(Pending)
        IN  /\ m \in Nat /\ n \in Nat /\ m <= n
            /\ DOMAIN Pending = 1..n /\ DOMAIN Pending' = 1..(n + 1)
            /\ \A k \in (m + 1)..n : Pending'[k + 1] = Pending[k]
            /\ tasks' = Append(tasks, p) /\ Len(tasks') = m + 1
    BY <1>1, <2>1, SentBetween
  <2>4. /\ tasks' \in Seq(Packets) /\ tasks \in Seq(Packets)
        /\ DOMAIN tasks = 1..Len(tasks) /\ DOMAIN tasks' = 1..(Len(tasks) + 1)
        /\ \A i \in 1..Len(tasks) : tasks'[i] = tasks[i]
        /\ tasks'[Len(tasks) + 1] = p /\ tasks' # <<>>
        /\ tasks # <<>> => Head(tasks') = Head(tasks)
    <3>1. tasks \in Seq(Packets) /\ tasks' = Append(tasks, p)
      BY <1>1, <2>3 DEF TypeOK
    <3>2. QED
      BY <3>1, AppendProperties, LenProperties
  <2>5. TypeOK'
    BY <1>1, <1>2, <1>4, <2>4 DEF TypeOK
  <2>6. ASSUME NEW types
        PROVE  /\ p.type \notin types => InTasks(types)' = InTasks(types)
               /\ InTasks(types) = {} => InTasks(types)' \subseteq {Len(tasks) + 1}
               /\ p.type \in types => 1 \in InCalls(types)
    <3>1. Len(tasks) + 1 \in InTasks(types)' <=> p.type \in types
      BY <2>3, <2>4 DEF InTasks
    <3>2. \A i \in 1..Len(tasks) : i \in InTasks(types)' <=> i \in InTasks(types)
      BY <2>3, <2>4 DEF InTasks
    <3>3. InTasks(types)' \subseteq 1..(Len(tasks) + 1) /\ InTasks(types) \subseteq 1..Len(tasks)
      BY <2>3, <2>4 DEF InTasks
    <3>4. p.type \in types => 1 \in InCalls(types)
      BY <1>3, <1>9, <2>1 DEF InCalls
    <3>5. p.type \notin types => InTasks(types)' = InTasks(types)
      BY <2>3, <3>1, <3>2, <3>3, SameIndices
    <3>6. InTasks(types) = {} => InTasks(types)' \subseteq {Len(tasks) + 1}
      BY <2>3, <3>2, <3>3
    <3>7. QED
      BY <3>4, <3>5, <3>6
  <2>7. RequestInv'
    <3> DEFINE request == {"CS_SIGNIN"}
    <3>1. CASE p.type = "CS_SIGNIN"
      <4>1. 1 \in InCalls(request)
        BY <2>6, <3>1
      <4>2. InSends(request) = {} /\ InTasks(request) = {} /\ ~(link = "none" \/ "Main" \in completed)
        BY <4>1 DEF IInv, RequestInv, Nowhere
      <4>3. InCalls(request)' = {}
        <5>1. \A i \in InCalls(request)' : i + 1 = 1 /\ i \in 1..(Len(calls) - 1)
          BY <1>3, <1>6, <4>1 DEF IInv, RequestInv
        <5>2. QED
          BY <1>3, <5>1
      <4>4. InTasks(request)' \subseteq {Len(tasks) + 1}
        BY <2>6, <4>2
      <4>5. QED
        BY <1>2, <1>6, <4>2, <4>3, <4>4 DEF RequestInv
    <3>2. CASE p.type # "CS_SIGNIN"
      <4>1. InTasks(request)' = InTasks(request)
        BY <2>6, <3>2
      <4>2. QED
        BY <1>2, <1>6, <1>7, <4>1 DEF IInv, RequestInv, Nowhere
    <3>3. QED
      BY <3>1, <3>2
  <2>8. KeysInv'
    BY <1>2, <1>6, <1>7, <2>6 DEF IInv, KeysInv, Nowhere
  <2>9. OriginInv'
    <3>1. ASSUME NEW i \in DOMAIN Pending', i > Len(tasks')
          PROVE  Pending'[i].type \in Answers \cup Shows
      <4>1. i - 1 \in (Len(tasks) + 1)..Len(Pending) /\ (i - 1) + 1 = i
        BY <2>3, <3>1
      <4>2. Pending'[(i - 1) + 1] = Pending[i - 1]
        BY <2>3, <4>1
      <4>3. i - 1 \in DOMAIN Pending /\ i - 1 > Len(tasks)
        BY <2>3, <4>1
      <4>4. QED
        BY <4>1, <4>2, <4>3 DEF IInv, OriginInv
    <3>2. QED
      BY <1>2, <3>1 DEF IInv, OriginInv
  <2>10. AnswerInv'
    <3>1. \A i \in DOMAIN tasks' : tasks'[i].type = "SC_SIGNUP" => i \in DOMAIN tasks /\ tasks[i] = tasks'[i]
      BY <2>1, <2>3, <2>4 DEF KeyTypes
    <3>2. QED
      BY <1>2, <2>4, <3>1 DEF IInv, AnswerInv
  <2>11. SceneInv' /\ ScreenInv' /\ CameraFollows'
    BY <1>2 DEF IInv, SceneInv, Reached, ScreenInv, CameraFollows
  <2>12. QED
    BY <1>5, <2>2, <2>5, <2>7, <2>8, <2>9, <2>10, <2>11 DEF IInv
<1>10. QED
  BY <1>8, <1>9 DEF CallbackSend

(* The window messages.                                                    *)
LEMMA ConnectStep ==
    ASSUME IInv, Connect
    PROVE  IInv'
<1>1. TypeOK /\ CallsInv /\ PendInv
  BY DEF IInv
<1>2. /\ UNCHANGED <<wire, serving, told, sent, keys, calls, myID, tasks, stage, completed,
                     drawn, instances, player>>
      /\ running' \in BOOLEAN
      /\ link' = link \/ link' = "open"
  BY DEF Connect, serverVars, sceneVars, IInv, TypeOK
<1>3. Pending' = Pending /\ Receptions' = Receptions
  BY <1>2 DEF Pending, Arrived, Receptions
<1>4. CASE UNCHANGED <<link, sends, receiving>>
  <2>1. PendInv'
    BY <1>1, <1>2, <1>3, <1>4, PendSame
  <2>2. TypeOK'
    BY <1>1, <1>2, <1>4 DEF TypeOK
  <2>3. SceneInv' /\ CallsInv' /\ RequestInv' /\ KeysInv'
    BY <1>2, <1>3, <1>4 DEF IInv, SceneInv, Reached, CallsInv, RequestInv, KeysInv, Nowhere,
       InSends, InCalls, InTasks
  <2>4. OriginInv' /\ AnswerInv' /\ ScreenInv' /\ CameraFollows'
    BY <1>2, <1>3, <1>4 DEF IInv, OriginInv, AnswerInv, ScreenInv, CameraFollows
  <2>5. QED
    BY <2>1, <2>2, <2>3, <2>4 DEF IInv
<1>5. CASE /\ link = "none" /\ link' = "open" /\ receiving' = TRUE
           /\ sends' = Append(sends, Pack("CS_SIGNIN", NoId, Hidden))
  <2> DEFINE p == Pack("CS_SIGNIN", NoId, Hidden)
  <2>1. PendInv'
    BY <1>1, <1>2, <1>3, <1>5, PendSame
  <2>2. p \in Packets /\ p.type = "CS_SIGNIN"
    BY DEF Pack, Packets
  <2> HIDE DEF p
  <2>3. /\ sends \in Seq(Packets) /\ sends' \in Seq(Packets) /\ Len(sends) \in Nat
        /\ DOMAIN sends = 1..Len(sends) /\ DOMAIN sends' = 1..(Len(sends) + 1)
        /\ \A i \in 1..Len(sends) : sends'[i] = sends[i]
        /\ sends'[Len(sends) + 1] = p
    <3>1. sends \in Seq(Packets) /\ sends' = Append(sends, p)
      BY <1>1, <1>5 DEF TypeOK, p
    <3>2. QED
      BY <2>2, <3>1, AppendProperties, LenProperties
  <2>4. TypeOK'
    BY <1>1, <1>2, <1>5, <2>3 DEF TypeOK
  <2>5. CallsInv'
    BY <1>1, <1>2, <1>3, <1>5 DEF CallsInv
  <2>6. \A types : InCalls(types)' = InCalls(types) /\ InTasks(types)' = InTasks(types)
    BY <1>2 DEF InCalls, InTasks
  <2>7. Nowhere({"CS_SIGNIN"}) /\ "Main" \notin completed
    BY <1>5 DEF IInv, RequestInv
  <2>8. InSends({"CS_SIGNIN"})' \subseteq {Len(sends) + 1}
    <3>1. \A i \in 1..Len(sends) : i \notin InSends({"CS_SIGNIN"})'
      BY <2>3, <2>7 DEF InSends, Nowhere
    <3>2. InSends({"CS_SIGNIN"})' \subseteq 1..(Len(sends) + 1)
      BY <2>3 DEF InSends
    <3>3. QED
      BY <2>3, <3>1, <3>2
  <2>9. RequestInv'
    BY <1>2, <1>5, <2>6, <2>7, <2>8 DEF RequestInv, Nowhere
  <2>10. KeysInv'
    <3>1. InSends(KeyTypes) = {} => InSends(KeyTypes)' = {}
      BY <2>2, <2>3 DEF InSends, KeyTypes
    <3>2. QED
      BY <1>2, <2>6, <3>1 DEF IInv, KeysInv, Nowhere
  <2>11. OriginInv'
    BY <1>2, <1>3, <2>2, <2>3 DEF IInv, OriginInv
  <2>12. SceneInv' /\ AnswerInv' /\ ScreenInv' /\ CameraFollows'
    BY <1>2 DEF IInv, SceneInv, Reached, AnswerInv, ScreenInv, CameraFollows
  <2>13. QED
    BY <2>1, <2>4, <2>5, <2>9, <2>10, <2>11, <2>12 DEF IInv
<1>6. QED
  BY <1>4, <1>5 DEF Connect

LEMMA KeyStep ==
    ASSUME IInv, Key
    PROVE  IInv'
<1>1. TypeOK /\ CallsInv /\ PendInv
  BY DEF IInv
<1>2. PICK type \in {"CS_MOVE", "CS_ATTACK_NONTARGET"} :
        sends' = Append(sends, Pack(type, myID, Hidden))
  BY DEF Key
<1>3. /\ UNCHANGED <<link, wire, serving, told, sent, receiving, calls, running, myID, tasks,
                     stage, completed, drawn, instances, player>>
      /\ stage.scene = "Game" /\ keys' \in 0..KeysMax
  <2>1. keys \in 0..KeysMax /\ keys < KeysMax /\ keys' = keys + 1
    BY <1>1 DEF Key, TypeOK
  <2>2. keys' \in 0..KeysMax
    BY <2>1, ClientScenesAssumption
  <2>3. QED
    BY <2>2 DEF Key, serverVars, sceneVars
<1>4. Pending' = Pending /\ Receptions' = Receptions
  BY <1>3 DEF Pending, Arrived, Receptions
<1>5. PendInv'
  BY <1>1, <1>3, <1>4, PendSame
<1> DEFINE p == Pack(type, myID, Hidden)
<1>6. p \in Packets /\ p.type \in KeyTypes /\ p.type # "CS_SIGNIN"
  <2>1. myID \in Entities \cup {NoId}
    BY <1>1, ClientScenesAssumption DEF TypeOK
  <2>2. QED
    BY <2>1 DEF Pack, Packets, KeyTypes
<1> HIDE DEF p
<1>7. /\ sends \in Seq(Packets) /\ sends' \in Seq(Packets) /\ Len(sends) \in Nat
      /\ DOMAIN sends = 1..Len(sends) /\ DOMAIN sends' = 1..(Len(sends) + 1)
      /\ \A i \in 1..Len(sends) : sends'[i] = sends[i]
      /\ sends'[Len(sends) + 1] = p
  <2>1. sends \in Seq(Packets) /\ sends' = Append(sends, p)
    BY <1>1, <1>2 DEF TypeOK, p
  <2>2. QED
    BY <1>6, <2>1, AppendProperties, LenProperties
<1>8. TypeOK'
  BY <1>1, <1>3, <1>7 DEF TypeOK
<1>9. /\ \A types : InCalls(types)' = InCalls(types) /\ InTasks(types)' = InTasks(types)
      /\ InSends({"CS_SIGNIN"})' = InSends({"CS_SIGNIN"})
  <2>1. \A i \in 1..Len(sends) :
          i \in InSends({"CS_SIGNIN"})' <=> i \in InSends({"CS_SIGNIN"})
    BY <1>7 DEF InSends
  <2>2. Len(sends) + 1 \notin InSends({"CS_SIGNIN"})' /\ InSends({"CS_SIGNIN"})' \subseteq 1..(Len(sends) + 1)
        /\ InSends({"CS_SIGNIN"}) \subseteq 1..Len(sends)
    BY <1>6, <1>7 DEF InSends
  <2>3. InSends({"CS_SIGNIN"})' = InSends({"CS_SIGNIN"})
    BY <1>7, <2>1, <2>2, SameIndices
  <2>4. QED
    BY <1>3, <2>3 DEF InCalls, InTasks
<1>10. RequestInv' /\ CallsInv' /\ SceneInv'
  BY <1>3, <1>4, <1>9 DEF IInv, RequestInv, Nowhere, CallsInv, SceneInv, Reached
<1>11. KeysInv'
  BY <1>3 DEF KeysInv
<1>12. OriginInv'
  BY <1>3, <1>4, <1>6, <1>7 DEF IInv, OriginInv
<1>13. AnswerInv' /\ ScreenInv' /\ CameraFollows'
  BY <1>3 DEF IInv, AnswerInv, ScreenInv, CameraFollows
<1>14. QED
  BY <1>5, <1>8, <1>10, <1>11, <1>12, <1>13 DEF IInv

(* What a tick offers, and what becomes of it.                             *)
LEMMA Offered ==
    ASSUME IInv, Tick, tasks # <<>>
    PROVE  LET p == Head(tasks)
               scene == stage'.scene
           IN  /\ p \in Packets /\ Sensible(p)
               /\ p.type \in {"CS_SIGNIN"} => "Main" \notin completed
               /\ scene = "Loading" => p.type \in Answers
               /\ scene = "Game" => myID = Me /\ serving = "signed"
               /\ scene = "Game" => p.type \in Accepted["Game"]
<1> DEFINE p == Head(tasks)
           scene == stage'.scene
<1>1. TypeOK /\ CallsInv /\ SceneInv
  BY DEF IInv
<1>2. stage' = Advance(stage) /\ Placed(stage') /\ Reached(stage')
  <2>1. stage' = Advance(stage)
    BY DEF Tick
  <2>2. QED
    BY <1>1, <2>1, Advances
<1>3. /\ tasks \in Seq(Packets) /\ 1 \in DOMAIN tasks /\ p = tasks[1] /\ p \in Packets
      /\ 1 \in DOMAIN Pending /\ Pending[1] = p
  <2>1. tasks \in Seq(Packets) /\ Len(tasks) \in Nat \ {0} /\ DOMAIN tasks = 1..Len(tasks)
    BY <1>1, EmptySeq, LenProperties DEF TypeOK
  <2>2. p = tasks[1] /\ p \in Packets /\ 1 \in DOMAIN tasks
    BY <2>1
  <2>3. 1 \in DOMAIN Pending /\ Pending[1] = tasks[1]
    BY <1>1, <2>1, Pends, LenProperties
  <2>4. QED
    BY <2>1, <2>2, <2>3
<1>4. Sensible(p)
  BY <1>3 DEF IInv, PendInv, ServerInv
<1>5. p.type = "CS_SIGNIN" => "Main" \notin completed
  BY <1>3 DEF IInv, RequestInv, Nowhere, InTasks
<1>6. p.type \in Shows => "Loading" \in completed
  <2>1. 1..(1 - 1) = {}
    OBVIOUS
  <2>2. QED
    BY <1>3, <2>1 DEF IInv, PendInv, ServerInv
<1>7. p.type \in KeyTypes => stage.scene = "Game"
  BY <1>3 DEF IInv, KeysInv, Nowhere, InTasks
<1>8. /\ scene # "Main" => "Main" \in completed
      /\ scene = "Game" => "Loading" \in completed
      /\ stage.scene = "Game" => scene = "Game"
  BY <1>1, <1>2, Advances DEF Reached
<1>9. p.type \in Answers \cup Shows \cup {"CS_SIGNIN"} \cup KeyTypes
  BY <1>3 DEF Packets, Answers, Shows, KeyTypes
<1>10. scene = "Loading" => p.type \in Answers
  <2>1. ASSUME scene = "Loading" PROVE p.type \in Answers
    <3>1. p.type \notin KeyTypes /\ p.type # "CS_SIGNIN"
      BY <1>5, <1>7, <1>8, <2>1
    <3>2. CASE p.type \in Shows
      <4>1. p.type = "SC_SIGNUP"
        BY <1>6, <1>8, <2>1, <3>2 DEF IInv, AnswerInv
      <4>2. QED
        BY <4>1 DEF Answers
    <3>3. QED
      BY <1>9, <3>1, <3>2
  <2>2. QED
    BY <2>1
<1>11. scene = "Game" => myID = Me /\ serving = "signed"
  BY <1>8 DEF IInv, SceneInv
<1>12. scene = "Game" => p.type \in Accepted["Game"]
  <2>1. ASSUME scene = "Game" PROVE p.type \in Accepted["Game"]
    <3>1. p.type # "SC_SIGNIN_FAILED" /\ p.type # "CS_SIGNIN"
      BY <1>4, <1>5, <1>8, <1>11, <2>1 DEF Sensible
    <3>2. QED
      BY <1>9, <3>1 DEF Accepted, Answers, Shows, KeyTypes
  <2>2. QED
    BY <2>1
<1>13. QED
  BY <1>3, <1>4, <1>5, <1>10, <1>11, <1>12

LEMMA TickStep ==
    ASSUME IInv, Tick
    PROVE  IInv'
<1> DEFINE p == Head(tasks)
           scene == stage'.scene
<1>1. TypeOK /\ CallsInv /\ SceneInv /\ PendInv /\ ScreenInv /\ CameraFollows
  BY DEF IInv
<1>2. /\ stage' = Advance(stage)
      /\ UNCHANGED <<link, wire, serving, told, sent, keys, sends, receiving, calls, running,
                     myID>>
  BY DEF Tick, serverVars
<1>3. /\ stage' \in [scene : Range(Stages), next : 1..4, life : 0..LifeMax]
      /\ Placed(stage') /\ Reached(stage')
      /\ stage.scene = "Game" => scene = "Game"
  BY <1>1, <1>2, Advances
<1>4. Receptions' = Receptions /\ CallsInv'
  BY <1>1, <1>2 DEF Receptions, CallsInv
<1>5. \A types : InSends(types)' = InSends(types) /\ InCalls(types)' = InCalls(types)
  BY <1>2 DEF InSends, InCalls
<1>6. CASE tasks = <<>>
  <2>1. UNCHANGED <<tasks, completed, drawn, instances, player>>
    BY <1>6 DEF Tick
  <2>2. Pending' = Pending
    BY <1>2, <2>1 DEF Pending, Arrived, Receptions
  <2>3. PendInv'
    BY <1>1, <1>2, <2>1, <2>2, PendSame
  <2>4. TypeOK'
    BY <1>1, <1>2, <1>3, <2>1 DEF TypeOK
  <2>5. SceneInv'
    BY <1>1, <1>2, <1>3, <2>1 DEF SceneInv, Reached
  <2>6. \A types : InTasks(types)' = InTasks(types)
    BY <2>1 DEF InTasks
  <2>7. RequestInv' /\ KeysInv'
    BY <1>2, <1>3, <1>5, <2>1, <2>6 DEF IInv, RequestInv, KeysInv, Nowhere
  <2>8. OriginInv' /\ AnswerInv' /\ ScreenInv' /\ CameraFollows'
    BY <1>2, <1>3, <2>1, <2>2 DEF IInv, OriginInv, AnswerInv, ScreenInv, CameraFollows
  <2>9. QED
    BY <1>4, <2>3, <2>4, <2>5, <2>7, <2>8 DEF IInv
<1>7. CASE tasks # <<>>
  <2>1. /\ OnNetwork(scene, p)
        /\ completed' = completed \cup (IF p.type \in Completes[scene] THEN {scene} ELSE {})
        /\ tasks' = IF p.type \in Accepted[scene] THEN Tail(tasks) ELSE tasks
    BY <1>7 DEF Tick
  <2>2. /\ p \in Packets /\ Sensible(p)
        /\ p.type = "CS_SIGNIN" => "Main" \notin completed
        /\ scene = "Loading" => p.type \in Answers
        /\ scene = "Game" => myID = Me /\ serving = "signed"
        /\ scene = "Game" => p.type \in Accepted["Game"]
    BY <1>7, Offered
  <2>3. /\ tasks \in Seq(Packets) /\ Len(tasks) \in Nat \ {0} /\ DOMAIN tasks = 1..Len(tasks)
        /\ p = tasks[1] /\ Tail(tasks) \in Seq(Packets)
        /\ Len(Tail(tasks)) = Len(tasks) - 1 /\ DOMAIN Tail(tasks) = 1..(Len(tasks) - 1)
        /\ \A i \in 1..(Len(tasks) - 1) : Tail(tasks)[i] = tasks[i + 1]
    <3>1. tasks \in Seq(Packets)
      BY <1>1 DEF TypeOK
    <3>2. QED
      BY <1>7, <3>1, EmptySeq, LenProperties, HeadTailProperties
  <2>shorter. Tail(tasks) # tasks
    <3>1. Len(tasks) \in DOMAIN tasks /\ Len(tasks) \notin 1..(Len(tasks) - 1)
      BY <2>3
    <3>2. QED
      BY <2>3, <3>1
  <2>4. scene \in {"Main", "Loading", "Game"}
    BY <1>3, StageNames
  <2>5. /\ completed \subseteq completed' /\ completed' \subseteq {"Main", "Loading", "Game"}
        /\ "Game" \notin completed'
        /\ "Main" \in completed' /\ "Main" \notin completed => scene = "Main" /\ p.type = "CS_SIGNIN"
        /\ "Loading" \in completed' /\ "Loading" \notin completed =>
             scene = "Loading" /\ p.type = "SC_SIGNUP"
    BY <1>1, <2>1, <2>4, StageNames DEF Completes, SceneInv, TypeOK
  <2>6. /\ scene = "Main" /\ p.type = "CS_SIGNIN" => tasks' = Tail(tasks)
        /\ p.type \in Shows \cup {"SC_SIGNUP"} /\ scene # "Game" => tasks' = tasks
        /\ scene = "Game" => tasks' = Tail(tasks)
        /\ tasks' \in {tasks, Tail(tasks)}
    BY <2>1, <2>2, <2>4 DEF Accepted, Shows
  <2>7. p.type = "SC_SIGNUP" => myID = Me /\ serving = "signed"
    BY <2>2, <2>3 DEF IInv, AnswerInv, Sensible
  <2>8. SceneInv'
    BY <1>1, <1>2, <1>3, <2>5, <2>7 DEF SceneInv, Reached
  <2>9. /\ drawn' \in Seq([id : Entities, at : Spots, visible : BOOLEAN])
        /\ instances' \in [Entities -> 0..Len(drawn')] /\ player' \in 0..Len(drawn')
        /\ ScreenInv' /\ CameraFollows' /\ PendInv'
    <3>1. CASE scene = "Game" /\ p.type \in Shows
      <4>1. p.type = "SC_MOVE_OBJ" => instances[p.id] # 0
        <5>1. ASSUME p.type = "SC_MOVE_OBJ" PROVE instances[p.id] # 0
          <6>1. 1 \in DOMAIN Pending /\ Pending[1] = p
            BY <1>1, <2>3, Pends, LenProperties
          <6>2. PICK spot \in Spots : Shown(Pending, p.id, 0, Screen(p.id), spot)
            BY <1>1, <5>1, <6>1 DEF PendInv, MovesInv
          <6>3. spot = Screen(p.id)
            BY <6>2 DEF Shown
          <6>4. QED
            BY <6>3, ClientScenesAssumption DEF Screen
        <5>2. QED
          BY <5>1
      <4>2. \/ p.type = "SC_APPEAR_OBJ" /\ Appear(p)
            \/ p.type = "SC_DISAPPEAR_OBJ" /\ Disappear(p)
            \/ p.type = "SC_MOVE_OBJ" /\ Move(p) /\ instances[p.id] # 0
        BY <2>1, <3>1, <4>1 DEF OnNetwork, Shows
      <4>3. /\ drawn' \in Seq([id : Entities, at : Spots, visible : BOOLEAN])
            /\ instances' \in [Entities -> 0..Len(drawn')] /\ player' \in 0..Len(drawn')
            /\ ScreenInv' /\ CameraFollows'
            /\ \A e \in Entities : Screen(e)' = IF p.id = e THEN p.at ELSE Screen(e)
        BY <1>1, <2>2, <3>1, <4>2, ScreenChanges
      <4>4. tasks' = Tail(tasks) /\ p.type # "SC_SIGNUP"
        BY <2>6, <3>1 DEF Shows
      <4>5. PendInv'
        BY <1>1, <1>2, <1>7, <2>5, <3>1, <4>3, <4>4, PendFirst DEF IsAbout
      <4>6. QED
        BY <4>3, <4>5
    <3>2. CASE ~(scene = "Game" /\ p.type \in Shows)
      <4>1. UNCHANGED <<drawn, instances, player>>
        BY <2>1, <3>2 DEF OnNetwork, Shows
      <4>2. /\ drawn' \in Seq([id : Entities, at : Spots, visible : BOOLEAN])
            /\ instances' \in [Entities -> 0..Len(drawn')] /\ player' \in 0..Len(drawn')
            /\ ScreenInv' /\ CameraFollows'
        BY <1>1, <4>1 DEF TypeOK, ScreenInv, CameraFollows
      <4>3. \A e : Screen(e)' = Screen(e)
        BY <4>1 DEF Screen
      <4>4. CASE tasks' = Tail(tasks)
        <5>1. p.type \notin Shows
          BY <2>6, <2>shorter, <3>2, <4>4
        <5>2. p.type = "SC_SIGNUP" => "Loading" \in completed
          BY <1>3, <2>6, <2>shorter, <4>4 DEF Reached
        <5>3. \A e \in Entities : Screen(e)' = IF IsAbout(p, e) THEN p.at ELSE Screen(e)
          BY <4>3, <5>1 DEF IsAbout
        <5>4. PendInv'
          BY <1>1, <1>2, <1>7, <2>5, <4>4, <5>2, <5>3, PendFirst
        <5>5. QED
          BY <4>2, <5>4
      <4>5. CASE tasks' = tasks
        <5>1. Pending' = Pending
          BY <1>2, <4>5 DEF Pending, Arrived, Receptions
        <5>2. ServerInv'
          BY <1>1, <1>2, <2>5, <5>1 DEF PendInv, ServerInv, Sensible
        <5>3. ToldInv' /\ MovesInv'
          BY <1>1, <1>2, <4>1, <4>3, <5>1 DEF PendInv, ToldInv, MovesInv
        <5>4. QED
          BY <4>2, <5>2, <5>3 DEF PendInv
      <4>6. QED
        BY <2>6, <4>4, <4>5
    <3>3. QED
      BY <3>1, <3>2
  <2>10. TypeOK'
    <3>1. tasks' \in Seq(Packets)
      BY <2>3, <2>6
    <3>2. completed' \subseteq Range(Stages)
      BY <2>5, StageNames
    <3>3. QED
      BY <1>1, <1>2, <1>3, <2>9, <3>1, <3>2 DEF TypeOK
  <2>11. ASSUME NEW types
         PROVE  \/ tasks' = tasks /\ InTasks(types)' = InTasks(types)
                \/ /\ tasks' = Tail(tasks)
                   /\ InTasks(types)' = { i \in 1..(Len(tasks) - 1) : i + 1 \in InTasks(types) }
    BY <2>3, <2>6 DEF InTasks
  <2>12. \A types : InTasks(types) = {} => InTasks(types)' = {}
    BY <2>11
  <2>13. RequestInv'
    <3> DEFINE request == {"CS_SIGNIN"}
    <3>1. \A i, j \in InTasks(request)' : i = j
      <4>1. ASSUME NEW i \in InTasks(request)', NEW j \in InTasks(request)' PROVE i = j
        <5>1. CASE InTasks(request)' = InTasks(request)
          BY <5>1 DEF IInv, RequestInv
        <5>2. CASE InTasks(request)' = { k \in 1..(Len(tasks) - 1) : k + 1 \in InTasks(request) }
          <6>1. i + 1 = j + 1 /\ i \in Int /\ j \in Int
            BY <2>3, <5>2 DEF IInv, RequestInv
          <6>2. QED
            BY <6>1
        <5>3. QED
          BY <2>11, <5>1, <5>2
      <4>2. QED
        BY <4>1
    <3>2. ASSUME "Main" \in completed' PROVE Nowhere(request)'
      <4>1. CASE "Main" \in completed
        BY <1>5, <2>12, <4>1 DEF IInv, RequestInv, Nowhere
      <4>2. CASE "Main" \notin completed
        <5>1. tasks' = Tail(tasks) /\ p.type = "CS_SIGNIN"
          BY <2>5, <2>6, <3>2, <4>2
        <5>2. 1 \in InTasks(request)
          BY <2>3, <5>1 DEF InTasks
        <5>3. InSends(request) = {} /\ InCalls(request) = {} /\ \A i \in InTasks(request) : i = 1
          BY <5>2 DEF IInv, RequestInv
        <5>4. InTasks(request)' = {}
          <6>1. \A i \in 1..(Len(tasks) - 1) : i + 1 # 1
            BY <2>3
          <6>2. \A i \in DOMAIN tasks' : i \in 1..(Len(tasks) - 1) /\ tasks'[i] = tasks[i + 1]
            BY <2>3, <5>1
          <6>3. \A i \in DOMAIN tasks' : tasks'[i].type \notin request
            BY <2>3, <5>3, <6>1, <6>2 DEF InTasks
          <6>4. QED
            BY <6>3 DEF InTasks
        <5>5. QED
          BY <1>5, <5>3, <5>4 DEF Nowhere
      <4>3. QED
        BY <4>1, <4>2
    <3>3. ASSUME link' = "none" PROVE Nowhere(request)' /\ "Main" \notin completed'
      <4>1. Nowhere(request) /\ "Main" \notin completed
        BY <1>2, <3>3 DEF IInv, RequestInv
      <4>2. p.type # "CS_SIGNIN"
        BY <2>3, <4>1 DEF Nowhere, InTasks
      <4>3. QED
        BY <1>5, <2>5, <2>12, <4>1, <4>2 DEF Nowhere
    <3>4. QED
      BY <1>5, <2>12, <3>1, <3>2, <3>3 DEF IInv, RequestInv
  <2>14. KeysInv'
    BY <1>3, <1>5, <2>12 DEF IInv, KeysInv, Nowhere
  <2>15. OriginInv'
    <3>1. CASE tasks' = tasks
      <4>1. Pending' = Pending
        BY <1>2, <3>1 DEF Pending, Arrived, Receptions
      <4>2. QED
        BY <1>2, <3>1, <4>1 DEF IInv, OriginInv
    <3>2. CASE tasks' = Tail(tasks)
      <4>1. Pending' = Tail(Pending) /\ Pending # <<>> /\ Pending \in Seq(Packets)
        BY <1>1, <1>2, <1>7, <3>2, TaskTaken, Pends
      <4>2. /\ Len(Pending) \in Nat \ {0} /\ DOMAIN Pending = 1..Len(Pending)
            /\ DOMAIN Pending' = 1..(Len(Pending) - 1)
            /\ \A i \in 1..(Len(Pending) - 1) : Pending'[i] = Pending[i + 1]
        BY <4>1, EmptySeq, LenProperties, HeadTailProperties
      <4>3. ASSUME NEW i \in DOMAIN Pending', i > Len(tasks')
            PROVE  i + 1 \in DOMAIN Pending /\ i + 1 > Len(tasks) /\ Pending'[i] = Pending[i + 1]
        BY <2>3, <3>2, <4>2, <4>3
      <4>4. QED
        BY <1>2, <4>3 DEF IInv, OriginInv
    <3>3. QED
      BY <2>6, <3>1, <3>2
  <2>16. AnswerInv'
    <3>1. \A i \in DOMAIN tasks' : tasks'[i].type = "SC_SIGNUP" => myID' = Me
      BY <1>2, <2>3, <2>6 DEF IInv, AnswerInv
    <3>2. ASSUME "Loading" \in completed', scene # "Game"
          PROVE  tasks' # <<>> /\ Head(tasks').type = "SC_SIGNUP"
      <4>1. p.type = "SC_SIGNUP"
        BY <1>3, <2>5, <3>2 DEF IInv, AnswerInv
      <4>2. QED
        BY <1>7, <2>6, <3>2, <4>1
    <3>3. QED
      BY <3>1, <3>2 DEF AnswerInv
  <2>17. QED
    BY <1>4, <2>8, <2>9, <2>10, <2>13, <2>14, <2>15, <2>16 DEF IInv
<1>8. QED
  BY <1>6, <1>7

LEMMA Invariance == Spec => []IInv
<1>1. IInv /\ [Next]_vars => IInv'
  <2> SUFFICES ASSUME IInv, [Next]_vars PROVE IInv'
    OBVIOUS
  <2>1. CASE UNCHANGED vars
    <3>1. UNCHANGED <<link, wire, serving, told, sent, keys, sends, receiving, calls, running,
                      myID, tasks, stage, completed, drawn, instances, player>>
      BY <2>1 DEF vars, serverVars, sceneVars
    <3>2. Pending' = Pending /\ Receptions' = Receptions
      BY <3>1 DEF Pending, Arrived, Receptions
    <3>3. PendInv'
      BY <3>1, <3>2, PendSame DEF IInv
    <3>4. TypeOK'
      BY <3>1 DEF IInv, TypeOK
    <3>5. SceneInv' /\ CallsInv' /\ RequestInv' /\ KeysInv'
      BY <3>1, <3>2 DEF IInv, SceneInv, Reached, CallsInv, RequestInv, KeysInv, Nowhere,
         InSends, InCalls, InTasks
    <3>6. OriginInv' /\ AnswerInv' /\ ScreenInv' /\ CameraFollows'
      BY <3>1, <3>2 DEF IInv, OriginInv, AnswerInv, ScreenInv, CameraFollows
    <3>7. QED
      BY <3>3, <3>4, <3>5, <3>6 DEF IInv
  <2>2. CASE Refuse \/ SignUp \/ TellAppear \/ TellDisappear \/ TellMove
    BY <2>2, ServerStep
  <2>3. CASE Close \/ Reset \/ SendDone \/ ReceiveDone
    BY <2>3, CloseStep, ResetStep, SendDoneStep, ReceiveDoneStep
  <2>4. CASE CallbackRecv \/ CallbackSend
    BY <2>4, CallbackRecvStep, CallbackSendStep
  <2>5. CASE Connect \/ Key \/ Tick
    BY <2>5, ConnectStep, KeyStep, TickStep
  <2>6. QED
    BY <2>1, <2>2, <2>3, <2>4, <2>5 DEF Next
<1>2. QED
  BY InitHolds, <1>1, PTL DEF Spec

-----------------------------------------------------------------------------
(* Every variable of the client keeps its type: the jumps of the scenes    *)
(* stay among the stages although SceneLoading's timeout and the answer    *)
(* may cross, and what is registered or followed has been drawn.           *)
THEOREM ClientTypeCorrect == Spec => []TypeOK
<1>1. IInv => TypeOK
  BY DEF IInv
<1>2. QED
  BY <1>1, Invariance, PTL

(* No packet blocks those behind it: a scene other than the first takes    *)
(* the oldest packet or is done because of it, in whatever order the       *)
(* completions of sends and receives put packets into myTasks.             *)
THEOREM ClientHeads == Spec => []HeadIsTaken
<1>1. IInv => HeadIsTaken
  <2>1. SUFFICES ASSUME IInv, tasks # <<>>, stage.scene # "Main"
                 PROVE  Head(tasks).type \in Accepted[stage.scene] \cup Completes[stage.scene]
    BY DEF HeadIsTaken
  <2>2. /\ TypeOK /\ CallsInv /\ "Main" \in completed
        /\ stage.scene \in {"Loading", "Game"}
        /\ stage.scene = "Game" => "Loading" \in completed /\ serving = "signed"
    BY <2>1, StageNames DEF IInv, SceneInv, Reached, Placed
  <2>3. 1 \in DOMAIN tasks /\ Head(tasks) = tasks[1] /\ tasks[1] \in Packets
        /\ 1 \in DOMAIN Pending /\ Pending[1] = tasks[1]
    <3>1. tasks \in Seq(Packets) /\ Len(tasks) \in Nat \ {0} /\ DOMAIN tasks = 1..Len(tasks)
      BY <2>1, <2>2, EmptySeq, LenProperties DEF TypeOK
    <3>2. 1 \in DOMAIN Pending /\ Pending[1] = tasks[1]
      BY <2>2, <3>1, Pends, LenProperties
    <3>3. QED
      BY <3>1, <3>2
  <2> DEFINE p == tasks[1]
  <2>4. p.type \in Answers \cup Shows \cup {"CS_SIGNIN"} \cup KeyTypes
    BY <2>3 DEF Packets, Answers, Shows, KeyTypes
  <2>5. p.type # "CS_SIGNIN"
    BY <2>1, <2>2, <2>3 DEF IInv, RequestInv, Nowhere, InTasks
  <2>6. p.type \in KeyTypes => stage.scene = "Game"
    BY <2>1, <2>3 DEF IInv, KeysInv, Nowhere, InTasks
  <2>7. /\ p.type \in Shows => "Loading" \in completed
        /\ p.type = "SC_SIGNIN_FAILED" => serving = "refused"
    <3>1. 1..(1 - 1) = {}
      OBVIOUS
    <3>2. QED
      BY <2>1, <2>3, <3>1 DEF IInv, PendInv, ServerInv, Sensible
  <2>8. "Loading" \in completed /\ stage.scene # "Game" => p.type = "SC_SIGNUP"
    BY <2>1, <2>3 DEF IInv, AnswerInv
  <2>9. CASE stage.scene = "Loading"
    <3>1. p.type \in Answers
      BY <2>4, <2>5, <2>6, <2>7, <2>8, <2>9 DEF Answers, Shows
    <3>2. QED
      BY <2>3, <2>9, <3>1 DEF Answers, Accepted, Completes
  <2>10. CASE stage.scene = "Game"
    <3>1. p.type # "SC_SIGNIN_FAILED"
      BY <2>2, <2>7, <2>10
    <3>2. QED
      BY <2>3, <2>4, <2>5, <2>10, <3>1 DEF Answers, Shows, KeyTypes, Accepted
  <2>11. QED
    BY <2>2, <2>9, <2>10
<1>2. QED
  BY <1>1, Invariance, PTL

(* Once a client in the game has handled all packets its screen shows each *)
(* entity where the server last put it and no other, though packets of its *)
(* own come between the server's and drawn instances are never removed.    *)
THEOREM ClientScreen == Spec => []ScreenAgrees
<1>1. IInv => ScreenAgrees
  <2>1. SUFFICES ASSUME IInv, NothingPends, link # "reset" PROVE Agrees
    BY DEF ScreenAgrees
  <2>2. TypeOK /\ CallsInv /\ ScreenInv /\ ToldInv
    BY <2>1 DEF IInv, PendInv
  <2>3. Arrived = <<>>
    <3>1. CASE Receptions = {}
      BY <3>1 DEF Arrived
    <3>2. CASE Receptions # {}
      <4>1. PICK i \in Receptions : TRUE
        BY <3>2
      <4>2. calls[i] \in Range(calls)
        BY <4>1 DEF Receptions, Range
      <4>3. QED
        BY <2>1, <2>2, <4>1, <4>2, Receives DEF NothingPends
    <3>3. QED
      BY <3>1, <3>2
  <2>4. Len(Pending) = 0
    BY <2>1, <2>2, <2>3, Pends DEF NothingPends
  <2>5. ASSUME NEW e \in Entities
        PROVE  OnScreen(e) = IF told[e] = Hidden THEN {}
                             ELSE {[id |-> e, at |-> told[e], visible |-> TRUE]}
    <3>1. told[e] = Screen(e)
      BY <2>1, <2>2, <2>4 DEF ToldInv, Shown
    <3>2. /\ drawn \in Seq([id : Entities, at : Spots, visible : BOOLEAN])
          /\ DOMAIN drawn = 1..Len(drawn) /\ instances[e] \in 0..Len(drawn)
          /\ Len(drawn) \in Nat
          /\ \A i \in 1..Len(drawn) : drawn[i] \in [id : Entities, at : Spots, visible : BOOLEAN]
      BY <2>2, LenProperties, ElementOfSeq DEF TypeOK
    <3>3. \A i \in 1..Len(drawn) : drawn[i].visible /\ drawn[i].id = e => instances[e] = i
      BY <2>2, <3>2 DEF ScreenInv
    <3>4. CASE instances[e] = 0
      <4>1. told[e] = Hidden
        BY <3>1, <3>4 DEF Screen
      <4>2. OnScreen(e) = {}
        BY <3>2, <3>3, <3>4 DEF OnScreen, Range
      <4>3. QED
        BY <4>1, <4>2
    <3>5. CASE instances[e] # 0
      <4> DEFINE f == drawn[instances[e]]
      <4>1. instances[e] \in 1..Len(drawn) /\ f.id = e /\ f.visible /\ told[e] = f.at
            /\ f \in [id : Entities, at : Spots, visible : BOOLEAN]
        BY <2>2, <3>1, <3>2, <3>5 DEF ScreenInv, Screen
      <4>2. told[e] # Hidden
        BY <4>1, ClientScenesAssumption
      <4>3. OnScreen(e) = {f}
        BY <3>2, <3>3, <4>1 DEF OnScreen, Range
      <4>4. f = [id |-> e, at |-> told[e], visible |-> TRUE]
        BY <4>1
      <4>5. QED
        BY <4>2, <4>3, <4>4
    <3>6. QED
      BY <3>4, <3>5
  <2>6. QED
    BY <2>5 DEF Agrees
<1>2. QED
  BY <1>1, Invariance, PTL

(* The camera follows the client's own character from when it is shown,    *)
(* and never an instance that is hidden or that later packets do not move. *)
THEOREM ClientCamera == Spec => []CameraFollows
<1>1. IInv => CameraFollows
  BY DEF IInv
<1>2. QED
  BY <1>1, Invariance, PTL

=============================================================================
