-------------------------- MODULE RecvStreamProofs --------------------------
(***************************************************************************)
(* What ProceedReceived relies on without saying so: until a receive ends  *)
(* within a packet, no part of one is left over, recvBuffer.buf stays at   *)
(* the front, and the session handles packets as PacketPipe promises; the  *)
(* next player of the place is promised the same if nothing was left.      *)
(***************************************************************************)
EXTENDS RecvStream, StreamProofs

(* The bytes that were handled. *)
Done == EndOf(Len(got))

GotInv ==
    /\ Len(got) \in 0..Len(sent)
    /\ \A k \in 1..Len(got) : got[k] = sent[k]

(* The rest of the bytes is at the front, and none is when a receive is    *)
(* outstanding.                                                            *)
FrontInv ==
    /\ begin = 0 /\ recvBytes <= BufferSize
    /\ pc \in {"receiving", "handling", "free", "left"}
    /\ pc = "receiving" => recvBytes = 0
    /\ Connected => taken = Done + recvBytes
    /\ Connected => \A i \in 1..recvBytes : recvCBuffer[i] = Done + i
    /\ CutsAt(taken, BufferSize)

(* What holds until the stream is torn... *)
Follows == GotInv /\ FrontInv

(* ...and what always does. *)
Typed ==
    /\ StreamInv
    /\ recvCBuffer \in [1..BufferSize -> Int]
    /\ begin \in 0..BufferSize /\ recvBytes \in Nat
    /\ connected \in BOOLEAN /\ torn \in BOOLEAN
    /\ players \in Nat
    /\ pc \in {"receiving", "handling", "free", "left", "astray", "overrun"}
    /\ got \in Seq(Seq(Int))

IInv == Typed /\ (~torn => Follows)

USE ByteStreamAssumption, RecvStreamAssumption

LEMMA RecvInit == Init => IInv
<1> SUFFICES ASSUME Init PROVE IInv
  OBVIOUS
<1>1. StreamInv
  BY StreamInitInv DEF Init
<1>2. /\ sent = <<>> /\ taken = 0 /\ got = <<>> /\ Len(got) = 0 /\ Len(sent) = 0
      /\ begin = 0 /\ recvBytes = 0 /\ BufferSize \in Nat /\ players = 1
      /\ pc = "receiving"
  BY DEF Init, StreamInit
<1>3. recvCBuffer \in [1..BufferSize -> Int]
  BY DEF Init
<1>4. connected \in BOOLEAN /\ torn \in BOOLEAN
  BY DEF Init
<1>5. Typed
  BY <1>1, <1>2, <1>3, <1>4 DEF Typed
<1>6. Done = 0
  BY <1>2 DEF Done, EndOf
<1>7. GotInv /\ FrontInv
  BY <1>2, <1>6 DEF GotInv, FrontInv, Connected, CutsAt
<1>8. QED
  BY <1>5, <1>7 DEF IInv, Follows

-----------------------------------------------------------------------------
(* Types, torn or not. *)

LEMMA SizeIsType ==
    ASSUME NEW size \in PacketSizes
    PROVE  size \in Nat /\ size <= BufferSize
BY DEF PacketSizes, SizeRead

(* A packet of any size, from anywhere, is one of bytes. *)
LEMMA FrontIsBytes ==
    ASSUME Typed, NEW size \in Nat
    PROVE  [i \in 1..size |-> Front(i)] \in Seq(Int)
<1>1. \A i \in 1..size : Front(i) \in Int
  BY DEF Typed, Front, ByteAt
<1>2. QED
  BY <1>1

LEMMA GotTyped ==
    ASSUME Typed, NEW size \in PacketSizes,
           got' = Append(got, [i \in 1..size |-> Front(i)])
    PROVE  got' \in Seq(Seq(Int))
<1>1. [i \in 1..size |-> Front(i)] \in Seq(Int)
  BY SizeIsType, FrontIsBytes
<1>2. QED
  BY <1>1 DEF Typed

LEMMA TakeTyped ==
    ASSUME Typed, Handle, NEW size \in PacketSizes, Take(size)
    PROVE  Typed'
<1>1. /\ pc = "handling" /\ UNCHANGED <<sent, written, taken, begin, players, torn>>
  BY DEF Handle, streamVars
<1>2. /\ got' = Append(got, [i \in 1..size |-> Front(i)])
      /\ recvBytes' = recvBytes - size /\ size <= recvBytes
      /\ recvCBuffer' = IF recvBytes > size THEN MoveStream(size) ELSE recvCBuffer
      /\ connected' \in {connected, FALSE}
  BY DEF Take
<1>3. pc' \in {"astray", "overrun", "handling"}
  BY <1>1 DEF Take
<1>4. got' \in Seq(Seq(Int))
  BY <1>2, GotTyped
<1>5. size \in Nat /\ recvBytes \in Nat /\ recvCBuffer \in [1..BufferSize -> Int]
  BY SizeIsType DEF Typed
<1>6. recvCBuffer' \in [1..BufferSize -> Int]
  BY <1>2, <1>5 DEF MoveStream, ByteAt
<1>7. recvBytes' \in Nat
  BY <1>2, <1>5
<1>8. connected' \in BOOLEAN
  BY <1>2 DEF Typed
<1>9. StreamInv'
  BY <1>1, StreamSame DEF Typed, StreamInv
<1>10. QED
  BY <1>1, <1>3, <1>4, <1>6, <1>7, <1>8, <1>9 DEF Typed

LEMMA TakeLastTyped ==
    ASSUME Typed, Handle, NEW size \in PacketSizes, TakeSignOut(size) \/ TakeUnknown(size)
    PROVE  Typed'
<1>1. UNCHANGED <<sent, written, taken, begin, players, torn>>
  BY DEF Handle, streamVars
<1>2. /\ got' = Append(got, [i \in 1..size |-> Front(i)])
      /\ connected' = FALSE /\ pc' = "free"
  BY DEF TakeSignOut, TakeUnknown, TakeLast
<1>3. recvBytes' \in Nat /\ recvCBuffer' \in [1..BufferSize -> Int]
  BY DEF TakeSignOut, TakeUnknown, Typed
<1>4. got' \in Seq(Seq(Int))
  BY <1>2, GotTyped
<1>5. StreamInv'
  BY <1>1, StreamSame DEF Typed, StreamInv
<1>6. QED
  BY <1>1, <1>2, <1>3, <1>4, <1>5 DEF Typed

LEMMA StreamInitNext == StreamInit' => StreamInv'
BY StreamInitInv, PTL

LEMMA SignUpTyped == ASSUME Typed, SignUp PROVE Typed'
<1>1. StreamInit'
  BY DEF SignUp, StreamInit
<1>2. StreamInv'
  BY <1>1, StreamInitNext
<1>3. recvCBuffer' \in [1..BufferSize -> Int]
  BY DEF SignUp, Typed
<1>4. players' \in Nat /\ begin' \in 0..BufferSize /\ recvBytes' \in Nat /\ got' \in Seq(Seq(Int))
  BY DEF SignUp, Typed
<1>5. connected' \in BOOLEAN /\ torn' \in BOOLEAN /\ pc' = "receiving"
  BY DEF SignUp
<1>6. QED
  BY <1>2, <1>3, <1>4, <1>5 DEF Typed

(* RecvStream is asked for at least a byte: what is left of a packet is    *)
(* less than any packet.                                                   *)
LEMMA AgainFits == ASSUME Typed, Again PROVE begin' \in 0..BufferSize
<1>1. /\ begin' = recvBytes
      /\ recvBytes < HeaderSize \/ \E size \in PacketSizes : recvBytes < size
  BY DEF Again
<1>2. HeaderSize \in Nat /\ HeaderSize <= BufferSize /\ BufferSize \in Nat /\ recvBytes \in Nat
  BY DEF Typed
<1>3. \A size \in PacketSizes : size \in Nat /\ size <= BufferSize
  BY SizeIsType
<1>4. QED
  BY <1>1, <1>2, <1>3

LEMMA RecvTyped == ASSUME Typed, [Next]_vars PROVE Typed'
<1>1. CASE Send
  <2>1. StreamInv' /\ UNCHANGED sessionVars
    BY <1>1, StreamSendInv DEF Send, Typed
  <2>2. QED
    BY <2>1 DEF Typed, sessionVars
<1>2. CASE Receive
  <2>1. PICK n \in 1..(BufferSize - begin) :
           /\ taken + n <= written
           /\ torn' = (torn \/ ~CutsAt(taken + n, BufferSize))
           /\ recvCBuffer' = Received(recvCBuffer, begin, n)
           /\ taken' = taken + n
           /\ recvBytes' = recvBytes + n
    BY <1>2 DEF Receive
  <2>2. /\ pc' = "handling"
        /\ UNCHANGED <<sent, written, begin, connected, got, players>>
    BY <1>2 DEF Receive
  <2>3. /\ taken \in Nat /\ begin \in Nat /\ recvBytes \in Nat /\ n \in Nat
        /\ recvCBuffer \in [1..BufferSize -> Int]
    BY DEF Typed, StreamInv
  <2>4. StreamInv'
    BY <2>1, <2>2, <2>3, StreamSame DEF Typed
  <2>5. recvCBuffer' \in [1..BufferSize -> Int]
    BY <2>1, <2>3 DEF Received
  <2>6. recvBytes' \in Nat
    BY <2>1, <2>3
  <2>7. torn' \in BOOLEAN
    BY <2>1
  <2>8. QED
    BY <2>2, <2>4, <2>5, <2>6, <2>7 DEF Typed
<1>3. CASE Close \/ Fail
  <2>1. /\ UNCHANGED <<streamVars, recvCBuffer, begin, recvBytes, got, players, torn>>
        /\ connected' \in {connected, FALSE} /\ pc' \in {"left", "free"}
    BY <1>3 DEF Close, Fail
  <2>2. StreamInv'
    BY <2>1, StreamSame DEF Typed, StreamInv, streamVars
  <2>3. QED
    BY <2>1, <2>2 DEF Typed
<1>4. CASE SignUp
  BY <1>4, SignUpTyped
<1>5. CASE Handle
  <2>1. PICK size \in PacketSizes : Take(size) \/ TakeSignOut(size) \/ TakeUnknown(size)
    BY <1>5 DEF Handle
  <2>2. QED
    BY <1>5, <2>1, TakeTyped, TakeLastTyped
<1>6. CASE Again
  <2>1. /\ UNCHANGED <<streamVars, recvCBuffer, recvBytes, connected, got, players, torn>>
        /\ pc' \in {"receiving", "free"}
    BY <1>6 DEF Again
  <2>2. StreamInv'
    BY <2>1, StreamSame DEF Typed, StreamInv, streamVars
  <2>3. QED
    BY <1>6, <2>1, <2>2, AgainFits DEF Typed
<1>7. CASE UNCHANGED vars
  <2>1. StreamInv'
    BY <1>7, StreamSame DEF Typed, StreamInv, vars, streamVars
  <2>2. QED
    BY <1>7, <2>1 DEF Typed, vars, sessionVars
<1>8. QED
  BY <1>1, <1>2, <1>3, <1>4, <1>5, <1>6, <1>7 DEF Next

-----------------------------------------------------------------------------
(* What the session holds, until the stream is torn. *)

(* A packet more on the way leaves alone what the session has. *)
LEMMA RecvSend == ASSUME Typed, Follows, Send PROVE Follows'
<1>1. /\ StreamInv /\ StreamSend /\ UNCHANGED sessionVars
  BY DEF Typed, Send
<1>2. /\ StreamInv'
      /\ Len(sent') = Len(sent) + 1
      /\ \A k \in 1..Len(sent) : sent'[k] = sent[k]
      /\ sent'[Len(sent) + 1][1] = written + 1
      /\ \A k \in 0..Len(sent) : EndOf(k)' = EndOf(k)
  BY <1>1, StreamSendInv
<1>3. /\ Len(sent) \in Nat /\ Len(got) \in 0..Len(sent) /\ taken' = taken /\ taken \in Nat
      /\ written \in Nat /\ taken <= written /\ got' = got
  BY <1>1 DEF Typed, Follows, GotInv, StreamInv, StreamSend, sessionVars
<1>4. Done' = Done
  BY <1>2, <1>3 DEF Done
<1>5. GotInv'
  BY <1>2, <1>3 DEF Follows, GotInv
<1>6. CutsAt(taken, BufferSize)'
  <2>1. \A k \in 1..Len(sent') : k \in 1..Len(sent) \/ k = Len(sent) + 1
    BY <1>2, <1>3
  <2>2. ASSUME NEW k \in 1..Len(sent)
        PROVE  LET first == taken' - sent'[k][1] + 1 IN
               first <= 0 \/ first >= BufferSize \/ first >= Len(sent'[k])
    BY <1>2, <1>3 DEF Follows, FrontInv, CutsAt
  <2>3. taken' - sent'[Len(sent) + 1][1] + 1 <= 0
    BY <1>2, <1>3
  <2>4. QED
    BY <2>1, <2>2, <2>3 DEF CutsAt
<1>7. FrontInv'
  BY <1>1, <1>3, <1>4, <1>6 DEF Follows, FrontInv, Connected, sessionVars
<1>8. QED
  BY <1>5, <1>7 DEF Follows

LEMMA RecvReceive == ASSUME Typed, Follows, Receive, ~torn' PROVE Follows'
<1>1. PICK n \in 1..(BufferSize - begin) :
         /\ taken + n <= written
         /\ torn' = (torn \/ ~CutsAt(taken + n, BufferSize))
         /\ recvCBuffer' = Received(recvCBuffer, begin, n)
         /\ taken' = taken + n
         /\ recvBytes' = recvBytes + n
  BY DEF Receive
<1>2. /\ pc = "receiving" /\ pc' = "handling"
      /\ UNCHANGED <<sent, written, begin, got>>
  BY DEF Receive
<1>3. /\ StreamInv /\ taken \in Nat /\ recvBytes = 0 /\ begin = 0
      /\ Len(got) \in 0..Len(sent) /\ Done \in Nat /\ taken = Done
  BY <1>2, EndIsNat DEF Typed, Follows, StreamInv, FrontInv, GotInv, Connected, Done
<1>5. Done' = Done
  BY <1>2 DEF Done, EndOf, First, Size
<1>6. \A i \in 1..n : recvCBuffer'[i] = taken + i
  BY <1>1, <1>3 DEF Received
<1>7. CutsAt(taken, BufferSize)'
  BY <1>1, <1>2 DEF CutsAt
<1>8. recvBytes' = n /\ n <= BufferSize /\ taken' = Done' + n
  BY <1>1, <1>3, <1>5
<1>9. FrontInv'
  BY <1>2, <1>3, <1>5, <1>6, <1>7, <1>8 DEF FrontInv, Connected
<1>10. GotInv'
  BY <1>2 DEF Follows, GotInv
<1>11. QED
  BY <1>9, <1>10 DEF Follows

(* While bytes are left, a whole packet is at the front... *)
LEMMA WholeAtFront ==
    ASSUME Typed, Follows, pc = "handling", recvBytes > 0
    PROVE  /\ Len(got) + 1 \in 1..Len(sent)
           /\ Done = EndOf(Len(got)) /\ Done \in Nat /\ Done < written
           /\ Size(Len(got) + 1) \in Sizes
           /\ Size(Len(got) + 1) <= recvBytes
           /\ sent[Len(got) + 1] = Packet(Done, Size(Len(got) + 1))
           /\ EndOf(Len(got) + 1) = Done + Size(Len(got) + 1)
<1> DEFINE d == Len(got)
<1>1. /\ d \in 0..Len(sent) /\ Done = EndOf(d) /\ Done \in Nat
      /\ recvBytes \in Nat /\ recvBytes <= BufferSize /\ taken \in Nat
      /\ taken = Done + recvBytes /\ taken <= written /\ StreamInv /\ written \in Nat
      /\ CutsAt(taken, BufferSize) /\ BufferSize \in Nat
  BY EndIsNat DEF Typed, Follows, GotInv, Done, FrontInv, Connected, StreamInv
<1>2. EndOf(d) < written /\ EndOf(d) < taken
  BY <1>1
<1>3. /\ d + 1 \in 1..Len(sent) /\ Size(d + 1) \in Sizes
      /\ sent[d + 1] = Packet(EndOf(d), Size(d + 1))
      /\ EndOf(d + 1) = EndOf(d) + Size(d + 1)
  BY <1>1, <1>2, NextPacket
<1>4. Size(d + 1) \in Nat /\ Size(d + 1) <= BufferSize
  BY <1>3, SizesAreSizes
<1>5. taken >= EndOf(d) + BufferSize \/ taken >= EndOf(d + 1)
  BY <1>1, <1>2, StartOfNext
<1>6. Size(d + 1) <= recvBytes
  BY <1>1, <1>3, <1>4, <1>5
<1>7. QED
  BY <1>1, <1>2, <1>3, <1>6

(* ...and its Size says so. *)
LEMMA PacketAtFront ==
    ASSUME Typed, Follows, pc = "handling", recvBytes > 0, NEW size \in PacketSizes
    PROVE  /\ Len(got) + 1 \in 1..Len(sent)
           /\ size \in Nat /\ size <= recvBytes
           /\ sent[Len(got) + 1] = Packet(Done, size)
           /\ EndOf(Len(got) + 1) = Done + size
           /\ Done \in Nat
<1> DEFINE d == Len(got)
<1>1. /\ d + 1 \in 1..Len(sent) /\ Done = EndOf(d) /\ Done \in Nat /\ Done < written
      /\ Size(d + 1) \in Sizes /\ Size(d + 1) <= recvBytes
      /\ sent[d + 1] = Packet(Done, Size(d + 1))
      /\ EndOf(d + 1) = Done + Size(d + 1)
  BY WholeAtFront
<1>2. /\ recvBytes \in Nat /\ recvBytes <= BufferSize /\ begin = 0 /\ BufferSize \in Nat
      /\ StreamInv /\ d \in 0..Len(sent)
      /\ \A i \in 1..recvBytes : recvCBuffer[i] = Done + i
  BY DEF Typed, Follows, FrontInv, Connected, GotInv
<1>0. SizeAt \in Nat /\ SizeAt >= 1
  OBVIOUS
<1>3. Size(d + 1) \in Nat /\ SizeAt <= Size(d + 1)
  BY <1>1, SizesAreSizes
<1>4. SizeAt \in 1..recvBytes /\ SizeAt \in 1..BufferSize
  BY <1>0, <1>1, <1>2, <1>3
<1>5. Front(SizeAt) = EndOf(d) + SizeAt
  BY <1>1, <1>2, <1>4 DEF Front, ByteAt
<1>6. size = Size(d + 1)
  BY <1>1, <1>2, <1>5, SizeIsRead DEF PacketSizes
<1>7. QED
  BY <1>1, <1>3, <1>6

(* What both ways to handle a packet add to got. *)
LEMMA NextIsTaken ==
    ASSUME Typed, Follows, pc = "handling", recvBytes > 0, NEW size \in PacketSizes
    PROVE  /\ [i \in 1..size |-> Front(i)] = sent[Len(got) + 1]
           /\ sent[Len(got) + 1] \in Seq(Int)
<1>1. /\ Len(got) + 1 \in 1..Len(sent) /\ size \in Nat /\ size <= recvBytes
      /\ sent[Len(got) + 1] = Packet(Done, size)
  BY PacketAtFront
<1>2. /\ recvBytes \in Nat /\ recvBytes <= BufferSize /\ begin = 0
      /\ BufferSize \in Nat
      /\ \A i \in 1..recvBytes : recvCBuffer[i] = Done + i
  BY DEF Typed, Follows, FrontInv, Connected
<1>3. \A i \in 1..size : Front(i) = Done + i
  <2>1. ASSUME NEW i \in 1..size PROVE Front(i) = Done + i
    <3>1. i \in 1..recvBytes /\ i \in 1..BufferSize /\ begin + i = i
      BY <1>1, <1>2
    <3>2. QED
      BY <1>2, <3>1 DEF Front, ByteAt
  <2>2. QED
    BY <2>1
<1>4. [i \in 1..size |-> Front(i)] = Packet(Done, size)
  BY <1>3 DEF Packet
<1>5. sent[Len(got) + 1] \in Seq(Int)
  BY <1>1 DEF Typed, StreamInv
<1>6. QED
  BY <1>1, <1>4, <1>5

(* A packet more was handled: got grew by the next one. *)
LEMMA GotMore ==
    ASSUME Typed, Follows, Len(got) + 1 \in 1..Len(sent), UNCHANGED <<sent, written, taken>>,
           sent[Len(got) + 1] \in Seq(Int),
           got' = Append(got, sent[Len(got) + 1])
    PROVE  /\ GotInv'
           /\ Done' = EndOf(Len(got) + 1)
           /\ CutsAt(taken, BufferSize)'
<1>1. PICK d \in Nat : d = Len(got)
  BY DEF Typed
<1>2. /\ Len(got') = d + 1
      /\ got'[d + 1] = sent[d + 1] /\ \A k \in 1..d : got'[k] = got[k]
  BY <1>1 DEF Typed
<1>3. GotInv'
  <2>1. Len(got') \in 0..Len(sent')
    BY <1>1, <1>2
  <2>2. ASSUME NEW k \in 1..Len(got') PROVE got'[k] = sent'[k]
    BY <1>1, <1>2 DEF Follows, GotInv
  <2>3. QED
    BY <2>1, <2>2 DEF GotInv
<1>4. Done' = EndOf(Len(got) + 1)
  BY <1>1, <1>2 DEF Done, EndOf, First, Size
<1>5. CutsAt(taken, BufferSize)'
  BY DEF Follows, FrontInv, CutsAt
<1>6. QED
  BY <1>3, <1>4, <1>5

LEMMA RecvTake ==
    ASSUME Typed, Follows, Handle, NEW size \in PacketSizes, Take(size)
    PROVE  /\ Follows' /\ Len(got) < Len(sent)
           /\ got' = Append(got, sent[Len(got) + 1])
<1>1. /\ pc = "handling" /\ HeaderSize <= recvBytes
      /\ UNCHANGED <<sent, written, taken, begin>>
  BY DEF Handle, Take, streamVars
<1>2. recvBytes \in Nat /\ recvBytes > 0 /\ recvBytes <= BufferSize /\ BufferSize \in Nat
  BY <1>1 DEF Typed, Follows, FrontInv
<1>3. /\ Len(got) + 1 \in 1..Len(sent) /\ size \in Nat /\ size <= recvBytes
      /\ EndOf(Len(got) + 1) = Done + size /\ Done \in Nat /\ Len(sent) \in Nat
      /\ Len(got) \in Nat
  BY <1>1, <1>2, PacketAtFront DEF Typed, StreamInv
<1>4. /\ begin = 0 /\ taken = Done + recvBytes
      /\ \A i \in 1..recvBytes : recvCBuffer[i] = Done + i
  BY <1>1 DEF Follows, FrontInv, Connected
<1> DEFINE packet == [i \in 1..size |-> Front(i)]
<1>5. packet = sent[Len(got) + 1] /\ sent[Len(got) + 1] \in Seq(Int)
  BY <1>1, <1>2, NextIsTaken
<1>6. /\ got' = Append(got, packet)
      /\ recvBytes' = recvBytes - size
      /\ recvCBuffer' = IF recvBytes > size THEN MoveStream(size) ELSE recvCBuffer
      /\ pc' = IF \A k \in 1..Len(sent) : packet # sent[k] THEN "astray"
               ELSE IF recvBytes > size /\ begin > 0 THEN "overrun" ELSE pc
  BY DEF Take
<1> HIDE DEF packet
<1>7. pc' = "handling"
  BY <1>1, <1>3, <1>4, <1>5, <1>6
<1>8. got' = Append(got, sent[Len(got) + 1])
  BY <1>5, <1>6
<1>9. GotInv' /\ Done' = Done + size /\ CutsAt(taken, BufferSize)'
  BY <1>1, <1>3, <1>5, <1>8, GotMore
<1>10. \A i \in 1..recvBytes' : recvCBuffer'[i] = Done' + i
  <2>1. ASSUME NEW i \in 1..recvBytes' PROVE recvCBuffer'[i] = Done' + i
    <3>1. /\ i \in 1..BufferSize /\ i + size \in 1..recvBytes /\ i + size \in 1..BufferSize
          /\ recvBytes > size /\ ~(i <= begin) /\ i <= begin + BufferSize - size
      BY <1>2, <1>3, <1>4, <1>6
    <3>2. recvCBuffer'[i] = recvCBuffer[i + size]
      BY <1>6, <3>1 DEF MoveStream, ByteAt
    <3>3. recvCBuffer[i + size] = Done + (i + size)
      BY <1>4, <3>1
    <3>4. QED
      BY <1>3, <1>9, <3>2, <3>3
  <2>2. QED
    BY <2>1
<1>11. FrontInv'
  <2>1. taken' = Done' + recvBytes' /\ recvBytes' <= BufferSize
    BY <1>1, <1>2, <1>3, <1>4, <1>6, <1>9
  <2>2. QED
    BY <1>1, <1>4, <1>7, <1>9, <1>10, <2>1 DEF FrontInv, Connected
<1>12. QED
  BY <1>3, <1>8, <1>9, <1>11 DEF Follows

LEMMA RecvTakeLast ==
    ASSUME Typed, Follows, Handle, NEW size \in PacketSizes,
           TakeSignOut(size) \/ TakeUnknown(size)
    PROVE  /\ Follows' /\ Len(got) < Len(sent)
           /\ got' = Append(got, sent[Len(got) + 1])
<1>1. /\ pc = "handling" /\ HeaderSize <= recvBytes
      /\ UNCHANGED <<sent, written, taken, begin>>
      /\ got' = Append(got, [i \in 1..size |-> Front(i)])
      /\ pc' = "free" /\ recvBytes' \in {recvBytes, 0}
  BY DEF Handle, TakeSignOut, TakeUnknown, TakeLast, streamVars
<1>2. recvBytes \in Nat /\ recvBytes > 0 /\ recvBytes <= BufferSize /\ begin = 0
  BY <1>1 DEF Typed, Follows, FrontInv
<1>3. Len(got) + 1 \in 1..Len(sent) /\ Len(got) \in Nat /\ Len(sent) \in Nat
  BY <1>1, <1>2, PacketAtFront DEF Typed, StreamInv
<1>4. /\ got' = Append(got, sent[Len(got) + 1])
      /\ sent[Len(got) + 1] \in Seq(Int)
  BY <1>1, <1>2, NextIsTaken
<1>5. GotInv' /\ CutsAt(taken, BufferSize)'
  BY <1>1, <1>3, <1>4, GotMore
<1>6. recvBytes' <= BufferSize
  BY <1>1, <1>2
<1>7. FrontInv'
  BY <1>1, <1>2, <1>5, <1>6 DEF FrontInv, Connected
<1>8. QED
  BY <1>3, <1>4, <1>5, <1>7 DEF Follows

(* Nothing is left when the next receive is posted. *)
LEMMA RecvAgain == ASSUME Typed, Follows, Again PROVE Follows'
<1>1. /\ pc = "handling" /\ begin' = recvBytes
      /\ pc' \in {"receiving", "free"}
      /\ UNCHANGED <<sent, written, taken, recvCBuffer, recvBytes, got>>
      /\ recvBytes < HeaderSize \/ \E size \in PacketSizes : recvBytes < size
  BY DEF Again, streamVars
<1>2. recvBytes \in Nat /\ recvBytes <= BufferSize
  BY DEF Typed, Follows, FrontInv
<1>3. recvBytes = 0
  <2>1. SUFFICES ASSUME recvBytes > 0 PROVE FALSE
    BY <1>2
  <2>2. \A size \in PacketSizes : size \in Nat /\ size <= recvBytes
    BY <1>1, <2>1, PacketAtFront
  <2>3. HeaderSize <= recvBytes
    <3>1. Size(Len(got) + 1) \in Sizes /\ Size(Len(got) + 1) <= recvBytes
      BY <1>1, <2>1, WholeAtFront
    <3>2. Size(Len(got) + 1) \in Nat /\ HeaderSize <= Size(Len(got) + 1) /\ HeaderSize \in Nat
      BY <3>1, SizesAreSizes
    <3>3. QED
      BY <1>2, <3>1, <3>2
  <2>4. HeaderSize \in Nat
    OBVIOUS
  <2>5. QED
    BY <1>1, <1>2, <2>2, <2>3, <2>4
<1>4. GotInv'
  BY <1>1 DEF Follows, GotInv
<1>5. Done' = Done
  BY <1>1 DEF Done, EndOf, First, Size
<1>6. CutsAt(taken, BufferSize)'
  BY <1>1 DEF Follows, FrontInv, CutsAt
<1>7. FrontInv'
  BY <1>1, <1>2, <1>3, <1>5, <1>6 DEF Follows, FrontInv, Connected
<1>8. QED
  BY <1>4, <1>7 DEF Follows

-----------------------------------------------------------------------------
LEMMA RecvStep ==
    ASSUME Typed, Follows, [Next]_vars, ~SignUp, ~torn'
    PROVE  Follows' /\ [Pipe!Send \/ Pipe!Deliver]_(Pipe!pipeVars)
<1>1. CASE Send
  <2>1. Pipe!Send
    BY <1>1 DEF Send, StreamSend, Packet, sessionVars, Pipe!Send, Pipe!Packet
  <2>2. QED
    BY <1>1, <2>1, RecvSend
<1>2. CASE Receive
  <2>1. torn' = torn
    BY <1>2 DEF Receive, Typed
  <2>2. QED
    BY <1>2, <2>1, RecvReceive DEF Receive, Pipe!pipeVars
<1>3. CASE Close \/ Fail
  <2>1. /\ UNCHANGED <<sent, written, taken, recvCBuffer, begin, recvBytes, got, torn>>
        /\ pc' \in {"left", "free"}
    BY <1>3 DEF Close, Fail, streamVars
  <2>2. GotInv' /\ CutsAt(taken, BufferSize)'
    BY <2>1 DEF Follows, GotInv, FrontInv, CutsAt
  <2>3. FrontInv'
    BY <2>1, <2>2 DEF Follows, FrontInv, Connected
  <2>4. QED
    BY <2>1, <2>2, <2>3 DEF Follows, Pipe!pipeVars
<1>4. CASE Handle
  <2>1. PICK size \in PacketSizes : Take(size) \/ TakeSignOut(size) \/ TakeUnknown(size)
    BY <1>4 DEF Handle
  <2>2. /\ Follows' /\ Len(got) < Len(sent) /\ got' = Append(got, sent[Len(got) + 1])
    BY <1>4, <2>1, RecvTake, RecvTakeLast
  <2>3. ~torn /\ UNCHANGED <<sent, written, torn>>
    BY <1>4 DEF Handle, streamVars
  <2>4. Pipe!Deliver
    BY <2>2, <2>3 DEF Pipe!Deliver
  <2>5. QED
    BY <2>2, <2>4
<1>5. CASE Again
  BY <1>5, RecvAgain DEF Again, Pipe!pipeVars, streamVars
<1>6. CASE UNCHANGED vars
  <2>1. UNCHANGED <<sent, written, taken, recvCBuffer, begin, recvBytes, got, torn, pc>>
    BY <1>6 DEF vars, streamVars, sessionVars
  <2>2. Done' = Done
    BY <2>1 DEF Done, EndOf, First, Size
  <2>3. GotInv' /\ CutsAt(taken, BufferSize)'
    BY <2>1 DEF Follows, GotInv, FrontInv, CutsAt
  <2>4. FrontInv'
    BY <2>1, <2>2, <2>3 DEF Follows, FrontInv, Connected
  <2>5. QED
    BY <2>1, <2>3, <2>4 DEF Follows, Pipe!pipeVars
<1>7. QED
  BY <1>1, <1>2, <1>3, <1>4, <1>5, <1>6 DEF Next

(* The next player has a stream of his own, which is whole as long as      *)
(* nothing is left in recvBytes.                                           *)
LEMMA RecvSignUp ==
    ASSUME Typed, SignUp
    PROVE  (~torn' => Follows') /\ Pipe!Renew
<1>1. /\ sent' = <<>> /\ written' = 0 /\ taken' = 0 /\ got' = <<>>
      /\ begin' = 0 /\ pc' = "receiving" /\ recvBytes' = recvBytes
  BY DEF SignUp
<1>2. torn' = (recvBytes # 0)
  BY DEF SignUp
<1>3. Pipe!Renew
  <2>1. torn' \in BOOLEAN
    BY <1>2
  <2>2. QED
    BY <1>1, <2>1 DEF Pipe!Renew
<1>4. ASSUME ~torn' PROVE Follows'
  <2>1. recvBytes' = 0
    BY <1>1, <1>2, <1>4
  <2>2. Len(got') = 0 /\ Len(sent') = 0 /\ BufferSize \in Nat
    BY <1>1
  <2>3. Done' = 0
    BY <2>2 DEF Done, EndOf
  <2>4. GotInv' /\ CutsAt(taken, BufferSize)'
    BY <2>2 DEF GotInv, CutsAt
  <2>5. FrontInv'
    BY <1>1, <2>1, <2>2, <2>3, <2>4 DEF FrontInv, Connected
  <2>6. QED
    BY <2>4, <2>5 DEF Follows
<1>5. QED
  BY <1>3, <1>4

(* Once torn the pipe may do as it likes. *)
LEMMA RecvTorn ==
    ASSUME Typed, [Next]_vars, ~SignUp, torn'
    PROVE  [Pipe!Next]_(Pipe!pipeVars)
<1>1. CASE Send
  <2>1. Pipe!Send
    BY <1>1 DEF Send, StreamSend, Packet, sessionVars, Pipe!Send, Pipe!Packet
  <2>2. QED
    BY <2>1 DEF Pipe!Next
<1>2. CASE Receive \/ Close \/ Fail \/ Handle \/ Again
  <2>1. torn' \in BOOLEAN
    BY <1>2, RecvTyped DEF Typed
  <2>2. torn' = TRUE /\ UNCHANGED <<sent, written>>
    BY <1>2, <2>1 DEF Receive, Close, Fail, Handle, Again, streamVars
  <2>3. QED
    BY <2>2 DEF Pipe!Next, Pipe!Torn
<1>3. CASE UNCHANGED vars
  BY <1>3 DEF vars, streamVars, sessionVars, Pipe!pipeVars
<1>4. QED
  BY <1>1, <1>2, <1>3 DEF Next

LEMMA RecvInductive ==
    ASSUME IInv, [Next]_vars
    PROVE  IInv' /\ [Pipe!Next]_(Pipe!pipeVars)
<1>1. Typed /\ Typed'
  BY RecvTyped DEF IInv
<1>2. CASE SignUp
  BY <1>1, <1>2, RecvSignUp DEF IInv, Pipe!Next
<1>3. CASE ~SignUp /\ torn'
  BY <1>1, <1>3, RecvTorn DEF IInv
<1>4. CASE ~SignUp /\ ~torn'
  <2>1. ~torn
    BY <1>4 DEF Next, Send, Receive, Close, Fail, Handle, Again, sessionVars, vars
  <2>2. Follows' /\ [Pipe!Send \/ Pipe!Deliver]_(Pipe!pipeVars)
    BY <1>1, <1>4, <2>1, RecvStep DEF IInv
  <2>3. QED
    BY <1>1, <2>2 DEF IInv, Pipe!Next
<1>5. QED
  BY <1>2, <1>3, <1>4

LEMMA RecvInvariant == Spec => []IInv
<1>1. IInv /\ [Next]_vars => IInv'
  BY RecvInductive
<1>2. QED
  BY <1>1, RecvInit, PTL DEF Spec

(* The next receive always fits recvCBuffer, however the bytes are cut and *)
(* whoever had the place before; and what is counted does until torn.      *)
THEOREM RecvTypeCorrect == Spec => []TypeOK
<1>1. IInv => TypeOK
  BY DEF IInv, Typed, Follows, FrontInv, TypeOK
<1>2. QED
  BY <1>1, RecvInvariant, PTL

(* MoveStream is never called with recvBuffer.buf behind the front, where  *)
(* it would write over recvBytes and the members behind it, until a        *)
(* receive ends within a packet or bytes of a former player are counted.   *)
THEOREM RecvMovesInside == Spec => []MovesInside
<1>1. IInv => MovesInside
  BY DEF IInv, Follows, FrontInv, MovesInside
<1>2. QED
  BY <1>1, RecvInvariant, PTL

(* ProceedReceived implements PacketPipe for the players of a place one    *)
(* after the other: the packets of each are handled whole, once each and   *)
(* in order until torn.                                                    *)
THEOREM RecvDelivers == Spec => DeliversInOrder
<1>1. Init => Pipe!Init
  BY DEF Init, StreamInit, Pipe!Init
<1>2. IInv /\ [Next]_vars => [Pipe!Next]_(Pipe!pipeVars)
  BY RecvInductive
<1>3. QED
  BY <1>1, <1>2, RecvInvariant, PTL DEF Spec, DeliversInOrder, Pipe!Spec

=============================================================================
