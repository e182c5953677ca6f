------------------------- MODULE StressStreamProofs -------------------------
(***************************************************************************)
(* Whatever packets are sent and however the receives cut them, until one  *)
(* ends before the Size of a packet: the stress test handles packets as    *)
(* PacketPipe promises.                                                    *)
(***************************************************************************)
EXTENDS StressStream, StreamProofs

(* The bytes that were handed over. *)
Done == EndOf(Len(got))

(* What the handler holds follows what it handed over, byte by byte.       *)
GotInv ==
    /\ Len(got) \in 0..Len(sent)
    /\ \A k \in 1..Len(got) : got[k] = sent[k]

BufferInv ==
    /\ taken - io_size = Done + prev
    /\ \A i \in 1..io_size : iocp_buf[at + i] = Done + prev + i
    /\ \A i \in 1..prev : packet_buf[i] = Done + i

SizeInv ==
    curr # 0 => Len(got) < Len(sent) /\ curr = Len(sent[Len(got) + 1])

PcInv ==
    /\ pc # "handling" => io_size = 0
    /\ pc # "astray"
    /\ CutsAt(taken, SizeAt)

(* What holds until the stream is torn... *)
Follows == GotInv /\ BufferInv /\ SizeInv /\ PcInv

(* ...and what always does. *)
Typed ==
    /\ StreamInv /\ TypeOK
    /\ got \in Seq(Seq(Int))

IInv == Typed /\ (~torn => Follows)

USE ByteStreamAssumption

LEMMA StressInit == Init => IInv
<1> SUFFICES ASSUME Init PROVE IInv
  OBVIOUS
<1>1. StreamInv
  BY StreamInitInv DEF Init
<1>2. sent = <<>> /\ taken = 0 /\ got = <<>> /\ Len(got) = 0 /\ Len(sent) = 0
  BY DEF Init, StreamInit
<1>3. TypeOK
  <2>1. /\ iocp_buf \in [1..BufferSize -> Int] /\ packet_buf \in [1..BufferSize -> Int]
        /\ BufferSize \in Nat
    BY DEF Init
  <2>2. torn \in BOOLEAN
    BY DEF Init
  <2>3. QED
    BY <2>1, <2>2 DEF Init, TypeOK
<1>4. GotInv /\ BufferInv /\ SizeInv /\ PcInv
  <2>1. Done = 0
    BY <1>2 DEF Done, EndOf
  <2>2. QED
    BY <1>2, <2>1 DEF Init, GotInv, BufferInv, SizeInv, PcInv, CutsAt
<1>5. QED
  BY <1>1, <1>2, <1>3, <1>4 DEF IInv, Typed, Follows

-----------------------------------------------------------------------------
(* Types, torn or not. *)

LEMMA SizeIsType ==
    ASSUME Typed, NEW size \in ProceedSizes
    PROVE  /\ size \in Nat /\ size <= BufferSize
           /\ curr = 0 => prev = 0
           /\ curr # 0 => size = curr /\ prev < size
BY DEF Typed, TypeOK, ProceedSizes, SizeRead

LEMMA FinishTyped ==
    ASSUME Typed, Handle, NEW size \in ProceedSizes, Finish(size)
    PROVE  Typed'
<1>1. /\ pc = "handling" /\ io_size > 0 /\ UNCHANGED <<sent, written, taken, iocp_buf, torn>>
  BY DEF Handle, streamVars
<1>2. /\ io_size \in Nat /\ prev \in Nat /\ at \in Nat /\ at + io_size <= BufferSize
      /\ BufferSize \in Nat /\ prev <= BufferSize
      /\ iocp_buf \in [1..BufferSize -> Int] /\ packet_buf \in [1..BufferSize -> Int]
      /\ taken \in Nat /\ taken <= written
  BY DEF Typed, TypeOK, StreamInv
<1>3. size \in Nat /\ size <= BufferSize /\ prev <= size
  BY <1>2, SizeIsType
<1> DEFINE packet == [i \in 1..size |->
                         IF i <= prev THEN packet_buf[i] ELSE ByteAt(iocp_buf, at + i - prev)]
<1>4. /\ size <= io_size + prev
      /\ got' = Append(got, packet)
      /\ io_size' = io_size - (size - prev)
      /\ at' = at + (size - prev)
      /\ curr' = 0 /\ prev' = 0
      /\ pc' = IF \E k \in 1..Len(sent) : packet = sent[k] THEN pc ELSE "astray"
      /\ packet_buf' = packet_buf
  BY DEF Finish
<1>5. packet \in [1..size -> Int]
  <2>1. ASSUME NEW i \in 1..size PROVE packet[i] \in Int
    <3>1. CASE i <= prev
      <4>1. i \in 1..BufferSize
        BY <1>2, <3>1
      <4>2. QED
        BY <1>2, <3>1, <4>1
    <3>2. CASE ~(i <= prev)
      BY <1>2, <3>2 DEF ByteAt
    <3>3. QED
      BY <3>1, <3>2
  <2>2. QED
    BY <2>1
<1>6. packet \in Seq(Int)
  BY <1>3, <1>5
<1> HIDE DEF packet
<1>7. got' \in Seq(Seq(Int))
  BY <1>4, <1>6 DEF Typed
<1>8. pc' \in {"receiving", "handling", "ended", "astray"}
  BY <1>1, <1>4
<1>9. io_size' \in Nat /\ at' \in Nat /\ at' + io_size' <= BufferSize
  BY <1>2, <1>3, <1>4
<1>10. TypeOK'
  <2>1. io_size' \in 0..BufferSize /\ at' \in 0..BufferSize
    <3>1. \A i, a, b \in Nat : a + i <= b => i \in 0..b /\ a \in 0..b
      OBVIOUS
    <3>2. io_size' \in Nat /\ at' \in Nat /\ at' + io_size' <= BufferSize /\ BufferSize \in Nat
      BY <1>2, <1>9
    <3>3. QED
      BY <3>1, <3>2
  <2>2. curr' \in 0..BufferSize /\ prev' \in 0..BufferSize
    BY <1>2, <1>4
  <2>3. torn' \in BOOLEAN
    BY <1>1 DEF Typed, TypeOK
  <2>4. iocp_buf' \in [1..BufferSize -> Int] /\ packet_buf' \in [1..BufferSize -> Int]
    BY <1>1, <1>2, <1>4
  <2>5. QED
    BY <1>4, <1>8, <1>9, <2>1, <2>2, <2>3, <2>4 DEF TypeOK
<1>11. StreamInv'
  BY <1>1, <1>2, StreamSame DEF Typed
<1>12. QED
  BY <1>7, <1>10, <1>11 DEF Typed

LEMMA KeepTyped ==
    ASSUME Typed, Handle, NEW size \in ProceedSizes, Keep(size)
    PROVE  Typed'
<1>1. /\ UNCHANGED <<sent, written, taken, iocp_buf, at, pc, got, torn>>
      /\ io_size + prev < size
      /\ packet_buf' = [i \in 1..BufferSize |->
                           IF i \in (prev + 1)..(prev + io_size)
                           THEN ByteAt(iocp_buf, at + i - prev) ELSE packet_buf[i]]
      /\ prev' = prev + io_size /\ io_size' = 0 /\ curr' = size
  BY DEF Handle, Keep, streamVars
<1>2. /\ io_size \in Nat /\ prev \in Nat /\ at \in Nat /\ at + io_size <= BufferSize
      /\ BufferSize \in Nat
      /\ iocp_buf \in [1..BufferSize -> Int] /\ packet_buf \in [1..BufferSize -> Int]
      /\ taken \in Nat /\ taken <= written
  BY DEF Typed, TypeOK, StreamInv
<1>3. size \in Nat /\ size <= BufferSize
  BY SizeIsType
<1>4. packet_buf' \in [1..BufferSize -> Int]
  BY <1>1, <1>2 DEF ByteAt
<1>5. /\ prev' \in 0..BufferSize /\ curr' \in 0..BufferSize /\ prev' < curr'
      /\ curr' # 0 /\ io_size' \in 0..BufferSize
      /\ at' \in 0..BufferSize /\ at' + io_size' <= BufferSize
  BY <1>1, <1>2, <1>3
<1>6. TypeOK'
  BY <1>1, <1>2, <1>4, <1>5 DEF Typed, TypeOK
<1>7. StreamInv'
  BY <1>1, <1>2, StreamSame DEF Typed
<1>8. QED
  BY <1>1, <1>6, <1>7 DEF Typed

LEMMA StressTyped == ASSUME Typed, [Next]_vars PROVE Typed'
<1>1. CASE Send
  <2>1. StreamInv' /\ UNCHANGED clientVars
    BY <1>1, StreamSendInv DEF Send, Typed
  <2>2. QED
    BY <2>1 DEF Typed, TypeOK, clientVars
<1>2. CASE Receive
  <2>1. PICK n \in 1..BufferSize :
           /\ taken + n <= written
           /\ torn' = (torn \/ ~CutsAt(taken + n, SizeAt))
           /\ iocp_buf' = Received(iocp_buf, 0, n)
           /\ taken' = taken + n
           /\ io_size' = n
    BY <1>2 DEF Receive
  <2>2. /\ pc' = "handling" /\ at' = 0
        /\ UNCHANGED <<sent, written, packet_buf, curr, prev, got>>
    BY <1>2 DEF Receive
  <2>3. taken \in Nat /\ BufferSize \in Nat /\ iocp_buf \in [1..BufferSize -> Int]
    BY DEF Typed, TypeOK, StreamInv
  <2>4. StreamInv'
    BY <2>1, <2>2, <2>3, StreamSame DEF Typed
  <2>5. iocp_buf' \in [1..BufferSize -> Int]
    BY <2>1, <2>3 DEF Received
  <2>6. io_size' \in 0..BufferSize /\ at' \in 0..BufferSize /\ at' + io_size' <= BufferSize
    BY <2>1, <2>2, <2>3
  <2>7. torn' \in BOOLEAN
    BY <2>1
  <2>8. TypeOK'
    BY <2>2, <2>5, <2>6, <2>7 DEF Typed, TypeOK
  <2>9. QED
    BY <2>2, <2>4, <2>8 DEF Typed
<1>3. CASE End \/ Again
  <2>1. /\ UNCHANGED <<streamVars, iocp_buf, packet_buf, curr, prev, io_size, at, got, torn>>
        /\ pc' \in {"receiving", "ended"}
    BY <1>3 DEF End, Again
  <2>2. StreamInv'
    BY <2>1, StreamSame DEF Typed, StreamInv, streamVars
  <2>3. QED
    BY <2>1, <2>2 DEF Typed, TypeOK
<1>4. CASE Handle
  <2>1. PICK size \in ProceedSizes : Finish(size) \/ Keep(size)
    BY <1>4 DEF Handle
  <2>2. QED
    BY <1>4, <2>1, FinishTyped, KeepTyped
<1>5. CASE UNCHANGED vars
  <2>1. StreamInv'
    BY <1>5, StreamSame DEF Typed, StreamInv, vars, streamVars
  <2>2. QED
    BY <1>5, <2>1 DEF Typed, TypeOK, vars, clientVars
<1>6. QED
  BY <1>1, <1>2, <1>3, <1>4, <1>5 DEF Next

-----------------------------------------------------------------------------
(* What the handler holds, until the stream is torn. *)

(* A step that leaves alone what the client has. *)
LEMMA StressSend == ASSUME Typed, Follows, Send PROVE Follows'
<1>1. /\ StreamInv /\ StreamSend /\ UNCHANGED clientVars
  BY DEF Typed, Send
<1>2. /\ StreamInv'
      /\ Len(sent') = Len(sent) + 1
      /\ \A k \in 1..Len(sent) : sent'[k] = sent[k]
      /\ sent'[Len(sent) + 1][1] = written + 1
      /\ \A k \in 0..Len(sent) : EndOf(k)' = EndOf(k)
  BY <1>1, StreamSendInv
<1>3. /\ Len(sent) \in Nat /\ Len(got) \in 0..Len(sent) /\ taken' = taken /\ taken \in Nat
      /\ written \in Nat /\ taken <= written /\ got' = got
  BY <1>1 DEF Typed, Follows, GotInv, StreamInv, StreamSend, clientVars
<1>4. Done' = Done
  BY <1>2, <1>3 DEF Done
<1>5. GotInv'
  BY <1>2, <1>3 DEF Follows, GotInv
<1>6. BufferInv'
  BY <1>1, <1>3, <1>4 DEF Follows, BufferInv, clientVars
<1>7. SizeInv'
  <2>1. Len(got) < Len(sent) => Len(got) + 1 \in 1..Len(sent)
    BY <1>3
  <2>2. QED
    BY <1>1, <1>2, <1>3, <2>1 DEF Follows, SizeInv, clientVars
<1>8. PcInv'
  <2>1. CutsAt(taken, SizeAt)'
    <3>1. \A k \in 1..Len(sent') : k \in 1..Len(sent) \/ k = Len(sent) + 1
      BY <1>2, <1>3
    <3>2. ASSUME NEW k \in 1..Len(sent)
          PROVE  LET first == taken' - sent'[k][1] + 1 IN
                 first <= 0 \/ first >= SizeAt \/ first >= Len(sent'[k])
      BY <1>2, <1>3 DEF Follows, PcInv, CutsAt
    <3>3. taken' - sent'[Len(sent) + 1][1] + 1 <= 0
      BY <1>2, <1>3
    <3>4. QED
      BY <3>1, <3>2, <3>3 DEF CutsAt
  <2>2. QED
    BY <1>1, <2>1 DEF Follows, PcInv, clientVars
<1>9. QED
  BY <1>5, <1>6, <1>7, <1>8 DEF Follows

LEMMA StressReceive == ASSUME Typed, Follows, Receive, ~torn' PROVE Follows'
<1>1. PICK n \in 1..BufferSize :
         /\ taken + n <= written
         /\ torn' = (torn \/ ~CutsAt(taken + n, SizeAt))
         /\ iocp_buf' = Received(iocp_buf, 0, n)
         /\ taken' = taken + n
         /\ io_size' = n
  BY DEF Receive
<1>2. /\ pc = "receiving" /\ pc' = "handling" /\ at' = 0
      /\ UNCHANGED <<sent, written, packet_buf, curr, prev, got>>
  BY DEF Receive
<1>3. /\ StreamInv /\ taken \in Nat /\ io_size = 0 /\ prev \in Nat
      /\ Len(got) \in 0..Len(sent) /\ Done \in Nat /\ taken = Done + prev
  BY <1>2, EndIsNat DEF Typed, Follows, StreamInv, PcInv, GotInv, BufferInv, Done, TypeOK
<1>5. Done' = Done
  BY <1>2 DEF Done, EndOf, First, Size
<1>6. iocp_buf' \in [1..BufferSize -> Int] /\ \A i \in 1..n : iocp_buf'[i] = taken + i
  BY <1>1, <1>3 DEF Received, Typed, TypeOK
<1>7. BufferInv'
  BY <1>1, <1>2, <1>3, <1>5, <1>6 DEF Follows, BufferInv
<1>8. GotInv' /\ SizeInv'
  BY <1>2 DEF Follows, GotInv, SizeInv
<1>9. PcInv'
  BY <1>1, <1>2 DEF PcInv, CutsAt
<1>10. QED
  BY <1>7, <1>8, <1>9 DEF Follows

(* A step that only moves the handler on. *)
LEMMA StressIdle ==
    ASSUME Follows, UNCHANGED <<streamVars, iocp_buf, packet_buf, curr, prev, io_size, at, got>>,
           pc' \in {"receiving", "ended"}, io_size = 0
    PROVE  Follows'
BY DEF Follows, streamVars, First, Size, EndOf, GotInv, BufferInv, SizeInv, PcInv, Done, CutsAt

LEMMA InHand ==
    ASSUME Typed, Follows
    PROVE  /\ io_size \in Nat /\ prev \in Nat /\ at \in Nat /\ at + io_size <= BufferSize
           /\ BufferSize \in Nat
           /\ taken \in Nat /\ taken - io_size = Done + prev
           /\ Len(got) \in Nat /\ Len(sent) \in Nat
           /\ iocp_buf \in [1..BufferSize -> Int] /\ packet_buf \in [1..BufferSize -> Int]
           /\ \A i \in 1..io_size : iocp_buf[at + i] = Done + prev + i
           /\ \A i \in 1..prev : packet_buf[i] = Done + i
<1>1. /\ io_size \in Nat /\ prev \in Nat /\ at \in Nat /\ at + io_size <= BufferSize
      /\ BufferSize \in Nat
      /\ iocp_buf \in [1..BufferSize -> Int] /\ packet_buf \in [1..BufferSize -> Int]
  BY DEF Typed, TypeOK
<1>2. taken \in Nat /\ Len(sent) \in Nat /\ Len(got) \in Nat
  BY DEF Typed, Follows, StreamInv, GotInv
<1>3. QED
  BY <1>1, <1>2 DEF Follows, BufferInv

(* The size at hand is that of the packet at hand. *)
LEMMA SizeAtHand ==
    ASSUME Typed, Follows, pc = "handling", io_size > 0, NEW size \in ProceedSizes
    PROVE  /\ Len(got) + 1 \in 1..Len(sent)
           /\ size \in Sizes
           /\ sent[Len(got) + 1] = Packet(Done, size)
           /\ EndOf(Len(got) + 1) = Done + size
           /\ Done \in Nat
           /\ prev < size
           /\ Len(sent[Len(got) + 1]) = size
<1> DEFINE d == Len(got)
<1>1. /\ d \in 0..Len(sent) /\ Done = EndOf(d) /\ Done \in Nat
      /\ io_size \in Nat /\ prev \in Nat /\ taken \in Nat /\ at \in Nat
      /\ at + io_size <= BufferSize
      /\ taken - io_size = Done + prev /\ taken <= written /\ StreamInv /\ written \in Nat
  BY EndIsNat DEF Typed, Follows, GotInv, Done, TypeOK, BufferInv, StreamInv
<1>2. EndOf(d) < written
  BY <1>1
<1>3. /\ d + 1 \in 1..Len(sent) /\ Size(d + 1) \in Sizes
      /\ sent[d + 1] = Packet(EndOf(d), Size(d + 1))
      /\ EndOf(d + 1) = EndOf(d) + Size(d + 1)
  BY <1>1, <1>2, NextPacket
<1>4. size = Size(d + 1) /\ prev < size
  <2>1. CASE curr # 0
    BY <2>1 DEF Typed, Follows, SizeInv, TypeOK, ProceedSizes, Size
  <2>2. CASE curr = 0
    <3>1. prev = 0 /\ taken = Done + io_size
      BY <1>1, <2>2 DEF Typed, TypeOK
    <3>2. taken >= EndOf(d) + SizeAt \/ taken >= EndOf(d + 1)
      BY <1>1, <3>1, StartOfNext DEF Follows, PcInv
    <3>3. Size(d + 1) \in Nat /\ SizeAt <= Size(d + 1)
      BY <1>3, SizesAreSizes
    <3>4. SizeAt \in 1..io_size
      <4>1. io_size >= SizeAt \/ io_size >= Size(d + 1)
        BY <1>1, <1>3, <3>1, <3>2, <3>3
      <4>2. SizeAt <= io_size
        BY <1>1, <3>3, <4>1
      <4>3. QED
        BY <1>1, <4>2
    <3>5. /\ iocp_buf[at + SizeAt] = Done + prev + SizeAt
          /\ at + SizeAt \in 1..BufferSize
      BY <1>1, <3>4, InHand
    <3>6. ByteAt(iocp_buf, at + SizeAt) = EndOf(d) + SizeAt
      BY <1>1, <3>1, <3>5 DEF ByteAt
    <3>7. size \in SizeRead(EndOf(d) + SizeAt)
      BY <2>2, <3>6 DEF ProceedSizes
    <3>8. size = Size(d + 1)
      BY <1>1, <1>2, <3>7, SizeIsRead
    <3>9. QED
      BY <3>1, <3>3, <3>8
  <2>3. QED
    BY <2>1, <2>2
<1>5. QED
  BY <1>1, <1>3, <1>4 DEF Size

(* A packet is completed: it is the next one that was sent. *)
LEMMA StressFinish ==
    ASSUME Typed, Follows, Handle, NEW size \in ProceedSizes, Finish(size)
    PROVE  Follows' /\ Len(got) < Len(sent) /\ got' = Append(got, sent[Len(got) + 1])
<1>0. PICK d \in Nat : d = Len(got)
  BY DEF Typed
<1>1. /\ pc = "handling" /\ io_size > 0 /\ UNCHANGED <<sent, written, taken, iocp_buf>>
  BY DEF Handle, streamVars
<1>2. /\ d + 1 \in 1..Len(sent) /\ size \in Nat /\ sent[d + 1] = Packet(Done, size)
      /\ EndOf(d + 1) = Done + size /\ Done \in Nat /\ prev < size
  BY <1>0, <1>1, SizeAtHand, SizesAreSizes
<1>3. /\ io_size \in Nat /\ prev \in Nat /\ at \in Nat /\ at + io_size <= BufferSize
      /\ BufferSize \in Nat
      /\ taken \in Nat /\ taken - io_size = Done + prev /\ Len(sent) \in Nat
      /\ \A i \in 1..io_size : iocp_buf[at + i] = Done + prev + i
      /\ \A i \in 1..prev : packet_buf[i] = Done + i
  BY InHand
<1> DEFINE packet == [i \in 1..size |->
                         IF i <= prev THEN packet_buf[i] ELSE ByteAt(iocp_buf, at + i - prev)]
<1>4. /\ size <= io_size + prev
      /\ got' = Append(got, packet)
      /\ io_size' = io_size - (size - prev)
      /\ at' = at + (size - prev)
      /\ curr' = 0 /\ prev' = 0
      /\ pc' = IF \E k \in 1..Len(sent) : packet = sent[k] THEN pc ELSE "astray"
      /\ packet_buf' = packet_buf
  BY DEF Finish
<1>5. packet = sent[d + 1]
  <2>1. ASSUME NEW i \in 1..size PROVE packet[i] = Done + i
    <3>1. CASE i <= prev
      BY <1>2, <1>3, <2>1, <3>1
    <3>2. CASE i > prev
      <4>1. i - prev \in 1..io_size /\ at + (i - prev) = at + i - prev
        BY <1>2, <1>3, <1>4, <2>1, <3>2
      <4>2. iocp_buf[at + (i - prev)] = Done + prev + (i - prev)
        BY <1>3, <4>1
      <4>3. at + i - prev \in 1..BufferSize
        BY <1>3, <4>1
      <4>4. ByteAt(iocp_buf, at + i - prev) = Done + i
        BY <1>2, <1>3, <4>1, <4>2, <4>3 DEF ByteAt
      <4>5. QED
        BY <1>2, <1>3, <2>1, <3>2, <4>4
    <3>3. QED
      BY <1>2, <1>3, <3>1, <3>2
  <2>2. packet = [i \in 1..size |-> Done + i]
    BY <2>1
  <2>3. QED
    BY <1>2, <2>2 DEF Packet
<1> HIDE DEF packet
<1>6. pc' = "handling"
  BY <1>1, <1>2, <1>4, <1>5
<1>7. /\ got \in Seq(Seq(Int)) /\ sent[d + 1] \in Seq(Int)
  BY <1>2 DEF Typed, StreamInv
<1>8. /\ got' = Append(got, sent[d + 1]) /\ got' \in Seq(Seq(Int)) /\ Len(got') = d + 1
      /\ got'[d + 1] = sent[d + 1] /\ \A k \in 1..d : got'[k] = got[k]
  BY <1>0, <1>4, <1>5, <1>7
<1>10. Done' = Done + size
  BY <1>1, <1>2, <1>8 DEF Done, EndOf, First, Size
<1>11. GotInv'
  BY <1>0, <1>1, <1>2, <1>3, <1>8 DEF Follows, GotInv
<1>12. BufferInv'
  <2>1. taken' - io_size' = Done' + prev'
    BY <1>1, <1>2, <1>3, <1>4, <1>10
  <2>2. ASSUME NEW i \in 1..io_size' PROVE iocp_buf'[at' + i] = Done' + prev' + i
    <3>1. (size - prev) + i \in 1..io_size
      BY <1>2, <1>3, <1>4
    <3>2. iocp_buf[at + ((size - prev) + i)] = Done + prev + ((size - prev) + i)
      BY <1>3, <3>1
    <3>3. at' + i = at + ((size - prev) + i) /\ i \in Int
      BY <1>2, <1>3, <1>4
    <3>4. QED
      BY <1>1, <1>2, <1>3, <1>4, <1>10, <3>2, <3>3
  <2>3. \A i \in 1..prev' : packet_buf'[i] = Done' + i
    BY <1>4
  <2>4. QED
    BY <2>1, <2>2, <2>3 DEF BufferInv
<1>13. SizeInv' /\ PcInv'
  BY <1>1, <1>4, <1>6 DEF Follows, SizeInv, PcInv, CutsAt
<1>14. QED
  BY <1>0, <1>2, <1>3, <1>8, <1>11, <1>12, <1>13 DEF Follows

(* What is left of the bytes begins a packet, or goes on with it. *)
LEMMA StressKeep ==
    ASSUME Typed, Follows, Handle, NEW size \in ProceedSizes, Keep(size)
    PROVE  Follows'
<1>1. /\ pc = "handling" /\ io_size > 0
      /\ UNCHANGED <<sent, written, taken, iocp_buf, at, pc, got>>
      /\ io_size + prev < size
      /\ packet_buf' = [i \in 1..BufferSize |->
                           IF i \in (prev + 1)..(prev + io_size)
                           THEN ByteAt(iocp_buf, at + i - prev) ELSE packet_buf[i]]
      /\ prev' = prev + io_size /\ io_size' = 0 /\ curr' = size
  BY DEF Handle, Keep, streamVars
<1>2. /\ Len(got) + 1 \in 1..Len(sent) /\ size \in Nat /\ size <= BufferSize
      /\ Done \in Nat /\ Len(sent[Len(got) + 1]) = size
  BY <1>1, SizeAtHand, SizesAreSizes
<1>3. /\ io_size \in Nat /\ prev \in Nat /\ at \in Nat /\ at + io_size <= BufferSize
      /\ BufferSize \in Nat
      /\ taken \in Nat /\ taken - io_size = Done + prev
      /\ Len(got) \in Nat /\ Len(sent) \in Nat
      /\ iocp_buf \in [1..BufferSize -> Int] /\ packet_buf \in [1..BufferSize -> Int]
      /\ \A i \in 1..io_size : iocp_buf[at + i] = Done + prev + i
      /\ \A i \in 1..prev : packet_buf[i] = Done + i
  BY InHand
<1>4. Done' = Done
  BY <1>1 DEF Done, EndOf, First, Size
<1>6. BufferInv'
  <2>1. taken' - io_size' = Done' + prev'
    BY <1>1, <1>2, <1>3, <1>4
  <2>2. ASSUME NEW i \in 1..prev' PROVE packet_buf'[i] = Done' + i
    <3>1. i \in 1..BufferSize
      BY <1>1, <1>2, <1>3
    <3>2. CASE i <= prev
      BY <1>1, <1>3, <1>4, <2>2, <3>1, <3>2
    <3>3. CASE i > prev
      <4>1. i - prev \in 1..io_size /\ at + (i - prev) = at + i - prev
        BY <1>1, <1>3, <2>2, <3>3
      <4>2. iocp_buf[at + (i - prev)] = Done + prev + (i - prev)
        BY <1>3, <4>1
      <4>3. at + i - prev \in 1..BufferSize
        BY <1>3, <4>1
      <4>4. ByteAt(iocp_buf, at + i - prev) = Done + i
        BY <1>2, <1>3, <4>1, <4>2, <4>3 DEF ByteAt
      <4>5. i \in (prev + 1)..(prev + io_size)
        BY <1>3, <4>1
      <4>6. QED
        BY <1>1, <1>4, <3>1, <4>4, <4>5
    <3>4. QED
      BY <1>3, <3>2, <3>3
  <2>3. 1..io_size' = {}
    BY <1>1
  <2>4. QED
    BY <2>1, <2>2, <2>3 DEF BufferInv
<1>7. GotInv' /\ SizeInv' /\ PcInv'
  BY <1>1, <1>2, <1>3 DEF Follows, GotInv, SizeInv, PcInv, CutsAt
<1>8. QED
  BY <1>6, <1>7 DEF Follows

-----------------------------------------------------------------------------
LEMMA StressStep ==
    ASSUME Typed, Follows, [Next]_vars, ~torn'
    PROVE  Follows' /\ [Pipe!Send \/ Pipe!Deliver]_(Pipe!pipeVars)
<1>1. CASE Send
  <2>1. Pipe!Send
    BY <1>1 DEF Send, StreamSend, Packet, clientVars, Pipe!Send, Pipe!Packet
  <2>2. QED
    BY <1>1, <2>1, StressSend
<1>2. CASE Receive
  <2>1. torn' = torn
    BY <1>2 DEF Receive, Typed, TypeOK
  <2>2. QED
    BY <1>2, <2>1, StressReceive DEF Receive, Pipe!pipeVars
<1>3. CASE End \/ Again
  <2>1. /\ UNCHANGED <<streamVars, iocp_buf, packet_buf, curr, prev, io_size, at, got, torn>>
        /\ pc' \in {"receiving", "ended"} /\ io_size = 0
    BY <1>3 DEF End, Again, Follows, PcInv
  <2>2. QED
    BY <2>1, StressIdle DEF Pipe!pipeVars, streamVars
<1>4. CASE Handle
  <2>1. PICK size \in ProceedSizes : Finish(size) \/ Keep(size)
    BY <1>4 DEF Handle
  <2>2. ~torn /\ UNCHANGED <<sent, written, torn>>
    BY <1>4 DEF Handle, streamVars
  <2>3. CASE Finish(size)
    <3>1. Follows' /\ Len(got) < Len(sent) /\ got' = Append(got, sent[Len(got) + 1])
      BY <1>4, <2>3, StressFinish
    <3>2. Pipe!Deliver
      BY <2>2, <3>1 DEF Pipe!Deliver
    <3>3. QED
      BY <3>1, <3>2
  <2>4. CASE Keep(size)
    BY <1>4, <2>2, <2>4, StressKeep DEF Keep, Pipe!pipeVars
  <2>5. QED
    BY <2>1, <2>3, <2>4
<1>5. CASE UNCHANGED vars
  BY <1>5 DEF vars, streamVars, clientVars, Follows, First, Size, EndOf,
     GotInv, BufferInv, SizeInv, PcInv, Done, CutsAt, Pipe!pipeVars
<1>6. QED
  BY <1>1, <1>2, <1>3, <1>4, <1>5 DEF Next

(* Once torn it stays so, and the pipe may do as it likes. *)
LEMMA StressTorn ==
    ASSUME Typed, [Next]_vars, torn'
    PROVE  [Pipe!Next]_(Pipe!pipeVars)
<1>1. CASE Send
  <2>1. Pipe!Send
    BY <1>1 DEF Send, StreamSend, Packet, clientVars, Pipe!Send, Pipe!Packet
  <2>2. QED
    BY <2>1 DEF Pipe!Next
<1>2. CASE Receive \/ End \/ Handle \/ Again
  <2>1. torn' \in BOOLEAN
    BY <1>2, StressTyped DEF Typed, TypeOK
  <2>2. torn' = TRUE /\ UNCHANGED <<sent, written>>
    BY <1>2, <2>1 DEF Receive, End, Handle, Again, streamVars
  <2>3. QED
    BY <2>2 DEF Pipe!Next, Pipe!Torn
<1>3. CASE UNCHANGED vars
  BY <1>3 DEF vars, streamVars, clientVars, Pipe!pipeVars
<1>4. QED
  BY <1>1, <1>2, <1>3 DEF Next

LEMMA StressInductive ==
    ASSUME IInv, [Next]_vars
    PROVE  IInv' /\ [Pipe!Next]_(Pipe!pipeVars)
<1>1. Typed /\ Typed'
  BY StressTyped DEF IInv
<1>2. CASE torn'
  BY <1>1, <1>2, StressTorn DEF IInv
<1>3. CASE ~torn'
  <2>1. ~torn
    BY <1>3 DEF Next, Send, Receive, End, Handle, Again, clientVars, vars
  <2>2. Follows' /\ [Pipe!Send \/ Pipe!Deliver]_(Pipe!pipeVars)
    BY <1>1, <1>3, <2>1, StressStep DEF IInv
  <2>3. QED
    BY <1>1, <2>2 DEF IInv, Pipe!Next
<1>4. QED
  BY <1>2, <1>3

LEMMA StressInvariant == Spec => []IInv
<1>1. IInv /\ [Next]_vars => IInv'
  BY StressInductive
<1>2. QED
  BY <1>1, StressInit, PTL DEF Spec

(* The handler never leaves the bytes it received, and what waits of a     *)
(* packet is never the whole of it: for packets of any sizes, in any       *)
(* number, and any cuts.                                                   *)
THEOREM StressTypeCorrect == Spec => []TypeOK
<1>1. IInv => TypeOK
  BY DEF IInv, Typed
<1>2. QED
  BY <1>1, StressInvariant, PTL

(* Worker_Thread's reassembly implements PacketPipe: until a receive ends  *)
(* before the Size of a packet, ProcessPacket is called for the packets    *)
(* that were sent, whole and in order.                                     *)
THEOREM StressDelivers == Spec => DeliversInOrder
<1>1. Init => Pipe!Init
  BY DEF Init, StreamInit, Pipe!Init
<1>2. IInv /\ [Next]_vars => [Pipe!Next]_(Pipe!pipeVars)
  BY StressInductive
<1>3. QED
  BY <1>1, <1>2, StressInvariant, PTL DEF Spec, DeliversInOrder, Pipe!Spec

=============================================================================
