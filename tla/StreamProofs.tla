---------------------------- MODULE StreamProofs ----------------------------
(***************************************************************************)
(* What holds of the stream itself: packets lie in it one behind the       *)
(* other, without gaps.  Both receivers' proofs rest on it.                *)
(***************************************************************************)
EXTENDS ByteStream, TLAPS

First(k) == sent[k][1] - 1
Size(k) == Len(sent[k])

(* Where the first d packets end. *)
EndOf(d) == IF d = 0 THEN 0 ELSE First(d) + Size(d)

Contiguous ==
    /\ \A k \in 1..Len(sent) :
         /\ First(k) \in Nat /\ Size(k) \in Sizes
         /\ sent[k] = Packet(First(k), Size(k))
         /\ First(k) = EndOf(k - 1)
    /\ EndOf(Len(sent)) = written
    /\ \A j, k \in 1..Len(sent) : j < k => First(j) + Size(j) <= First(k)
    /\ \A k \in 1..Len(sent) : First(k) + Size(k) <= written

StreamInv ==
    /\ sent \in Seq(Seq(Nat))
    /\ written \in Nat /\ taken \in Nat /\ taken <= written
    /\ Contiguous

USE ByteStreamAssumption

LEMMA SizesAreSizes == \A size \in Sizes : size \in Nat /\ SizeAt <= size /\ size <= BufferSize
OBVIOUS

LEMMA PacketFits ==
    ASSUME NEW first \in Nat, NEW size \in Sizes
    PROVE  /\ Packet(first, size) \in Seq(Nat)
           /\ Len(Packet(first, size)) = size
           /\ \A i \in 1..size : Packet(first, size)[i] = first + i
<1>1. size \in Nat
  BY SizesAreSizes
<1>2. Packet(first, size) \in [1..size -> Nat]
  BY <1>1 DEF Packet
<1>3. QED
  BY <1>1, <1>2 DEF Packet

LEMMA StreamInitInv == StreamInit => StreamInv
<1> SUFFICES ASSUME StreamInit PROVE StreamInv
  OBVIOUS
<1>1. sent = <<>> /\ written = 0 /\ taken = 0
  BY DEF StreamInit
<1>2. Len(sent) = 0 /\ 1..Len(sent) = {}
  BY <1>1
<1>3. Contiguous
  BY <1>1, <1>2 DEF Contiguous, EndOf
<1>4. QED
  BY <1>1, <1>3 DEF StreamInv

LEMMA StreamSame ==
    ASSUME StreamInv, UNCHANGED <<sent, written>>, taken' \in Nat, taken' <= written
    PROVE  StreamInv'
BY DEF StreamInv, Contiguous, First, Size, EndOf

(* A packet more. *)
LEMMA StreamSendInv ==
    ASSUME StreamInv, StreamSend
    PROVE  /\ StreamInv'
           /\ Len(sent') = Len(sent) + 1
           /\ \A k \in 1..Len(sent) : sent'[k] = sent[k]
           /\ sent'[Len(sent) + 1][1] = written + 1
           /\ \A k \in 0..Len(sent) : EndOf(k)' = EndOf(k)
<1>1. PICK size \in Sizes : /\ sent' = Append(sent, Packet(written, size))
                            /\ written' = written + size
  BY DEF StreamSend
<1>0. PICK n \in Nat : n = Len(sent)
  BY DEF StreamInv
<1> DEFINE p == Packet(written, size)
<1>2. size \in Nat /\ size >= 1 /\ written \in Nat /\ taken' = taken /\ taken <= written
  BY SizesAreSizes DEF StreamInv, StreamSend
<1>3. p \in Seq(Nat) /\ Len(p) = size /\ p[1] = written + 1
  BY <1>2, PacketFits
<1> HIDE DEF p
<1>4. sent' = Append(sent, p)
  BY <1>1 DEF p
<1>5. /\ sent \in Seq(Seq(Nat)) /\ n \in Nat
      /\ sent' \in Seq(Seq(Nat)) /\ Len(sent') = n + 1 /\ sent'[n + 1] = p
      /\ \A k \in 1..n : sent'[k] = sent[k]
  BY <1>0, <1>3, <1>4 DEF StreamInv
<1>6. /\ First(n + 1)' = written /\ Size(n + 1)' = size
      /\ \A k \in 1..n : First(k)' = First(k) /\ Size(k)' = Size(k)
  BY <1>2, <1>3, <1>5 DEF First, Size
<1>7. \A k \in 0..n : EndOf(k)' = EndOf(k)
  BY <1>5, <1>6 DEF EndOf
<1>8. EndOf(n) = written
  BY <1>0 DEF StreamInv, Contiguous
<1>9. Contiguous'
  <2>1. \A k \in 1..(n + 1) : /\ First(k)' \in Nat /\ Size(k)' \in Sizes
                              /\ sent'[k] = Packet(First(k)', Size(k)')
                              /\ First(k)' = EndOf(k - 1)'
    <3>1. ASSUME NEW k \in 1..n
          PROVE  /\ First(k)' \in Nat /\ Size(k)' \in Sizes
                 /\ sent'[k] = Packet(First(k)', Size(k)')
                 /\ First(k)' = EndOf(k - 1)'
      <4>1. EndOf(k - 1)' = EndOf(k - 1)
        BY <1>5, <1>7
      <4>2. QED
        BY <1>0, <1>5, <1>6, <4>1 DEF StreamInv, Contiguous
    <3>2. /\ First(n + 1)' \in Nat /\ Size(n + 1)' \in Sizes
          /\ sent'[n + 1] = Packet(First(n + 1)', Size(n + 1)')
      BY <1>2, <1>5, <1>6 DEF p
    <3>3. First(n + 1)' = EndOf(n)'
      BY <1>5, <1>6, <1>7, <1>8
    <3>4. \A k \in 1..(n + 1) : k \in 1..n \/ k = n + 1
      BY <1>5
    <3>5. (n + 1) - 1 = n
      BY <1>5
    <3>6. QED
      BY <3>1, <3>2, <3>3, <3>4, <3>5
  <2>2. EndOf(n + 1)' = written'
    BY <1>1, <1>2, <1>5, <1>6 DEF EndOf
  <2>3. \A k \in 1..n : First(k) \in Nat /\ Size(k) \in Nat /\ First(k) + Size(k) <= written
    BY <1>0, SizesAreSizes DEF StreamInv, Contiguous
  <2>4. \A j, k \in 1..(n + 1) : j < k => First(j)' + Size(j)' <= First(k)'
    <3>1. ASSUME NEW j \in 1..(n + 1), NEW k \in 1..(n + 1), j < k
          PROVE  First(j)' + Size(j)' <= First(k)'
      <4>1. j \in 1..n
        BY <1>5, <3>1
      <4>2. CASE k \in 1..n
        BY <1>0, <1>6, <3>1, <4>1, <4>2 DEF StreamInv, Contiguous
      <4>3. CASE k = n + 1
        BY <1>6, <2>3, <4>1, <4>3
      <4>4. QED
        BY <1>5, <4>2, <4>3
    <3>2. QED
      BY <3>1
  <2>5. \A k \in 1..(n + 1) : First(k)' + Size(k)' <= written'
    <3>1. ASSUME NEW k \in 1..n PROVE First(k)' + Size(k)' <= written'
      BY <1>1, <1>2, <1>6, <2>3
    <3>2. First(n + 1)' + Size(n + 1)' <= written'
      BY <1>1, <1>2, <1>6
    <3>3. QED
      BY <1>5, <3>1, <3>2
  <2>6. QED
    BY <1>5, <2>1, <2>2, <2>4, <2>5 DEF Contiguous
<1>10. QED
  BY <1>0, <1>1, <1>2, <1>3, <1>5, <1>7, <1>9 DEF StreamInv

LEMMA EndIsNat ==
    ASSUME StreamInv, NEW d \in 0..Len(sent)
    PROVE  EndOf(d) \in Nat
<1>1. CASE d = 0
  BY <1>1 DEF EndOf
<1>2. CASE d \in 1..Len(sent)
  <2>1. First(d) \in Nat /\ Size(d) \in Nat
    BY <1>2, SizesAreSizes DEF StreamInv, Contiguous
  <2>2. QED
    BY <1>2, <2>1 DEF EndOf
<1>3. QED
  BY <1>1, <1>2 DEF StreamInv

(* The bytes of the packet behind the first d. *)
LEMMA NextPacket ==
    ASSUME StreamInv, NEW d \in 0..Len(sent), EndOf(d) < written
    PROVE  /\ d + 1 \in 1..Len(sent)
           /\ sent[d + 1][1] = EndOf(d) + 1
           /\ EndOf(d) \in Nat
           /\ Size(d + 1) \in Sizes
           /\ sent[d + 1] = Packet(EndOf(d), Size(d + 1))
           /\ EndOf(d + 1) = EndOf(d) + Size(d + 1)
           /\ EndOf(d + 1) <= written
<1>1. Len(sent) \in Nat /\ d \in Nat
  BY DEF StreamInv
<1>2. d # Len(sent)
  BY DEF StreamInv, Contiguous
<1>3. d + 1 \in 1..Len(sent) /\ (d + 1) - 1 = d
  BY <1>1, <1>2
<1>4. /\ First(d + 1) \in Nat /\ Size(d + 1) \in Sizes
      /\ sent[d + 1] = Packet(First(d + 1), Size(d + 1))
      /\ First(d + 1) = EndOf((d + 1) - 1)
      /\ First(d + 1) + Size(d + 1) <= written
  BY <1>3 DEF StreamInv, Contiguous
<1>5. First(d + 1) = EndOf(d)
  BY <1>3, <1>4
<1>6. sent[d + 1][1] = First(d + 1) + 1
  <2>1. 1 \in 1..Size(d + 1)
    <3>1. Size(d + 1) \in Nat /\ SizeAt <= Size(d + 1)
      BY <1>4, SizesAreSizes
    <3>2. QED
      BY <3>1
  <2>2. Packet(First(d + 1), Size(d + 1))[1] = First(d + 1) + 1
    BY <1>4, <2>1, PacketFits
  <2>3. QED
    BY <1>4, <2>2
<1>7. EndOf(d + 1) = First(d + 1) + Size(d + 1)
  BY <1>1 DEF EndOf
<1>8. QED
  BY <1>3, <1>4, <1>5, <1>6, <1>7

(* Its Size byte is read as its size. *)
LEMMA SizeIsRead ==
    ASSUME StreamInv, NEW d \in 0..Len(sent), EndOf(d) < written,
           NEW size \in SizeRead(EndOf(d) + SizeAt)
    PROVE  size = Size(d + 1)
<1>1. /\ d + 1 \in 1..Len(sent) /\ EndOf(d) \in Nat /\ Size(d + 1) \in Sizes
      /\ sent[d + 1] = Packet(EndOf(d), Size(d + 1))
  BY NextPacket
<1>2. sent[d + 1][SizeAt] = EndOf(d) + SizeAt
  <2>1. SizeAt \in 1..Size(d + 1)
    <3>1. Size(d + 1) \in Nat /\ SizeAt <= Size(d + 1)
      BY <1>1, SizesAreSizes
    <3>2. QED
      BY <3>1
  <2>2. Packet(EndOf(d), Size(d + 1))[SizeAt] = EndOf(d) + SizeAt
    BY <1>1, <2>1, PacketFits
  <2>3. QED
    BY <1>1, <2>2
<1>3. QED
  BY <1>1, <1>2 DEF SizeRead, Size

(* A receive that ends behind the first d packets took enough of the next. *)
LEMMA StartOfNext ==
    ASSUME StreamInv, NEW d \in 0..Len(sent), NEW least \in Nat,
           NEW n \in Nat, CutsAt(n, least), EndOf(d) < n, n <= written
    PROVE  n >= EndOf(d) + least \/ n >= EndOf(d + 1)
<1>0. EndOf(d) < written
  BY EndIsNat DEF StreamInv
<1>1. /\ d + 1 \in 1..Len(sent)
      /\ sent[d + 1][1] = EndOf(d) + 1 /\ EndOf(d) \in Nat
      /\ Size(d + 1) \in Sizes
      /\ EndOf(d + 1) = EndOf(d) + Size(d + 1)
  BY <1>0, NextPacket
<1>2. LET first == n - sent[d + 1][1] + 1
      IN  first <= 0 \/ first >= least \/ first >= Len(sent[d + 1])
  BY <1>1 DEF CutsAt
<1>3. n - sent[d + 1][1] + 1 = n - EndOf(d)
  BY <1>1
<1>4. Size(d + 1) \in Nat
  BY <1>1, SizesAreSizes
<1>5. QED
  BY <1>1, <1>2, <1>3, <1>4 DEF Size
=============================================================================
