----------------------------- MODULE ByteStream -----------------------------
(***************************************************************************)
(* The sender's half of a connection.  A packet is sent whole; the         *)
(* receiver takes as many of the bytes as are there and as it has room     *)
(* for.  A byte is its number in the stream, 0 is a byte that was never    *)
(* received.                                                               *)
(***************************************************************************)
EXTENDS Integers, Sequences

CONSTANTS
    Sizes,          \* the sizes of packets
    SizeAt,         \* where in a packet its Size is; in front is the virtual table
    BufferSize,     \* BUFFSZ of the server, MAX_BUFF_SIZE of the stress test
    MaxPackets      \* bound: the packets that are sent

ASSUME ByteStreamAssumption ==
    /\ SizeAt \in Nat \ {0}
    /\ BufferSize \in Nat
    /\ Sizes \subseteq SizeAt..BufferSize
    /\ MaxPackets \in Nat

VARIABLES
    sent,           \* the packets the sender wrote
    written,        \* the number of their bytes
    taken           \* how many bytes the receives have taken

streamVars == <<sent, written, taken>>

Packet(first, size) == [i \in 1..size |-> first + i]

StreamInit ==
    /\ sent = <<>>
    /\ written = 0
    /\ taken = 0

(* SendPacket: WSASend of the Size bytes of one packet. *)
StreamSend ==
    /\ Len(sent) < MaxPackets
    /\ \E size \in Sizes :
         /\ sent' = Append(sent, Packet(written, size))
         /\ written' = written + size
    /\ UNCHANGED taken

(* The buffer after n bytes were received from its place `base` on. *)
Received(buffer, base, n) ==
    [i \in 1..BufferSize |->
        IF i \in (base + 1)..(base + n) THEN taken + i - base ELSE buffer[i]]

(* The byte at place i: what lies behind the buffer is not of the stream.  *)
ByteAt(buffer, i) == IF i \in 1..BufferSize THEN buffer[i] ELSE -1

(* What a byte means that is read as the Size of a packet: its size if     *)
(* that is what it is, 0 if it is 0, and anything otherwise.               *)
SizeRead(byte) ==
    {size \in 0..BufferSize :
        /\ byte = 0 => size = 0
        /\ \A k \in 1..Len(sent) : sent[k][SizeAt] = byte => size = Len(sent[k])}

(* A receive that ends with byte n of the stream takes no packet's first   *)
(* bytes without `least` of them.                                          *)
CutsAt(n, least) ==
    \A k \in 1..Len(sent) :
        LET first == n - sent[k][1] + 1 IN
        first <= 0 \/ first >= least \/ first >= Len(sent[k])

=============================================================================
