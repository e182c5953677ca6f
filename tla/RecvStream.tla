----------------------------- MODULE RecvStream -----------------------------
(***************************************************************************)
(* How a session of the server cuts packets out of what it receives        *)
(* (Session::ProceedReceived, RecvStream, MoveStream).  Bytes that are no  *)
(* whole packet yet stay at the front of recvCBuffer, the next receive     *)
(* goes behind them - and recvBuffer.buf, where that receive goes, is also *)
(* where the next handler begins to read.  The game client's               *)
(* Network::OnReceive is the same.                                         *)
(* A session is a place of the pool: players have it one after the other,  *)
(* and its buffer and recvBytes go from one to the next.                   *)
(***************************************************************************)
EXTENDS ByteStream

CONSTANTS
    HeaderSize,     \* sizeof(Packet)
    MaxPlayers      \* bound: the players that have the place one after the other

ASSUME RecvStreamAssumption ==
    /\ HeaderSize \in Nat /\ SizeAt <= HeaderSize /\ HeaderSize <= BufferSize
    /\ \A size \in Sizes : HeaderSize <= size
    /\ MaxPlayers \in Nat

VARIABLES
    recvCBuffer,    \* recvCBuffer
    begin,          \* recvBuffer.buf - recvCBuffer
    recvBytes,      \* recvBytes
    connected,      \* the socket is not closed
    pc,             \* "receiving", "handling", "free", "left", "astray", "overrun"
    got,            \* the packets of this player that were handled
    players,        \* how many players had the place
    torn            \* history: a receive ended within a packet, or recvBytes
                    \* counts bytes of a former player

sessionVars == <<recvCBuffer, begin, recvBytes, connected, pc, got, players, torn>>
vars == <<streamVars, sessionVars>>

Connected == pc \in {"receiving", "handling"}

(* The session as CreateSession leaves it, with its first receive posted.  *)
Init ==
    /\ StreamInit
    /\ recvCBuffer = [i \in 1..BufferSize |-> 0]
    /\ begin = 0 /\ recvBytes = 0
    /\ connected = TRUE
    /\ pc = "receiving"
    /\ got = <<>>
    /\ players = 1
    /\ torn = FALSE

Send == Connected /\ StreamSend /\ UNCHANGED sessionVars

(* The completion of the receive. *)
Receive ==
    /\ pc = "receiving"
    /\ \E n \in 1..(BufferSize - begin) :
         /\ taken + n <= written
         /\ torn' = (torn \/ ~CutsAt(taken + n, BufferSize))
         /\ recvCBuffer' = Received(recvCBuffer, begin, n)
         /\ taken' = taken + n
         /\ recvBytes' = recvBytes + n
    /\ pc' = "handling"
    /\ UNCHANGED <<sent, written, begin, connected, got, players>>

(* The client closes the connection: the handler returns at once, and the  *)
(* place is never given to anybody again.                                  *)
Close ==
    /\ pc = "receiving" /\ taken = written
    /\ pc' = "left"
    /\ UNCHANGED <<streamVars, recvCBuffer, begin, recvBytes, connected, got, players, torn>>

(* The receive fails on a broken connection: the session is disconnected.  *)
Fail ==
    /\ pc = "receiving"
    /\ connected' = FALSE
    /\ pc' = "free"
    /\ UNCHANGED <<streamVars, recvCBuffer, begin, recvBytes, got, players, torn>>

(* The place goes to the next player, and its first receive is posted.     *)
(* Neither Cleanup nor the sign-up touches the buffer and recvBytes; what  *)
(* lies there is not of the new stream.                                    *)
SignUp ==
    /\ pc = "free" /\ players < MaxPlayers
    /\ players' = players + 1
    /\ sent' = <<>> /\ written' = 0 /\ taken' = 0 /\ got' = <<>>
    /\ recvCBuffer' = [i \in 1..BufferSize |-> IF recvCBuffer[i] = 0 THEN 0 ELSE -1]
    /\ begin' = 0
    /\ connected' = TRUE
    /\ pc' = "receiving"
    /\ torn' = (recvBytes # 0)
    /\ UNCHANGED recvBytes

(* The bytes from recvBuffer.buf on. *)
Front(i) == ByteAt(recvCBuffer, begin + i)
PacketSizes == SizeRead(Front(SizeAt))

(* A bug to be caught: the bytes behind the packet stay where they are.    *)
MoveNothing(size) == recvCBuffer

(* MoveStream(cbuffer, size, BUFFSZ). *)
MoveStream(size) ==
    [i \in 1..BufferSize |->
        IF i <= begin THEN recvCBuffer[i]
        ELSE IF i <= begin + BufferSize - size THEN ByteAt(recvCBuffer, i + size) ELSE 0]

(* A bug to be caught: one byte less is counted off than was moved.       *)
TakeMiscounted(size) ==
    LET packet == [i \in 1..size |-> Front(i)] IN
    /\ HeaderSize <= recvBytes /\ size <= recvBytes
    /\ got' = Append(got, packet)
    /\ recvBytes' = recvBytes - size + 1
    /\ recvCBuffer' = IF recvBytes > size THEN MoveStream(size) ELSE recvCBuffer
    /\ pc' = IF \A k \in 1..Len(sent) : packet # sent[k] THEN "astray"
             ELSE IF recvBytes > size /\ begin > 0 THEN "overrun" ELSE pc
    /\ connected' \in {connected, FALSE}

(* A bug to be caught: the header is counted off twice.                    *)
TakeTwice(size) ==
    LET packet == [i \in 1..size |-> Front(i)] IN
    /\ HeaderSize <= recvBytes /\ size <= recvBytes
    /\ got' = Append(got, packet)
    /\ recvBytes' = recvBytes - size - HeaderSize
    /\ recvCBuffer' = IF recvBytes > size THEN MoveStream(size) ELSE recvCBuffer
    /\ pc' = IF \A k \in 1..Len(sent) : packet # sent[k] THEN "astray"
             ELSE IF recvBytes > size /\ begin > 0 THEN "overrun" ELSE pc
    /\ connected' \in {connected, FALSE}

(* A whole packet is handled and taken off the front.  An accepted         *)
(* session that signs in again is disconnected in between.  What is no     *)
(* packet does anything; and from another place than the front MoveStream  *)
(* goes beyond the end of the buffer.                                      *)
Take(size) ==
    LET packet == [i \in 1..size |-> Front(i)] IN
    /\ HeaderSize <= recvBytes /\ size <= recvBytes
    /\ got' = Append(got, packet)
    /\ recvBytes' = recvBytes - size
    /\ recvCBuffer' = IF recvBytes > size THEN MoveStream(size) ELSE recvCBuffer
    /\ pc' = IF \A k \in 1..Len(sent) : packet # sent[k] THEN "astray"
             ELSE IF recvBytes > size /\ begin > 0 THEN "overrun" ELSE pc
    /\ connected' \in {connected, FALSE}

(* A packet that ends the connection. *)
TakeLast(size) ==
    /\ HeaderSize <= recvBytes /\ size <= recvBytes
    /\ got' = Append(got, [i \in 1..size |-> Front(i)])
    /\ connected' = FALSE
    /\ pc' = "free"

(* CS_SIGNOUT of a player who signed in: Disconnect and return, so that    *)
(* the packet stays counted.                                               *)
TakeSignOut(size) ==
    /\ connected /\ got # <<>>
    /\ TakeLast(size)
    /\ UNCHANGED <<recvCBuffer, recvBytes>>

(* A type that is none: ClearRecvBuffer, Disconnect and return. *)
TakeUnknown(size) ==
    /\ TakeLast(size)
    /\ recvBytes' = 0
    /\ recvCBuffer' = [i \in 1..BufferSize |-> 0]

Handle ==
    /\ pc = "handling"
    /\ \E size \in PacketSizes : Take(size) \/ TakeSignOut(size) \/ TakeUnknown(size)
    /\ UNCHANGED <<streamVars, begin, players, torn>>

(* A bug to be caught: without a part of a packet nothing is received.     *)
AgainForParts ==
    /\ pc = "handling"
    /\ recvBytes < HeaderSize \/ \E size \in PacketSizes : recvBytes < size
    /\ recvBytes > 0
    /\ begin' = recvBytes
    /\ pc' = IF connected THEN "receiving" ELSE "free"
    /\ UNCHANGED <<streamVars, recvCBuffer, recvBytes, connected, got, players, torn>>

(* No whole packet is left: RecvStream(recvBytes), which fails on a closed *)
(* socket.                                                                 *)
Again ==
    /\ pc = "handling"
    /\ recvBytes < HeaderSize \/ \E size \in PacketSizes : recvBytes < size
    /\ begin' = recvBytes
    /\ pc' = IF connected THEN "receiving" ELSE "free"
    /\ UNCHANGED <<streamVars, recvCBuffer, recvBytes, connected, got, players, torn>>

Next == Send \/ Receive \/ Close \/ Fail \/ SignUp \/ Handle \/ Again

Spec == Init /\ [][Next]_vars

(* The workers run, and the network delivers. *)
FairSpec == Spec /\ WF_vars(Receive \/ Handle \/ Again)

-----------------------------------------------------------------------------
(* Properties. *)

(* Every variable has its type, and the bytes fit the buffer, unless bytes *)
(* of former players are counted with them; the next receive always does.  *)
TypeOK ==
    /\ recvCBuffer \in [1..BufferSize -> Int]
    /\ begin \in 0..BufferSize /\ recvBytes \in Nat
    /\ ~torn => recvBytes <= BufferSize
    /\ connected \in BOOLEAN /\ torn \in BOOLEAN
    /\ players \in Nat
    /\ pc \in {"receiving", "handling", "free", "left", "astray", "overrun"}

(* Each player's packets are handled whole, once each and in order,        *)
(* however many a receive brings, until a receive ends within a packet or  *)
(* the place comes with bytes of its former player.                        *)
Pipe == INSTANCE PacketPipe

DeliversInOrder == Pipe!Spec

(* And all of them, unless the connection ends. *)
AllDelivered ==
    \A k \in 1..MaxPackets : Len(sent) >= k ~> (Len(got) >= k \/ torn \/ ~Connected)

(* No handler moves bytes beyond the end of recvCBuffer, onto recvBytes    *)
(* and the sector behind it, unless torn.                                  *)
MovesInside == pc = "overrun" => torn

(* "...만큼 모자라서 다시 수신합니다": what is short of a packet is received      *)
(* again, so that the packet is complete the next time.                    *)
CompletesPackets == pc # "astray"

(* "원래 클라이언트가 있던 세션 청소": the session a client was in is cleaned     *)
(* up, so that no bytes but the receive's own are counted for the next.    *)
CleanupClears == pc = "receiving" => recvBytes = begin

=============================================================================
