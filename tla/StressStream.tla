---------------------------- MODULE StressStream ----------------------------
(***************************************************************************)
(* How the stress test puts together the packets of one client             *)
(* (Worker_Thread): each receive starts at the front of IOCP_buf, and what *)
(* is left of a packet waits in packet_buf.  A client has one receive      *)
(* outstanding, so that its completions are handled one after the other,   *)
(* by whichever worker; curr and prev are its curr_packet_size and         *)
(* prev_packet_data as well as the copies proceed_size and pr_size that    *)
(* the handler works on and stores at its end.                             *)
(***************************************************************************)
EXTENDS ByteStream

VARIABLES
    iocp_buf, packet_buf,   \* IOCP_buf, packet_buf
    curr, prev,             \* curr_packet_size, prev_packet_data
    io_size, at,            \* what the handler has still to do, and where it is
    pc,                     \* "receiving", "handling", "ended", "astray"
    got,                    \* the packets given to ProcessPacket
    torn                    \* history: a receive ended before the Size of a packet

clientVars == <<iocp_buf, packet_buf, curr, prev, io_size, at, pc, got, torn>>
vars == <<streamVars, clientVars>>

Init ==
    /\ StreamInit
    /\ iocp_buf = [i \in 1..BufferSize |-> 0]
    /\ packet_buf = [i \in 1..BufferSize |-> 0]
    /\ curr = 0 /\ prev = 0
    /\ io_size = 0 /\ at = 0
    /\ pc = "receiving"
    /\ got = <<>>
    /\ torn = FALSE

Send == pc # "ended" /\ StreamSend /\ UNCHANGED clientVars

(* The completion of the receive: some of the bytes that are there.        *)
Receive ==
    /\ pc = "receiving"
    /\ \E n \in 1..BufferSize :
         /\ taken + n <= written
         /\ torn' = (torn \/ ~CutsAt(taken + n, SizeAt))
         /\ iocp_buf' = Received(iocp_buf, 0, n)
         /\ taken' = taken + n
         /\ io_size' = n
    /\ at' = 0
    /\ pc' = "handling"
    /\ UNCHANGED <<sent, written, packet_buf, curr, prev, got>>

(* The server closes the connection: the receive completes with 0 bytes,   *)
(* and no other is posted.                                                 *)
End ==
    /\ pc = "receiving" /\ taken = written
    /\ pc' = "ended"
    /\ UNCHANGED <<streamVars, iocp_buf, packet_buf, curr, prev, io_size, at, got, torn>>

(* The size of the packet at hand: from the packet, if it begins here.     *)
ProceedSizes == IF curr = 0 THEN SizeRead(ByteAt(iocp_buf, at + SizeAt)) ELSE {curr}

(* A bug to be caught: what waited is still counted.                       *)
FinishKeepingPrev(size) ==
    LET packet == [i \in 1..size |->
                      IF i <= prev THEN packet_buf[i] ELSE ByteAt(iocp_buf, at + i - prev)]
    IN /\ size <= io_size + prev
       /\ got' = Append(got, packet)
       /\ io_size' = io_size - (size - prev)
       /\ at' = at + (size - prev)
       /\ curr' = 0 /\ prev' = prev
       /\ pc' = IF \E k \in 1..Len(sent) : packet = sent[k] THEN pc ELSE "astray"
       /\ UNCHANGED packet_buf

(* The packet is put together from its parts and handled.  Handling what   *)
(* is no packet does anything, up to the endless loop of an unknown type.  *)
Finish(size) ==
    LET packet == [i \in 1..size |->
                      IF i <= prev THEN packet_buf[i] ELSE ByteAt(iocp_buf, at + i - prev)]
    IN /\ size <= io_size + prev
       /\ got' = Append(got, packet)
       /\ io_size' = io_size - (size - prev)
       /\ at' = at + (size - prev)
       /\ curr' = 0 /\ prev' = 0
       /\ pc' = IF \E k \in 1..Len(sent) : packet = sent[k] THEN pc ELSE "astray"
       /\ UNCHANGED packet_buf

(* A bug to be caught: the part that waited is overwritten by the next.    *)
KeepOver(size) ==
    /\ io_size + prev < size
    /\ packet_buf' = [i \in 1..BufferSize |->
                         IF i <= io_size THEN ByteAt(iocp_buf, at + i) ELSE packet_buf[i]]
    /\ prev' = prev + io_size
    /\ io_size' = 0
    /\ curr' = size
    /\ UNCHANGED <<at, pc, got>>

(* The rest of the bytes is part of a packet and waits for more.           *)
Keep(size) ==
    /\ io_size + prev < size
    /\ packet_buf' = [i \in 1..BufferSize |->
                         IF i \in (prev + 1)..(prev + io_size)
                         THEN ByteAt(iocp_buf, at + i - prev) ELSE packet_buf[i]]
    /\ prev' = prev + io_size
    /\ io_size' = 0
    /\ curr' = size
    /\ UNCHANGED <<at, pc, got>>

(* One round of the loop. *)
Handle ==
    /\ pc = "handling" /\ io_size > 0
    /\ \E size \in ProceedSizes : Finish(size) \/ Keep(size)
    /\ UNCHANGED <<streamVars, iocp_buf, torn>>

(* A bug to be caught: after a part of a packet nothing more is received.  *)
AgainWithout ==
    /\ pc = "handling" /\ io_size = 0
    /\ pc' = IF prev > 0 THEN "ended" ELSE "receiving"
    /\ UNCHANGED <<streamVars, iocp_buf, packet_buf, curr, prev, io_size, at, got, torn>>

(* The loop is done, and the next receive is posted. *)
Again ==
    /\ pc = "handling" /\ io_size = 0
    /\ pc' = "receiving"
    /\ UNCHANGED <<streamVars, iocp_buf, packet_buf, curr, prev, io_size, at, got, torn>>

Next == Send \/ Receive \/ End \/ Handle \/ Again

Spec == Init /\ [][Next]_vars

(* The worker threads run, and the network delivers. *)
FairSpec == Spec /\ WF_vars(Receive \/ Handle \/ Again)

-----------------------------------------------------------------------------
(* Properties. *)

(* Every variable has its type: what waits of a packet is less than it,    *)
(* and the handler stays within what was received.                         *)
TypeOK ==
    /\ iocp_buf \in [1..BufferSize -> Int]
    /\ packet_buf \in [1..BufferSize -> Int]
    /\ curr \in 0..BufferSize /\ prev \in 0..BufferSize
    /\ curr = 0 => prev = 0
    /\ curr # 0 => prev < curr
    /\ io_size \in 0..BufferSize /\ at \in 0..BufferSize
    /\ at + io_size <= BufferSize
    /\ pc \in {"receiving", "handling", "ended", "astray"}
    /\ torn \in BOOLEAN

(* Packets are handled whole, once each and in order, however the bytes    *)
(* are cut, until a receive ends before the Size of a packet; and if none  *)
(* does, all of them in the end.                                           *)
Pipe == INSTANCE PacketPipe

DeliversInOrder == Pipe!Spec
DeliversAll == Pipe!FairSpec

(* "지금 패킷 완성 가능": the branch that puts a packet together is taken     *)
(* when it can be completed, so what is handled is what was sent.          *)
CompletesPackets == pc # "astray"

=============================================================================
