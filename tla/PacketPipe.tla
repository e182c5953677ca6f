----------------------------- MODULE PacketPipe -----------------------------
(***************************************************************************)
(* What a connection promises to whoever handles packets: they are handed  *)
(* over whole, once each, and in the order in which they were sent - until *)
(* the connection is torn, from where on it promises nothing.  The next    *)
(* connection begins afresh, or is torn from the start.                    *)
(* A packet is the numbers its bytes have in the stream.                   *)
(***************************************************************************)
EXTENDS Integers, Sequences

CONSTANT Sizes      \* the sizes of packets

VARIABLES
    sent,           \* the packets the sender wrote on this connection
    written,        \* the number of their bytes
    got,            \* the packets that were handled
    torn            \* nothing is promised any more

pipeVars == <<sent, written, got, torn>>

Packet(first, size) == [i \in 1..size |-> first + i]

Init ==
    /\ sent = <<>>
    /\ written = 0
    /\ got = <<>>
    /\ torn = FALSE

Send ==
    \E size \in Sizes :
        /\ sent' = Append(sent, Packet(written, size))
        /\ written' = written + size
        /\ UNCHANGED <<got, torn>>

Deliver ==
    /\ ~torn /\ Len(got) < Len(sent)
    /\ got' = Append(got, sent[Len(got) + 1])
    /\ UNCHANGED <<sent, written, torn>>

(* Packets may be handed over or not. *)
Torn ==
    /\ torn' = TRUE
    /\ UNCHANGED <<sent, written>>

Renew ==
    /\ sent' = <<>> /\ written' = 0 /\ got' = <<>>
    /\ torn' \in BOOLEAN

Next == Send \/ Deliver \/ Torn \/ Renew

Spec == Init /\ [][Next]_pipeVars

FairSpec == Spec /\ WF_pipeVars(Deliver)

=============================================================================
