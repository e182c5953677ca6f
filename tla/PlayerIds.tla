------------------------------ MODULE PlayerIds ------------------------------
(***************************************************************************)
(* What the accept loop promises the rest of the server: players' ids are  *)
(* issued one after another and never a second time, whatever becomes of   *)
(* the players who hold them.  (myClients, orderClientIDs.)                *)
(***************************************************************************)
EXTENDS Integers

CONSTANT FirstId

VARIABLES nextId,   \* the id the next player gets
          live      \* the ids registered now

idVars == <<nextId, live>>

Init == nextId = FirstId /\ live = {}

Issue ==
    /\ nextId' = nextId + 1
    /\ live' = live \cup {nextId}

Revoke(id) ==
    /\ live' = live \ {id}
    /\ UNCHANGED nextId

Next == Issue \/ \E id \in live : Revoke(id)

Spec == Init /\ [][Next]_idVars

=============================================================================
