---------------------------- MODULE MCWorldSight ----------------------------
(* WorldSight in a world of two by two sectors, where every corner of the  *)
(* grid is near, with an NPC in the far corner or on the way to it.        *)
EXTENDS WorldSight, TLC

FarPlaces == {<<8, 8>>, <<1, 6>>}
NearPlace == {<<8, 5>>}
Sym == Permutations(Peers) \cup Permutations(Fighters)
=============================================================================
