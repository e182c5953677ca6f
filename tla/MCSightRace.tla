----------------------------- MODULE MCSightRace -----------------------------
(* SightRace in a world of two by two sectors. *)
EXTENDS SightRace, TLC

Sym == Permutations(Players) \cup Permutations(Workers)
=============================================================================
