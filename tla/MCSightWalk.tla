----------------------------- MODULE MCSightWalk -----------------------------
(* SightWalk in a world of four by four sectors, with the proportions of   *)
(* Commons.hpp: the sight square is no wider than a sector.                *)
EXTENDS SightWalk
=============================================================================
