------------------------------- MODULE MCMusicKit -------------------------------
(* Two players, whose user ids may collide, and two kits each, to change between. *)
EXTENDS MusicKit, TLC

CONSTANTS p1, p2, k1, k2

MCPlayers == {p1, p2}
MCKits == {k1, k2}
Symmetry == Permutations(MCPlayers) \cup Permutations(MCKits)
===============================================================================
