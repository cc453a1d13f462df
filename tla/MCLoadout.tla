------------------------------- MODULE MCLoadout -------------------------------
(* A class with two slots and one without a team, two base items and two items,
   the second a sealed spray: every way a slot can change hands.  The game server
   accepts two items, so that a third one, made later, is one too many. *)
EXTENDS Loadout

CONSTANTS noTeam, team, d1, d2

MCClasses == {noTeam, team}
MCSlots == 1..2
MCDefaults == {d1, d2}
MCItems == 1..2
MCSealed == {2}
Symmetry == Permutations(MCDefaults)
===============================================================================
