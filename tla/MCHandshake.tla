------------------------------ MODULE MCHandshake ------------------------------
(* Small instances of Handshake.  Two tickets are enough for a reply that is
   late for the ticket it answers; the retry delays are scaled down. *)
EXTENDS Handshake, TLC

CONSTANTS s1, s2, t1, t2

OneServer == {s1}
TwoServers == {s1, s2}
TwoTickets == {t1, t2}
Symmetry == Permutations(TwoServers) \cup Permutations(TwoTickets)
===============================================================================
