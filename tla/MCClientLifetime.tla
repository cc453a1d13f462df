--------------------------- MODULE MCClientLifetime ---------------------------
(* Two connection threads and two clients in a row: enough for a command that
   was begun on the first client to meet the destruction or the second one. *)
EXTENDS ClientLifetime

CONSTANTS c1, c2

MCConnections == {c1, c2}
===============================================================================
