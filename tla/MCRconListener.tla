---------------------------- MODULE MCRconListener ----------------------------
(* Two connections, one of which may have ended long before the other begins. *)
EXTENDS RconListener

CONSTANTS c1, c2

MCRconConnections == {c1, c2}
===============================================================================
