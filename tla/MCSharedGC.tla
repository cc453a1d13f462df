------------------------------ MODULE MCSharedGC ------------------------------
(* Two posting threads (main thread and one RCON connection), three events in
   total: a push can find the queue empty, non-empty, being handled, and the
   worker in every one of its states.  Two host events per handled event. *)
EXTENDS SharedGC

CONSTANTS mainThread, rconThread

MCPosters == {mainThread, rconThread}
===============================================================================
