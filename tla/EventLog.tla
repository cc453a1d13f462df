------------------------------- MODULE EventLog -------------------------------
(***************************************************************************)
(* What the hook layer relies on when it hands an event to a game          *)
(* coordinator object: an event that was accepted is handled exactly once, *)
(* in the order in which the events were accepted, and, as long as the     *)
(* worker is scheduled, every accepted event is handled in the end, the    *)
(* ones still queued when the object is being destroyed included.          *)
(***************************************************************************)
EXTENDS Naturals, Sequences

CONSTANT Events

VARIABLES accepted,  \* the events in the order they were accepted
          handled    \* the events in the order they were handled

vars == <<accepted, handled>>

Init ==
    /\ accepted = <<>>
    /\ handled = <<>>

Accept ==
    /\ \E e \in Events : accepted' = Append(accepted, e)
    /\ UNCHANGED handled

Handle ==
    /\ Len(handled) < Len(accepted)
    /\ handled' = Append(handled, accepted[Len(handled) + 1])
    /\ UNCHANGED accepted

Next == Accept \/ Handle

Spec == Init /\ [][Next]_vars /\ WF_vars(Handle)
===============================================================================
