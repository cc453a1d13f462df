-------------------------------- MODULE MCStore --------------------------------
(* Orders of one kind of item, of the subscription, of both, and one that is refused. *)
EXTENDS Store

Line(def, quantity) == [def |-> def, quantity |-> quantity]
MCOrders == {<<Line("case", 2)>>, <<Line("case", 1), Line(Subscription, 1)>>,
             <<Line(Subscription, 1), Line(Subscription, 1)>>}
===============================================================================
