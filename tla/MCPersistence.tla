----------------------------- MODULE MCPersistence -----------------------------
(* One event and one mission card.  The first file holds something to activate and
   something to count with, or a subscription too many. *)
EXTENDS Persistence

CONSTANTS e1, m1, c1, c2

MCLevelOf == [c \in Configs |-> MaxLevel]
MCFiles == {[defs |-> <<"pass">>, season |-> none],
            [defs |-> <<"ticket">>, season |-> none],
            [defs |-> <<"journal", "token">>, season |-> none],
            [defs |-> <<"weapon">>, season |-> NoCard],
            [defs |-> <<"medal1">>, season |-> none],
            [defs |-> <<"subscription", "subscription">>, season |-> none]}
Symmetry == Permutations(Configs)
MCMoves == {{1}, {1, MaxId}}
===============================================================================
