------------------------------ MODULE MCItemTools ------------------------------
(* Starting inventories that have something to do for every tool.  All but the last leave *)
(* room for new items; in the last a slot of a clone has two stickers.                    *)
EXTENDS ItemTools

MCStarts == {<<Plain("sticker"), Plain("tag"), Plain("other")>>,
             <<Plain("mega"), Plain("agent")>>,
             <<Plain("patch"), Plain("blank"), Plain("other")>>,
             <<Plain("crate"), Plain("key"), Weapon(0, none)>>,
             <<Plain("swapbundle"), Weapon(0, 1)>>,
             <<Plain("swaptool"), Weapon(0, 0), Weapon(0, 1)>>,
             <<Plain("souvenir"), Plain("other"), Plain("other")>>,
             <<Plain("tag"), Plain("other"), Plain("other"),
               [Clone("weapon") EXCEPT !.stickers[0] = <<1, 0>>]>>}
\* RCON gives what opens the crate, or kills to swap.
MCGifts == {Plain("key"), Weapon(0, 1)}
===============================================================================
