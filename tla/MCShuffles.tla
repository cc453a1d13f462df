------------------------------ MODULE MCShuffles ------------------------------
(* Two threads; reads of the whole file, of its end, behind it, and one too large. *)
EXTENDS Shuffles

CONSTANTS t1, t2

TwoThreads == {t1, t2}
Symmetry == Permutations(TwoThreads)
MCRanges == {[offset |-> 0, size |-> 2], [offset |-> 1, size |-> 2], [offset |-> 0, size |-> 4]}
===============================================================================
