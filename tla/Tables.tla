--------------------------------- MODULE Tables ---------------------------------
(***************************************************************************)
(* Maps from ids to values, changed the way std::unordered_map is, and     *)
(* sums over sequences.                                                    *)
(***************************************************************************)
EXTENDS Integers, SequencesExt

CONSTANT none \* no value

\* erase
Without(f, ids) == [i \in DOMAIN f \ ids |-> f[i]]

\* insert_or_assign
With(f, new) == [i \in DOMAIN f \cup DOMAIN new |-> IF i \in DOMAIN new THEN new[i] ELSE f[i]]

Plus(a, b) == a + b
Sum(numbers) == FoldLeft(Plus, 0, numbers)
===============================================================================
