------------------------------- MODULE MCStorage -------------------------------
(* Small instances of Storage. *)
EXTENDS Storage

Edited(id, casket, count, storedIn, born) ==
    [id |-> id, item |-> [casket |-> casket, count |-> count, storedIn |-> storedIn,
                          born |-> born, home |-> 0]]

\* No file; a casket and an item in it under one number; an item under a name that is
\* no number (it is read as 0) and one under the number it may be given; two items under
\* the second number.
MCFirstFiles ==
    {{},
     {Edited(1, TRUE, 1, 0, 1), Edited(1, FALSE, none, 1, 2)},
     {Edited(0, FALSE, none, 0, 1), Edited(1, FALSE, none, 0, 2)},
     {Edited(2, FALSE, none, 0, 1), Edited(2, FALSE, none, 0, 2)}}
===============================================================================
