--------------------------- MODULE MCLocalCommands ----------------------------
(* Small instance of LocalCommands: shells and ids are interchangeable. *)
EXTENDS LocalCommands, TLC

Symmetry == Permutations(Shells) \cup Permutations(Ids)

(* No file; a version 2 state with its buffer; a version 3 state with a plan. *)
MCStarts ==
    {Null,
     [v |-> 2, ids |-> TRUE, buf |-> TRUE, plan |-> FALSE, marks |-> {}],
     [v |-> 3, ids |-> TRUE, buf |-> TRUE, plan |-> TRUE, marks |-> {}]}
===============================================================================
