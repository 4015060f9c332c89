----------------------------- MODULE MCWindowHost -----------------------------
(* Small instances of WindowHost: hosts and execution ids are                *)
(* interchangeable.                                                          *)
EXTENDS WindowHost, TLC

Symmetry == Permutations(Hosts) \cup Permutations(Ids)
===============================================================================
