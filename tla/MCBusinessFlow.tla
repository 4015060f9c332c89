---------------------------- MODULE MCBusinessFlow ----------------------------
(* Small instances of BusinessFlow: three identities, no token before the   *)
(* matrix mints its own.                                                    *)
EXTENDS BusinessFlow

MCSupply == [u \in Users |-> 0]
===============================================================================
