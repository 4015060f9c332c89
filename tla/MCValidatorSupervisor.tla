------------------------- MODULE MCValidatorSupervisor ------------------------
(* Small instance of ValidatorSupervisor.                                    *)
EXTENDS ValidatorSupervisor, TLC
===============================================================================
