------------------------------- MODULE MCEscrow -------------------------------
(* Small instances of Escrow.                                               *)
EXTENDS Escrow

CONSTANTS a, b, r, InitialTokens

MCSupply == [u \in Users |-> InitialTokens]

(* b reviews and may be paid; a's own escrow address and the default key    *)
(* are the unusual choices.                                                 *)
MCMaintainers == {b, DefaultKey}
MCContributors == {b, <<a, r>>, DefaultKey}
===============================================================================
