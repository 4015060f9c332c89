---------------------------- MODULE LocalCommands -----------------------------
(***************************************************************************)
(* What an operator runs side by side in the shells of one machine, each   *)
(* shell one command: a command on state.json, or a run of the acceptance  *)
(* matrix that reserves its execution id.                                  *)
(***************************************************************************)
EXTENDS StateFile, ExecutionIds

ASSUME LocalAssumption == Runs = Shells

VARIABLE tool  \* tool[s]: "state" or "reserve"; it never changes

vars == <<sfVars, idVars, tool>>

Init ==
    /\ StateFileInit
    /\ IdsInit
    /\ tool \in [Shells -> {"state", "reserve"}]

Next ==
    \E s \in Shells :
        \/ tool[s] = "state" /\ StateFileNext(s) /\ UNCHANGED <<idVars, tool>>
        \/ tool[s] = "reserve" /\ ReserveNext(s)
            /\ UNCHANGED <<sfVars, tool>>

Spec == Init /\ [][Next]_vars
===============================================================================
