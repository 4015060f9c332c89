------------------------------- MODULE MCUpload -------------------------------
(* Small instances of UploadSystem.  Execution ids are interchangeable, and *)
(* so are operators.                                                        *)
EXTENDS UploadSystem, TLC

Symmetry == Permutations(Execs) \cup Permutations(Operators)

Scenario(max, matched, legacy, faults) ==
    [max |-> max, matched |-> matched, legacy |-> legacy, faults |-> faults]

(* A fresh checkpoint on a machine that fails; a checkpoint of an older       *)
(* uploader on a cluster that fails, with and without bytes already there.    *)
WindowScenarios ==
    {Scenario(1, {}, {}, {"throw", "kill", "write", "timeout"}),
     Scenario(2, {}, {0}, {"timeout", "fail", "fork", "drop"}),
     Scenario(1, {1}, {0}, {"rate", "fail", "fork"})}

(* Operators that are killed, after a window whose confirmation timed out or  *)
(* one that was killed or could not write.                                    *)
OperatorScenarios ==
    {Scenario(1, {}, {}, {"timeout", "opkill"}),
     Scenario(1, {}, {}, {"opkill", "kill", "write"})}

NoFaults == {Scenario(1, {}, {}, {})}

LastMatches == {Scenario(1, {2}, {}, {})}
===============================================================================
