CONSTANTS
    N = 1
    Execs = {e1, e2}
    Operators = {o1, o2}
    Scenarios <- OperatorScenarios
    OldExec = old
    None = none
SPECIFICATION Spec
SYMMETRY Symmetry
INVARIANTS WindowHoldsLease ArchiveJustified
CHECK_DEADLOCK FALSE
