CONSTANTS
    N = 2
    Execs = {e1, e2}
    Operators = {o1}
    Scenarios <- WindowScenarios
    OldExec = old
    None = none
SPECIFICATION Spec
SYMMETRY Symmetry
INVARIANTS EverySendIsRecorded NothingPendingWithoutLease ConfirmedIsFinal
PROPERTIES CheckpointMonotone ImplementsIdeal
