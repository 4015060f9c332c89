CONSTANTS
  Supervisors = {s1, s2}
  MaxPolls = 2
  MaxSignals = 2
  Null = null
SPECIFICATION Spec
INVARIANTS NothingLeftBehind InterferenceNeedsAnother
PROPERTY SupervisorEnds
CHECK_DEADLOCK FALSE
