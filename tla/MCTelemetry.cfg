CONSTANTS
  N = 3
  MaxChunks = 2
  MaxPolls = 2
  MaxRetries = 1
  MaxFaults = 2
  None = None
SPECIFICATION Spec
INVARIANTS SendIsEvidenced CompleteLeavesNothingOut OutcomeNamesTheFile FinishNeverRefused
CHECK_DEADLOCK FALSE
