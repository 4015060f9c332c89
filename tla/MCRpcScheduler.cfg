CONSTANTS
  Requests = {r1, s1}
  Sends = {s1}
  Capacity = 1
  Gap = 2
  Timeout = 2
  RetryBackoff <- MCRetryBackoff
  NotBefores = {1}
  Deadlines = {5}
  Cleanup = 1
  Faults = {"guard", "observer", "subscriber"}
  None = None
SPECIFICATION FairSpec
INVARIANT AttemptsBounded EveryAttemptRecorded
PROPERTY StartsSpaced AbortStopsStarts EveryRequestSettles DrainEnds
