CONSTANTS
  Hosts = {h1}
  Ids = {i1}
  Platforms = {"posix", "win32"}
  Faults = {"drift", "write", "kill", "spawn", "stuck"}
  None = None
SPECIFICATION FairSpec
INVARIANTS CleanMeansGone SuccessIsEarned AbsentLeaseStaysAbsent
PROPERTIES HostEnds
CHECK_DEADLOCK FALSE
