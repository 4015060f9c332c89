CONSTANTS
  Hosts = {h1, h2}
  Ids = {i1, i2}
  Platforms = {"posix"}
  Faults = {"kill", "stuck"}
  None = None
SPECIFICATION Spec
SYMMETRY Symmetry
INVARIANTS OneWindowAtATime
CHECK_DEADLOCK FALSE
