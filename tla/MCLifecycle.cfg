SPECIFICATION FairSpec
CONSTANTS
  Instances = {i1, i2}
  None = None
  Foregrounds = {TRUE, FALSE}
  Interleaved = FALSE
  MaxFaults = 1
  Faults = {"fork", "setup", "unlink", "crash", "term"}
  i1 = i1
  i2 = i2
INVARIANTS
  OwnSegment
  ServingIsLocked
  LockHeld
PROPERTIES
  KillEnds
  MasterEnds
\* When every process has ended nothing more happens.
CHECK_DEADLOCK FALSE
