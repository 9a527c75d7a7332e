SPECIFICATION Spec
CONSTANTS
  Instances = {i1, i2}
  None = None
  Foregrounds = {TRUE, FALSE}
  Interleaved = TRUE
  MaxFaults = 0
  Faults = {}
  i1 = i1
  i2 = i2
INVARIANT
  OwnSegment
CHECK_DEADLOCK FALSE
