SPECIFICATION Spec
CONSTANTS
  MAXSERVERS = 2
  Links = {l1, l2}
  MaxCreates = 3
  maxc = 2
  Configured <- OneOfEach
  Interleaved = {"probe"}
  l1 = l1
  l2 = l2
PROPERTIES
  DecisionStands
