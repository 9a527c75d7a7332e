SPECIFICATION Spec
CONSTANTS
  MAXSERVERS = 2
  Links = {l1}
  MaxCreates = 3
  maxc = 2
  Configured <- OneOfEach
  Interleaved = {"create", "shrink"}
  l1 = l1
PROPERTIES
  CreationSucceeds
