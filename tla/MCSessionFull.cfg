SPECIFICATION Spec
CONSTANTS
  MESSAGE_SIZE_LIMIT = 1
  MaxBytes <- TwoEach
  MaxLives = 1
  NulAt = {}
  CopyOrder = {"up"}
  UseClone = FALSE
  AddMayFail = TRUE
  UriBased = FALSE
INVARIANTS
  FullBufferNotPolled
\* The peers send a bounded number of bytes and then the balancer waits.
CHECK_DEADLOCK FALSE
