SPECIFICATION Spec
CONSTANTS
  MESSAGE_SIZE_LIMIT = 2
  MaxBytes <- ForClone
  MaxLives = 2
  NulAt = {2}
  CopyOrder = {"up"}
  UseClone = TRUE
  AddMayFail = FALSE
  UriBased = FALSE
INVARIANTS
  ConnectionCount
  RelayIntact
  CloneIntact
CHECK_DEADLOCK FALSE
VIEW WithoutLeaked
