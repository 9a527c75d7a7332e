SPECIFICATION FairSpec
CONSTANTS
  MESSAGE_SIZE_LIMIT = 2
  MaxBytes <- ThreeEach
  MaxLives = 1
  NulAt = {2}
  CopyOrder = {"up"}
  UseClone = FALSE
  AddMayFail = TRUE
  UriBased = TRUE
INVARIANTS
  TypeOK
  ClientWatched
  ServersWatched
PROPERTIES
  ImplementsRelay
  ResponseDelivered
  OrderlyEnd
  MemberGoneDrains
  RequestsDelivered
CHECK_DEADLOCK FALSE
