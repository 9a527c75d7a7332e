SPECIFICATION Spec
CONSTANTS
  UserFdLimits <- FdValues
  SystemFdLimits <- SystemValues
  UserSessionLimits <- SessionValues
  Foreground = FALSE
INVARIANTS
  UnusedIsSupplied
\* A process that exited, or was left no session, takes no further step.
CHECK_DEADLOCK FALSE
