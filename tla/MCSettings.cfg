SPECIFICATION FairSpec
CONSTANTS
  Lines <- FileLines
  MaxLines = 7
  Garbage = Garbage
  Missing = Missing
  MaxPort = 100
  DefaultPort = 80
  INT_MAX = 127
  USHRT_MAX = 7
  Ips = {1, 2}
  Defaults <- SmallDefaults
  Typed <- TypedNumbers
INVARIANTS
  SectionAsWritten
  SettingsInRange
  MonitorSurvives
  RebalancedInTime
PROPERTY
  RebalancingGoesOn
\* A file that cannot be read ends the process.
CHECK_DEADLOCK FALSE
