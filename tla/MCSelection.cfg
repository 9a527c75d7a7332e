SPECIFICATION Spec
CONSTANTS
  Slots <- ThreeAndOne
  maxc <- FirstTakesTwo
  maxl = 1
  Loads = {2}
  session_weight = 1
  Hashes = {0, 1}
  threshold = 50
  size = 50
  MaxChanges = 2
INVARIANTS
  TypeOK
  ChosenUsable
  StandbyLastResort
  CheapestChosen
  RoundRobinFair
  UsageExact
  PinsToServers
