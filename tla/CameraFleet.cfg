SPECIFICATION FleetSpec
CONSTANTS
  Camera = {front, back}
  Nobody = nobody
  Target = {front}
  MaxConcurrency = 1
  MaxFleetFaults = 2
INVARIANTS DependenciesLast NoStrayReplacement
PROPERTIES NothingStartsLate
CHECK_DEADLOCK FALSE
