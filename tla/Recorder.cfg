SPECIFICATION FairSpec
CONSTANTS
  MaxProcess = 3
  MaxCommands = 1
  MaxFaults = 1
  RolloverLimit = 1
INVARIANTS NoneForgotten ClosedIsQuiet
PROPERTY RecordsInTheEnd
CHECK_DEADLOCK FALSE
