\* Two callers; a pool of one, resized to two, out of three worker objects;
\* one fault and one reconfiguration.
SPECIFICATION FairSpec
CONSTANTS
  Thread = {t1, t2}
  Workers = 3
  FirstSize = 1
  MaxPool = 2
  MaxFaults = 1
  MaxChanges = 1
INVARIANTS
  OneProcess
  StoppedStaysDown
  NothingOutsidePool
  HeadAwake
PROPERTIES
  StopEnds
\* A closed pool with no call left has nothing to do.
CHECK_DEADLOCK FALSE
