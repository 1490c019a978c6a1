SPECIFICATION FairLifecycle
CONSTANTS
  Commander = {control}
  Fleet = fleet
  Holder = {control, fleet}
  MotionWorker = {analysis}
  MaxGeneration = 2
  MaxIngress = 1
  MaxStops = 2
  MaxLifecycleFaults = 1
INVARIANTS OneGeneration StopHasWaiter ToldToStop
CHECK_DEADLOCK FALSE
