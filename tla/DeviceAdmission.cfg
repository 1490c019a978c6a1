\* Three threads with any workload, a cap of one or two refinements, every
\* start, replacement and close.  The state space is finite by itself.
SPECIFICATION FairSpec
CONSTANTS
  Thread = {t1, t2, t3}
  MaxCap = 2
INVARIANTS
  CountersExact
  NoLostWakeUp
PROPERTIES
  SecurityFirst
  InitialServed
\* A closed supervisor with no call left has nothing to do.
CHECK_DEADLOCK FALSE
