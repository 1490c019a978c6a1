\* Two triggers, a queue of one, one in-process retry, two attempts per row;
\* two faults (crash, stop or database error) anywhere.
SPECIFICATION FairSpec
CONSTANTS
  Triggers = 2
  Lease = 1
  Backoff = 1
  MaxAttempts = 2
  QueueSize = 1
  RetryLimit = 1
  MaxFaults = 2
INVARIANTS
  OneCopy
PROPERTIES
  Reliable
  EventuallySettled
\* The process is idle for good once every trigger is settled.
CHECK_DEADLOCK FALSE
