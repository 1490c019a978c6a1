\* Two segments in batches of one, of one row each; one failure, stop, crash or
\* absence; an incident may refer to the first, which may lie outside; a client
\* may play the second.
SPECIFICATION FairRetention
CONSTANTS
  MaxSegment = 2
  Limit = 1
  Reach = 1
  Evidence = {1}
  Watched = {2}
  Foreign = {1}
  MaxTroubles = 1
PROPERTIES
  LeasedIsKept
  
  
  CleanUpFinishes
CHECK_DEADLOCK FALSE
