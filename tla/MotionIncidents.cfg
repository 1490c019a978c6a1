\* One intent, a lease one unit longer than the maximum age, two attempts;
\* three faults (crash, stop or raising call) anywhere.
SPECIFICATION FairSpec
CONSTANTS
  Intent = {i1}
  Lease = 3
  NoIntent = NoIntent
  MaxAge = 2
  RetryDelay = 1
  MaxAttempts = 2
  MaxFaults = 3
INVARIANTS
  CompletedIsFinalized
PROPERTIES
  DelayedEvidenceAdmitted
  ClaimIsFresh
  EveryJobSettles
\* Once every delivery is settled and every job pruned nothing is left to do.
CHECK_DEADLOCK FALSE
