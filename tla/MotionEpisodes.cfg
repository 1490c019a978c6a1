\* Two concurrent callbacks, one follow-up per episode, two episodes; one
\* fault (crash, stop, clock jump, refused or half-done enqueue) anywhere.
SPECIFICATION FairSpec
CONSTANTS
  Callback = {c1, c2}
  Analysis = ema
  MaxFollowups = 1
  MaxSequence = 2
  MaxFaults = 1
INVARIANTS
  FollowupBudget
  ReservationIsExclusive
PROPERTIES
  CarriedRequestEnds
\* Episodes are bounded, and a request nobody carries blocks all others.
CHECK_DEADLOCK FALSE
