\* Two jobs and a queue of one; one client; one crash or stop and one fault.
SPECIFICATION FairSpec
CONSTANTS
  Job = {j1, j2}
  Client = {c1}
  QueueLimit = 1
  MaxCrashes = 1
  MaxFaults = 1
  NoJob = NoJob
INVARIANTS
  CompletedHasFile
  NoStrayFile
PROPERTIES
  ProtectionWins
  QueuedSettles
\* Jobs are used once: a library without one to create, and a worker that is
\* gone, have nothing to do.
CHECK_DEADLOCK FALSE
