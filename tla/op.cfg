SPECIFICATION FairSpec
INVARIANTS RetriesBounded NoUntoldOrphan CompensationWaits FailureIsCompensated
PROPERTIES AbortStopsPhases Terminates
CONSTANTS
  Step <- Steps
  Phase <- Phases
  Body <- Bodies
  Parallel <- ParallelPhases
  Main <- MainPhases
  OnFailure <- Fallbacks
  Gate <- None
  Unknown <- OneUnknown
  MaxAttempts <- Profiles
