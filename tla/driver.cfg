SPECIFICATION FairSpec
INVARIANTS UnwindAccountsForAll DependenciesFirst WiringResolved ReleasesMatch GatesTurnedAway
PROPERTIES UnwindFreezesDeploy NoStartAfterFailure ImplementsSaga Terminates
CONSTANTS
  net = net
  db = db
  app = app
  vet = vet
  ops = ops
  ghost = ghost
  Component <- Components
  Phase <- Phases
  Step <- Steps
  Body <- Bodies
  Parallel <- ParallelPhases
  OnFailure <- Fallbacks
  Deploy <- Deploys
  Rollback <- Rollbacks
  Gate <- Gates
  Compensable <- CompensableSteps
  Publisher <- Publishers
  Applier <- Appliers
  Hyphenated = {db}
  Refers <- References
  DependsOns <- Graphs
  Seeds <- SeedChoices
