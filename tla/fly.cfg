SPECIFICATION Spec
CONSTANTS
  old = old
  new = new
  Applier = {old, new}
  Plan <- Plans
  Modes <- ModesOf
  Mounts <- MountsOf
  Outside <- Hand
  Deployed <- Earlier
  Id = {1, 2, 3, 4, 5, 6}
  MaxRuns = 2
INVARIANTS TypeOK
PROPERTIES ForeignSpared WaitedMeansRunning ReleaseFrees AppliedMeansConverged
\* No run is left to begin once MaxRuns have ended.
CHECK_DEADLOCK FALSE
