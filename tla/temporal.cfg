SPECIFICATION FairSpec
CONSTANTS
  a = a
  b = b
  c = c
  r = r
  x = x
  y = y
  z1 = z1
  z2 = z2
  g = g
  h = h
  c1 = c1
  hand = hand
  Design <- Designs
  Phase <- Phases
  Body <- Bodies
  Parallel <- ParallelPhases
  Step <- StepsOfBoth
  Gate = {g, h}
  Registered <- Registers
  Command = {c1}
  Hand = hand
  MaxAttempts = 2
INVARIANTS TypeOK NoWorkerLeft
PROPERTIES ImplementsSaga PollingEnds
\* Nothing is left to do once the workflow is closed and all commands ended.
CHECK_DEADLOCK FALSE
