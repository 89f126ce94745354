SPECIFICATION FairSpec
CONSTANTS
  t1 = t1
  t2 = t2
  k1 = k1
  k2 = k2
  k3 = k3
  v = v
  bare = bare
  Turns <- TwoTurns
  Key = {k1, k2, k3}
  Value = {v}
  Bare = bare
  Config <- Configs
  Ours = {k1, k2}
  Refused <- RefusedOne
  Pages <- OneThenTwo
  Budget = 6
  MaxOutages = 1
  MaxEdits = 1
INVARIANTS TypeOK CompletedMeansConverged
PROPERTIES Converges
