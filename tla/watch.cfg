SPECIFICATION FairSpec
CONSTANTS
  f1 = f1
  f2 = f2
  dist = dist
  File = {f1, f2}
  Generated = dist
  Unfolded = {{f2}}
  Broken = {2}
  OpChoices = {FALSE}
  MaxEdits = 2
  MaxBuilds = 3
INVARIANTS ChildrenReaped EditsPayForBuilds
PROPERTIES OutputFollows
\* Nothing is left to do once the last edit is built.
CHECK_DEADLOCK FALSE
