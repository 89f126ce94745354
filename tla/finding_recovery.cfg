SPECIFICATION Spec
CONSTANTS
  c1 = c1
  c2 = c2
  p1 = p1
  p2 = p2
  p3 = p3
  Clone = {c1, c2}
  Process = {p1, p2}
  CloneOf <- OwnClone
  Path <- OperatorFiles
  EnvOf <- OperatorEnvOf
  Ledger <- OneLedger
  Baseline = {}
  Command <- OperatorCommands
  Remoteless = {}
  Fallible = {}
  MaxWrites = 3
  MaxCheckouts = 0
PROPERTIES RemoteKeepsHistory
