SPECIFICATION Spec
CONSTANTS
  c1 = c1
  c2 = c2
  p1 = p1
  p2 = p2
  p3 = p3
  Clone = {c1, c2}
  Process = {p1, p2, p3}
  CloneOf <- SharedClone
  Path <- SharedFiles
  EnvOf <- SharedEnvOf
  Ledger <- OneLedger
  Baseline <- OneBaseline
  Command <- SharedCommands
  Remoteless = {c2}
  Fallible = {"show", "root", "list", "parent", "remote", "lease"}
  MaxWrites = 2
  MaxCheckouts = 0
INVARIANTS NoCrossWiring
PROPERTIES OwnLedgerGrows
