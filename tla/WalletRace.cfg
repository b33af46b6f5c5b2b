\* Two runs of the CLI on one home, statement by statement.
SPECIFICATION Spec
CONSTANTS
  NULL = NULL
  NoFile = NoFile
  Truncated = Truncated
  l1 = l1
  k1 = k1
  k2 = k2
  w1 = w1
  Processes = {p1, p2}
  Homes = {h1}
  Labels = {l1, l2}
  Secrets = {k1, k2}
  Passphrases = {w1}
  UserPaths = {f1}
  ForeignFiles <- NoForeignFiles
  MaxCommands = 3
SYMMETRY RaceSymmetry
INVARIANTS
  UniqueRows
  SuccessIsAccountedFor
  RefusalsStandUp
PROPERTY
  ImplementsRegistry
CHECK_DEADLOCK FALSE
