\* One run of the CLI after the other, on two machines.
SPECIFICATION Spec
CONSTANTS
  NULL = NULL
  NoFile = NoFile
  Truncated = Truncated
  l1 = l1
  k1 = k1
  k2 = k2
  w1 = w1
  Processes = {p1}
  Homes = {h1, h2}
  Labels = {l1}
  Secrets = {k1, k2}
  Passphrases = {w1, w2}
  UserPaths = {f1}
  ForeignFiles <- SomeForeignFiles
  MaxCommands = 3
INVARIANTS
  TypeOK
  WalletsOpen
  SuccessIsStored
SYMMETRY HomeSymmetry
CHECK_DEADLOCK FALSE
