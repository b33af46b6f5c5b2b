\* A deposit whose delay the configuration no longer has.
SPECIFICATION Spec
CONSTANTS
  NULL = NULL
  CitreaAddrs = {c1}
  RecoveryAddrs = {r1}
  Owned = {r1}
  Keys = {k1}
  Delays = {2, 3}
  Values = {3}
  BridgeAmount = 3
  Fee = 1
  Dust = 1
  MaxCsv = 5
  TxIds = {t1}
  MaxOutputs = 1
  MaxHeight = 5
SYMMETRY KeySymmetry
INVARIANTS
  VerifiedMeansCollects
CHECK_DEADLOCK FALSE
