\* A payment that pays its deposit address twice.
SPECIFICATION Spec
CONSTANTS
  NULL = NULL
  CitreaAddrs = {c1}
  RecoveryAddrs = {r1}
  Owned = {r1}
  Keys = {k1}
  Delays = {2}
  Values = {3}
  BridgeAmount = 3
  Fee = 1
  Dust = 1
  MaxCsv = 5
  TxIds = {t1}
  MaxOutputs = 2
  MaxHeight = 4
SYMMETRY KeySymmetry
INVARIANTS
  PrintedCommandCollects
CHECK_DEADLOCK FALSE
