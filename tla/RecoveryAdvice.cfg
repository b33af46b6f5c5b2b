\* Status runs and recoveries of one payment of up to two outputs, against a
\* growing chain and a changing configuration.
SPECIFICATION Spec
CONSTANTS
  NULL = NULL
  CitreaAddrs = {c1}
  RecoveryAddrs = {r1}
  Owned = {r1}
  Keys = {k1}
  Delays = {2, 3}
  Values = {2, 3}
  BridgeAmount = 3
  Fee = 1
  Dust = 1
  MaxCsv = 5
  TxIds = {t1}
  MaxOutputs = 2
  MaxHeight = 4
SYMMETRY KeySymmetry
INVARIANTS
  TypeOK
  AdviceIsTimely
  PlainCommandCollects
  VerifiedCollects
CHECK_DEADLOCK FALSE
