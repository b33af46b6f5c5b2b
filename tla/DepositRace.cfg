\* Two runs of "deposit start" against one backend and one table, while the
\* configuration and the backend's parameters change.
SPECIFICATION Spec
CONSTANTS
  NULL = NULL
  Processes = {p1, p2}
  Networks = {signet, regtest}
  LocalNetworks = {regtest}
  CitreaAddrs = {c1}
  RecoveryAddrs = {r1}
  Keys = {k1, k2}
  Delays = {2}
  MaxCommands = 3
SYMMETRY ProcessSymmetry
INVARIANTS
  TypeOK
  RowsTellTheirTerms
  GivenAddressIsRecorded
  RecordedIsKnown
PROPERTY
  ImplementsBook
CHECK_DEADLOCK FALSE
