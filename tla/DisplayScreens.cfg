\* Runs on one terminal of each kind whose calls fail at any point.
SPECIFICATION FairSpec
CONSTANTS
  NULL = NULL
  WordCount = 3
  Timeout = 2
INVARIANTS
  TypeOK
  OneWordAtATime
  MainStaysClean
  TerminalRestored
PROPERTY
  SecretsGo
  RunsGoOn
CHECK_DEADLOCK FALSE
