\* Scan, generate, edit the configuration and send, while a block gives way
\* to another one of its height, and to none.
SPECIFICATION FairSpec
CONSTANTS
  NULL = NULL
  Signers = {s1}
  Destinations = {d1, d2}
  OwnWithdrawal = {d2}
  Outpoints = {o1}
  Parameters <- AllTables
  DustValues = {1, 2}
  Amounts = {8, 9, 10}
  MaxHeight = 1
  Forks = {1, 2}
  MaxRequests = 1
INVARIANTS
  TypeOK
  OffersAreUsable
  PlanWorks
  RequestsPay
  ProofsMatch
PROPERTY
  CommandsGoOn
  CommandsEnd
CHECK_DEADLOCK FALSE
