\* Every transaction of every block of up to 18, in both trees.
SPECIFICATION FairSpec
CONSTANTS
  NULL = NULL
  Zero = Zero
  MaxTransactions = 18
  Ilog2 <- Logarithm
INVARIANTS
  TypeOK
  OnlyLonePanics
  ProofVerifies
  RootIsBitcoins
PROPERTIES
  Answers
CHECK_DEADLOCK FALSE
