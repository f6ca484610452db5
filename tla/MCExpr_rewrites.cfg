SPECIFICATION Spec
CONSTANTS
  IdxW = 1
  EltW = 3
  W = 3
  Nums = {1, 6}
  OpsA <- MCA
  OpsB <- MCB
  LastOps <- MCLast
INVARIANTS RewritesKeepMeaning
CHECK_DEADLOCK FALSE
