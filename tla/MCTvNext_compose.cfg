SPECIFICATION Spec
CONSTANTS
  Args <- MCArgs
  Menu <- MCMenu
  Tails <- MCTails
  Rets <- MCRets
  Unknowns = FALSE
INVARIANTS
  ComposeSound
CHECK_DEADLOCK FALSE
