SPECIFICATION Spec
CONSTANTS
  Args <- MCArgs
  Menu <- MCMenu
  Tails <- MCTails
  Rets <- MCRets
  Unknowns = TRUE
INVARIANTS
  AcceptedIsRefinement
  AssumptionsJustified
CHECK_DEADLOCK FALSE
