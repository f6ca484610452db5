SPECIFICATION Spec
CONSTANTS
  Inputs <- MCInputs
  Choices <- MCChoices
  Default = 1
  Cases <- MCCases
  Unknowns = {"Timeout", "Error"}
  TypeNames <- MCNames
  TypeSort = {"Int", "Vector", "Undefined"}
  BwSort = {0, 1, 2}
  ASSort = {0}
  ElementsSort = {0, 1}
  TypeVars <- MCVars
  TypeMask <- MCMask
  SameType <- MCSame
  MaxBw = 2
  FloatSizes = {2}
  PtrBits = 2
  MaxElements = 1
  MaxGaveUp = 2
INVARIANTS
  CorrectIsRefinement
  UnsoundIsReal
  NoExploitedUB
  AllTypingsVerified
CHECK_DEADLOCK FALSE
