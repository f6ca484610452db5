SPECIFICATION Spec
CONSTANT Setups <- MCSetups
INVARIANTS ComparesSameFunction NoCheckSpansUnsupported ChangesValidated
CHECK_DEADLOCK FALSE
