SPECIFICATION Spec
CONSTANTS Programs <- MCPrograms
INVARIANTS EncodingExact NonPoisonSound CallCountsSound AllQuantified
CHECK_DEADLOCK FALSE
