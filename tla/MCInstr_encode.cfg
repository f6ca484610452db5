SPECIFICATION Spec
CONSTANTS
  ExpBits = 3
  bits_byte = 2
  bits_poison_per_byte = 1
  PtrBits = 2
  Catalog <- MCAll
  TriedValues <- MCTriedValues
  Envs <- MCEnvs
INVARIANTS TypeOK Monotone PoisonPropagates RemovableIsDefined FpReferences LayoutKept
CHECK_DEADLOCK FALSE
