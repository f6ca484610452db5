CONSTANTS
  bits_byte = 2
  ptr_bytes = 2
  bits_for_offset = 4
  NumNonlocals = 5
  NumLocals = 2
  NumConsts = 1
  NumGlobals = 2
  MaxSize = 3
  MaxInline = 1
  SmallBlock = 2
  MaxStored = 2
  Programs <- MCPrograms
  Assignments <- MCAssignments
  Outputs <- MCOutputs
SPECIFICATION Spec
INVARIANTS MemoryExact EscapesRecorded AccessesExact RefinementSound CallsMatchSound
CHECK_DEADLOCK FALSE
