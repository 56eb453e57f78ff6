CONSTANT DISTANCE = 3

SPECIFICATION AnyWord

INVARIANTS
  FieldsReassemble
  OffsetSignExtended
