CONSTANTS
  BYTE_RADIX = 2
  MEMORY_SIZE = 8
  ADDRESS_LIMIT = 12
  Stored <- MCStored

SPECIFICATION Spec

INVARIANT TypeOK

PROPERTY RefinesWordMemory

\* An aborted program takes no further step.
CHECK_DEADLOCK FALSE
