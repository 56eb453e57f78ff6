CONSTANTS
  SIGN_BIT = 32
  REGISTER_COUNT = 3
  IMM24_SIGN = 4
  Imm24 <- MCImm24
  Conditions <- MCConditions
  Scratch <- MCScratch

SPECIFICATION Spec

INVARIANTS
  TypeOK
  MisalignedOnlyByWrite

PROPERTIES
  BranchLandsOnTarget
  ReturnResumes
  CallAllOrNothing

\* A failed assert or a refused fetch stops the processor for good.
CHECK_DEADLOCK FALSE
