CONSTANTS
  SIGN_BIT = 32
  REGISTER_COUNT = 3
  IMM24_SIGN = 4
  Imm24 <- MCImm24
  Conditions <- MCConditions
  Scratch <- MCScratch

SPECIFICATION Spec

INVARIANT AlwaysConditionRuns

CHECK_DEADLOCK FALSE
