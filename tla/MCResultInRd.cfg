CONSTANTS
  FAULT_NONE = 1
  SIGN_BIT = 2
  REGISTER_COUNT = 3
  BitAnd <- MCBitAnd
  BitOr <- MCBitOr
  BitXor <- MCBitXor
  ConditionFields = {0}
  OpFields <- MCOpFields
  Immediates <- MCImmediates
  HighFields = {0}
  SFields = {FALSE}

SPECIFICATION Spec

PROPERTY ResultInRd

CHECK_DEADLOCK FALSE
