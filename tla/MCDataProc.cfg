CONSTANTS
  FAULT_NONE = 1
  SIGN_BIT = 2
  REGISTER_COUNT = 3
  BitAnd <- MCBitAnd
  BitOr <- MCBitOr
  BitXor <- MCBitXor
  ConditionFields = {14}
  OpFields <- MCOpFields
  Immediates <- MCImmediates
  HighFields = {0, 8}
  SFields = {TRUE, FALSE}

SPECIFICATION Spec

VIEW Machine

INVARIANT TypeOK

PROPERTIES
  AtMostOneRegister
  RegisterFormWarns
  CompareDecides

\* A failed assert stops the program.
CHECK_DEADLOCK FALSE
