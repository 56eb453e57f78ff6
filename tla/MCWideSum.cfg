CONSTANTS
  SIGN_BIT = 1
  BitAnd <- MCBitAnd
  BitOr <- MCBitOr
  BitXor <- MCBitXor
  REGISTER_COUNT = 7
  LIMBS = 3

SPECIFICATION Spec

INVARIANT
  WideSum

CHECK_DEADLOCK FALSE
