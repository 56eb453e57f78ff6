CONSTANTS
  SIGN_BIT = 2
  BitAnd <- MCBitAnd
  BitOr <- MCBitOr
  BitXor <- MCBitXor
  REGISTER_COUNT = 5
  LIMBS = 2

SPECIFICATION Spec

INVARIANT
  WideSum

CHECK_DEADLOCK FALSE
