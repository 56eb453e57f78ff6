CONSTANTS
  SIGN_BIT = 8
  BitAnd <- MCBitAnd
  BitOr <- MCBitOr
  BitXor <- MCBitXor
  REGISTER_COUNT = 2
  Operands <- MCOperands
  Destinations = {0}

SPECIFICATION Spec

INVARIANT
  ComparisonOrders
