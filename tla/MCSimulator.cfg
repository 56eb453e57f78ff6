CONSTANTS
  FAULT_NONE = 1
  SIGN_BIT = 16
  REGISTER_COUNT = 4
  IMM24_SIGN = 4
  BitAnd <- MCBitAnd
  BitOr <- MCBitOr
  BitXor <- MCBitXor
  WORD_COUNT = 3
  Instructions <- MCInstructions
  Codes <- MCCodes

SPECIFICATION Spec

INVARIANT TypeOK

PROPERTIES
  RefinesMain
  BogusHarmless
  FaultReturns
  BranchesOnComparison
  StraightLineAdvances
  StraightLineReturns

\* main returns.
CHECK_DEADLOCK FALSE
