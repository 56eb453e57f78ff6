CONSTANTS
  FAULT_NONE = 1
  WORD_COUNT = 2
  Addresses <- MCAddresses
  Words = {0, 7}
  Zero = 0
  Codes <- MCCodes

SPECIFICATION Spec

INVARIANTS
  TypeOK
  OneBogusInstruction
  ReturnExplained

PROPERTY FaultEnds

\* main returns.
CHECK_DEADLOCK FALSE
