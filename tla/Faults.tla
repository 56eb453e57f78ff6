------------------------------- MODULE Faults -------------------------------
(***************************************************************************)
(* Fault codes (src/faults/codes.h) and error codes                        *)
(* (src/executor/executor.h).  FAULT_NONE is used by main.c and declared   *)
(* nowhere.  The declared fault codes are each the only member of their    *)
(* enumeration, so they are 0 and cannot be told apart; a fault can be     *)
(* seen at all only if FAULT_NONE is another number, which is assumed.     *)
(***************************************************************************)
EXTENDS Integers

CONSTANT FAULT_NONE

FAULT_ALIGNMENT == 0
FAULT_OUT_OF_BOUNDS == 0

ERROR_NONE == 0
ERROR_UNKNOWN_OPCODE == -1
ERROR_INVALID_REGISTER_INDEX == -2
WARNING_PC_USED_AS_OPERAND == -999

ErrorCode == {ERROR_NONE, ERROR_UNKNOWN_OPCODE, ERROR_INVALID_REGISTER_INDEX,
              WARNING_PC_USED_AS_OPERAND}

ASSUME FaultAssumption == FAULT_NONE \in Int \ ErrorCode
=============================================================================
