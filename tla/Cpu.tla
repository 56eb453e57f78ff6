-------------------------------- MODULE Cpu ---------------------------------
(***************************************************************************)
(* The processor state every instruction handler works on: the register    *)
(* file (src/cpu/registers.h) and the status register, together a CpuState *)
(* (src/cpu/cpu.h).                                                        *)
(***************************************************************************)
EXTENDS Cpsr

CONSTANT REGISTER_COUNT   \* 16 in the code

ASSUME RegisterCountAssumption == REGISTER_COUNT \in Nat \ {0, 1}

VARIABLES
  regs,   \* cpu->regs.regs
  cpsr    \* cpu->cpsr, as the set of its flags

RegisterIndex == 0 .. REGISTER_COUNT - 1

(* The program counter is the last register and the link register the one  *)
(* before it: 15 and 14 of 16.                                             *)
LINK_REGISTER_INDEX == REGISTER_COUNT - 2
PC_REGISTER_INDEX == REGISTER_COUNT - 1

construct_registers == [index \in RegisterIndex |-> 0]

construct_cpu_state ==
  /\ regs = construct_registers
  /\ cpsr = construct_cpsr

(* Both accessors assert index < REGISTER_COUNT; callers that can pass a   *)
(* larger index model the abort themselves.                                *)
cpu_get_reg(index) == regs[index]

cpu_set_reg(index, value) == regs' = [regs EXCEPT ![index] = value]

CpuTypeOK ==
  /\ regs \in [RegisterIndex -> Word]
  /\ cpsr \subseteq Flags
=============================================================================
