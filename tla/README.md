# SimpleARM in TLA+

SimpleARM is an ARM instruction-set simulator in C, written header by header:
a memory, a processor state, the bodies of instructions, decoders for three
instruction classes and a main loop. This directory models that code, checks
the models with TLC on small instances and proves theorems about them with
TLAPS for every word width, register count and program.

The definitions are translated from the C source. Where a comment of the
source says something else than its code, the module follows the code and a
separate run shows the difference (see *Findings*).

## Inventory

| Component | State | Operations | Used by |
|---|---|---|---|
| memory (`memory.h`) | `g_mem`, one static byte array behind every handle | `construct_memory`, `mem_read8/16/32`, `mem_write8/16/32` | nothing calls the accessors yet; `main.c` holds a handle |
| status register (`cpu/cpsr.h`) | `Cpsr.value`: N Z C V T | get, set, clear, six `cpsr_extract_*` | operations, conditions |
| registers, CPU state (`cpu/registers.h`, `cpu/cpu.h`) | sixteen words and a Cpsr | construct, get, set with index asserts | everything |
| condition codes (`instructions/cond.h`) | none | `cond_passed` | branches |
| operations (`data_processing/operations.h`, `multiplication/mul.h`) | CPU state | sixteen ALU bodies, `mul_op` | `data_proc_op`, the executor |
| data-processing instructions (`data_processing_decoder.h`, `data_processing.h`, `opcodes.h`) | CPU state, `*fault_out` | `decode`, `data_proc_op` | the executor |
| branches (`branch/b_bl.h`, `branch/bx.h`) | CPU state | `decode_b`, `b_op`, `decode_bx`, `bx_op` | the executor |
| nop and halt (`nop.h`, `halt.h`) | none | `nop_op`, `halt_op` | the executor |
| main loop (`main.c`, `executor/executor.h`, `faults/codes.h`) | program counter, fault code, `ExecResult` | `fetch`, the loop of `main` | the user |
| instruction catalogue (`instructions_enums.h`) | none | comments and an encoding macro | nothing |
| parser, build and editor files | none | none | |

The components interact by calls alone. The loop fetches a word at R15,
decodes it, executes it and stores the next address in R15; a branch writes
R15 and LR; data-processing instructions read and write registers and flags;
branches read the flags through `cond_passed`. A failed `assert` ends the
process; `CMakeLists.txt` sets no `NDEBUG`, so asserts are active. The function
between the loop and the handlers, `execute_instruction`, is declared nowhere
in the repository.

There is one thread, no files and no clock. What is hard here is not
concurrency but *agreement over sequences*: four flags written by different
helpers and read several instructions later; a carry handed from one addition
to the next; a return address that is right only if somebody else keeps R15
two instructions ahead; an array read at another size than it was written; a
fault recorded in one step and looked at in a later one; arguments that slide
by a position; and the edges of word arithmetic everywhere. `PROJECT.json`
lists these places under `hazards`, each at its line with its properties.

What makes each component correct:

* memory: it is an array of little-endian words whatever the mix of sizes,
  and stops exactly on misaligned or out-of-range accesses;
* operations and flags: result and flags are those of the exact integer
  operation, and the condition codes then decide comparisons;
* branches: targets, return addresses and the alignment of targets, in any
  program;
* data processing: one register is written at most, overwriting R15 is
  announced, a comparison decides;
* decoders: fields that cover the word without overlap, a signed offset;
* loop: nothing is executed that the program does not contain, one documented
  exception aside, and a fault ends the run with a return, not an abort;
* the whole: the handlers are an executor the loop can live with, and the flags
  one handler leaves are what another one reads.

## Modules

| Module | Models | Checked by | Proved in |
|---|---|---|---|
| `Words` | `word_t` and its wrap-around | | |
| `Cpsr` | `cpu/cpsr.h`; the value is the set of its set bits | | |
| `Cond` | `cond.h`, with the values the compiler gives | | |
| `Cpu` | register file and CPU state | | |
| `Operations` | bodies of `operations.h`, `mul.h`: one action per function | | `InstructionProofs` (lemmas) |
| `Alu` | any sequence of calls of those bodies | `MCAlu` | `AluProofs` |
| `MultiWord` | the multi-word addition idiom, as a guest program | `MCMultiWord` | `MultiWordProofs` |
| `ByteLanes` | the weights of the bytes of a word | | |
| `WordMemory` | abstract: what the memory promises | | |
| `Memory` | `memory.h`, implements `WordMemory` | `MCMemory` | `LayoutProofs` |
| `Handler` | how a handler ends: done, branch taken, assert failed | | |
| `Faults` | fault and error codes | | |
| `BranchInstructions` | decoders and bodies of B, BL, BX | | `InstructionProofs` (lemmas) |
| `Branch` | these in a loop, among data-processing instructions | `MCBranch` | `BranchProofs` |
| `DataProcInstructions` | decoder and body of the data-processing class | | |
| `DataProc` | these, any instruction after any other | `MCDataProc` | `DataProcProofs` |
| `Encoding` | the three decoders on the bits of a word | `Encoding` itself | `LayoutProofs` |
| `Main` | `fetch` and the loop of `main`, any executor | `MCMain` | `MainProofs` |
| `Simulator` | the loop with the handlers of all classes, implements `Main` | `MCSimulator` | `SimulatorProofs` |

`Words` <- `Cpsr` <- `Cpu` <- `Operations` is a chain of EXTENDS, each adding
one header. The handlers come in two layers: `BranchInstructions` and
`DataProcInstructions` hold what the C functions do, as actions on the
processor; `Branch` and `DataProc` run one class on its own, and `Simulator`
runs all of them on one processor inside the loop of `main.c`, which it relates
to `Main` by `M == INSTANCE Main WITH ...`. The bitwise operators of C are parameters of
`Operations` (`BitAnd`, `BitOr`, `BitXor`) with the four facts the proofs need
as `BitwiseAssumption`; `MCBitwise` gives the community module's definitions,
and TLC evaluates the assumption for them.

### Correspondence to the code

* A word is a number below `WORD_MODULUS = 2 * SIGN_BIT`; `SIGN_BIT` is 2^31
  in the code. `Wrap` is the conversion of an exact sum or difference back to
  `word_t`. `cpsr_extract_carry_add` does not wrap: the code adds in 64 bits.
* `orr_op`, `bic_op` and `mvn_op` have no flag updates in the code and leave
  the flags alone.
* `Alu` adds `last`, a record of the call with its operands and the carry
  before it; the invariants compare it with the state the call left.
* In `Memory` the handle argument is absent since every handle points at
  `g_mem`. `call` records each access with the value stored or returned. The
  parameter of `mem_write16` is a `halfword_t` and the value is narrowed.
* In `Branch` the loop around the instruction bodies is not in the
  repository. `Decode` and `Advance` are what it must do: `b_op` computes its
  return address as R15 - 4, which is right when R15 is two instructions
  ahead (`PC_BIAS = 8`, stated by the comments); `main.c` itself fetches from
  R15 without that distance. Both definitions are marked external in the map.
  `Other` is `data_proc_op` as a branch sees it: at most one register is
  written, R15 included, the flags change, or an opcode trips the assert. So the
  program may well get to an address between two words, where the fetch of
  `main.c` refuses to go (`Refuse`). `linked` is the return address of the last
  BL as long as LR has not been written.
* In `DataProcInstructions` and `BranchInstructions` an instruction word is a
  record of its fields; `Encoding` has the masks and shifts that produce them.
  The operand structures are a union, so `low` is Rm and the immediate at once;
  the result register is read through `reg_operand.rm` in both forms.
* In `Encoding` a 32-bit number is the set of the positions of its ones, and
  `Shl`, `Shr`, `Sar` and `Narrow` are the C shifts and conversions. The
  widths and constants are those of the code, nothing is scaled down. `Value`,
  the number such a set stands for, is written digit by digit; properties use it.
* In `Main` the executor is an environment: any next address, halt request and
  error code, or a failed assert. `Codes` are the values an error code may
  hold: the four enumerators, and others since it is an `enum` of C.
  `execute_instruction`, `cpu_get_pc`, `cpu_set_pc` and `mem->words` are used by
  `main.c` and declared nowhere.
* In `Simulator` R15 is the program counter of the loop and a register of the
  handlers, as in the code. `Init` sets it to `INITIAL_PC` and the loop reads it
  into its constant `pc` and fetches from there. The executor is what the two
  sides demand of it: it lets R15 run two instructions ahead (`Enter`),
  dispatches on the class, runs the handler (`Run`) and answers with an
  `ExecResult` (`NextPcs`, `ErrorCodes`, `halt_op`); then the loop makes its tests
  and sets R15 (`Finish`). `status` says whose R15 is: "ready" while it is the
  loop's.
* A taken branch fixes the next address; for any other write of R15 both
  readings, jump and no jump, are allowed. `b_op` and `bx_op` return nothing, so
  that a branch was taken is told to the executor by `status`. `data_proc_op`
  ends without a return value: what its caller reads is indeterminate, so the
  error code after it is any of `Codes`, one that is no `ErrorCode` included.
* `main.c` hands its `fault_out` to `decode`, which never writes it; the warnings
  of `data_proc_op` go to a variable of the executor, `fault_out` in the module,
  and the loop's own is `fetch_fault`.

### Code that does not compile

Some translation units refer to names that do not exist at this commit. They
are read as follows, and nothing checked depends on more:

* `add_op`, `sub_op`, `and_op` are called by `data_proc_op` without the S
  argument: any Boolean may arrive;
* `or_op` is `orr_op`, the only OR there is;
* `FAULT_NONE` is declared nowhere and both fault codes are 0; it is assumed
  different from every code (`FaultAssumption`), else no fault could ever be
  seen;
* `mul_op` takes its fields from a structure no header declares; the three
  registers it names are the fields of a `mul` word.

## Runs

Passing runs; every one ends with the whole state graph explored.

| Run | Bounds | What it shows |
|---|---|---|
| `alu` | 4-bit words, operands 0, 1, greatest and least signed, -1; one destination | `AdditionExact`, `SubtractionExact`: result and flags are those of exact arithmetic. `SubtractionOrders`: ten condition codes decide their comparison. `ComparisonDecidesEquality`. `AddWithCarryExact`: ADC is right except where folding the carry into operand2 leaves the range |
| `multi_word` | 2-bit words, two words per number, all numbers | `WideSum`: ADDS then ADCS adds, whatever moves, logic and tests run between them |
| `memory` | one-bit bytes, eight bytes, addresses to 11, four values | `RefinesWordMemory`: six accessors implement the word array |
| `branch` | 6-bit addresses (16 slots), offsets -4 to 3, three registers, four condition fields | `MisalignedOnlyByWrite`: branches land on words, only a write of R15 leads off them. `BranchLandsOnTarget`, `ReturnResumes`, `CallAllOrNothing` |
| `data_proc` | 2-bit words, three registers, immediates 1, 2, 3, one operation without handler | `AtMostOneRegister`, `RegisterFormWarns`, `CompareDecides` |
| `decoder` | 32-bit words, all that differ from 0 or from all ones in three bits at most | `FieldsReassemble`, `OffsetSignExtended` |
| `main_loop` | all programs of two words over two words, five addresses, five error codes | `OneBogusInstruction`, `ReturnExplained`, `FaultEnds` |
| `simulator` | all programs of three words over sixteen instructions, 5-bit words, R0, R1, LR, R15, five error codes | `RefinesMain`, `BogusHarmless`, `FaultReturns`, `BranchesOnComparison`, `StraightLineAdvances`, `StraightLineReturns` |

Why these bounds are enough:

* *Words.* Flags and wraps change at 0, at the sign boundary and at the top.
  The operands of `alu` sit on both sides of each, and the destination feeds
  no later call: operands are arguments, so each step sees each combination
  after each flag state. One destination is enough because no operation reads
  the register file. The theorems lift these results to every width.
* *Memory.* Two words are the least with an inner word boundary, and the
  addresses past the end have every alignment. With one-bit bytes a word has
  sixteen values; 6 (0110) and 11 (1011) are wider than a byte and than a
  halfword and tell the four lanes apart, and the six accessors together reach
  every content of the array.
* *Branch.* As in the code, the range of an offset is narrower than the
  address space (with equal widths sign extension would not matter: a missing
  one is the same number modulo the address space). Sixteen slots and offsets
  of up to four make branches wrap in both directions. An
  instruction between branches may leave an aligned, a half-aligned or a Thumb address in
  any register, R15 too. The condition fields are two that cond.h
  handles and two that it does not. Three registers are R0, LR and R15.
* *DataProc.* Three registers give every equality pattern of Rd, Rn, Rm and
  R15. An immediate may name an ordinary register, R15 or no register. The
  condition field, the S bit and the shift field are carried by the decoded
  instruction and read by nothing, as in the code, hence few values of each.
  `MCDataProc.cfg` has a VIEW: the instruction of the last step does not
  influence the next one.
* *Encoding.* A wrong mask digit or distance moves, drops or doubles a bit and
  so shows on a word with a single one or a single zero; three bits add every
  pair of fields that could overlap under either setting of the bit that
  chooses the operand form.
* *Main.* Addresses inside, between words, at and past the end; word 0 is also
  a word of some programs.
* *Simulator.* Three words are the least for a comparison, something in between
  and a branch back. The sixteen words have each class, both operand forms, a
  write of R15, a comparison with an immediate that is also the index of R15, an
  immediate that is no register and a condition that is no code. Five-bit
  addresses make eight slots, so programs run off their end and branch past it
  and around it. One error code is none of the enumerators.

CHECK_DEADLOCK is off where the system stops: after a failed assert (`memory`,
`branch`, `data_proc`), after a refused fetch (`branch`) and after `main`
returned (`main_loop`, `simulator`); also in `multi_word`, where the program ends.

*Fairness.* `Main` and `Simulator` have `WF_vars(Next)` and nothing stronger.
The loop is a single thread that waits for nothing, so its next step is taken;
the handlers are straight-line code and the executor is a function that
returns. `FaultEnds` needs no more, since every path from a fault is one
`Execute` long; `FaultReturns` neither, whose path is the same one with the
handler of the word 0 in it, nor `StraightLineReturns`, since every step of such
a program comes nearer to its end.

The operators marked *Seeded fault* before some definitions are plausible slips
of the same code (a missing mask, a forgotten carry, a check left out, a
register set before the result is tested). Each passing property is violated when the slip,
or a neighbouring definition of the code, takes the definition's place;
`PROJECT.json` pairs them under `mutants`.

### Refinements

* `RefinesWordMemory`: the byte array with its six accessors implements
  `WordMemory`, an array of words in which an access replaces the digits of one
  word. The mapping reads byte `addr` as digit `addr % 4` of word `addr \div 4`.
  It is a theorem as well, `ImplementsWordMemory`, for every radix and size.
* `RefinesMain`: `Simulator` implements `Main`. In `Main` nobody but the loop
  writes the program counter. In `Simulator`, as in the code, it is R15: the
  executor moves it, handlers overwrite it, and it is the loop's again after the
  tests. The mapping (`LoopPc`) reads R15 while it is the loop's and the constant
  `pc` of the loop's body from there to the tests; `fetch_fault` is the fault code.
  `Enter` is a stutter, `Run` is one unless the handler trips an assert, and the
  tests have to set R15 at the right time: before the result is looked at is too
  early (`PcSetFirst`). The property is the initial condition and the steps, and
  the theorem `ImplementsMain` is the whole of it. That a fault also ends the
  simulator, and by a return, is `FaultReturns`.

## Findings

Runs that are expected to fail; each states what a comment of the repository
says and TLC shows a behaviour of the code that differs.

| Run | The comment | The code |
|---|---|---|
| `wide_sum_three` | ADC is for "multi-word (64-bit+) addition" | `adc_op` adds the carry to operand2 first; with operand2 all ones the carry out is lost and a third word comes out wrong |
| `always_condition` | AL: always | `AL` is 0x1110 where the field holds 14: `cond_passed` aborts |
| `result_in_rd` | Rd := result | the destination is Rm, or what the immediate names: R15 without the warning when it is 15, and an assert fails from 16 on |
| `compare_orders` | CMP: flags := Rn - Op2; CC lower, LT less than | `cmp_op` sets N and Z only: C and V are those of an earlier instruction |

Further disagreements of the same kinds are visible in the definitions and
have no run of their own:

* `opcodes.h:41` and `:49` have SBC as Rd := Rn - Op2 - (1 - C) and RSC
  likewise; `sbc_op` gives Rn - Op2 + C and `rsc_op` Op2 - Rn - C.
* `cmn_op` leaves C and V alone as `cmp_op` does (`opcodes.h:70`).
* `opcodes.h:81` gives MOV as Rd := Op2; `data_processing.h:67` hands `mov_op`
  its operands one place off, so Rn is moved and operand 2 is the S argument
  (`Dispatch`).
* `data_processing_decoder.h:28` says of the member `shift_by_reg` that the shift
  is specified by register if it is true and by immediate if false; brace elision
  makes it "the shift field is not zero", and type and amount are lost (`Elided`
  in `Encoding`). Nothing reads them.
* The text on C in `cpsr.h` says that a borrow sets it; the code sets it when
  there is none, which is what the condition codes need (`SubtractionOrders`).
* `mvn_op` ignores its S argument, and `data_proc_op` never reads the condition
  field.

## Proofs

TLAPS checks these for every value of the constants, in eight modules. The
assumptions are `SignBitAssumption` (SIGN_BIT is a positive natural),
`RegisterCountAssumption`, `BitwiseAssumption` (results are words; XOR is 0
exactly on equal words) and, per module, the types of the sets that a
configuration chooses.

`InstructionProofs` holds what the other modules about instructions cite: the
sign-bit formulas for V are the exact signed overflow (`AddOverflowExact`,
`SubOverflowExact`), the flags carried through the nested helpers
(`AddFlagsMeaning`, `SubFlagsMeaning`), every operation stores one word and one
set of flags or tests (`OperationsStore`, `TestsKeepTypes`), what a branch
writes, and the arithmetic of addresses. Lemmas of the last kind have
`AddressWidths` as a hypothesis (words are multiples of four bytes and hold
more than eight addresses; a scaled offset is no wider than a word); `Branch`
and `Simulator` assume it, as `BranchAssumption`, and the operations do not.

`AluProofs`: `TypeCorrect`, `AdditionExactAlways`, `SubtractionExactAlways`,
`SubtractionOrdersAlways` (from the exact flags to the comparisons, condition
by condition), `AddWithCarryExactAlways` (folding the carry into operand2,
`FoldedCarry`, never costs the result, and costs the flags only at the two
operands named by `CarryInFits`), `ComparisonDecidesEqualityAlways`. These
speak about the last call, so they need nothing of the state before it but its
type: each is shown for one step from a state that satisfies `TypeOK`, and that
is inductive on its own.

`MultiWordProofs`: `DoubleWordSum`, `WideSum` for two words of every width. The
inductive invariant `CarryInv` says what the accumulator and C hold after each
addition; that nothing in between disturbs them is one lemma per operation. It
assumes `LIMBS = 2`: for three words the property is false (`wide_sum_three`).

`DataProcProofs`: `TypeCorrect` and the three action properties. What a
decoded instruction may hold (`DecodedFields`), what the dispatch may write
(`DispatchWrites`), and the properties from these.

`BranchProofs`, from `BranchAssumption`:

* `ReturnInvAlways`: the inductive invariant. `ReturnResumes` cannot be shown
  from alignment alone: that LR is right depends on R15 being ahead when `b_op`
  runs (`ReadsAhead`), and that on `Advance`; alignment of R15 after a branch
  depends on the decoded offset being scaled (`OffsetFits`) and on the address of
  the branch, since nothing is decoded between two words
  (`MisalignedOnlyByWrite`); and that LR can be trusted later depends on nobody
  having written it (`LinkHeld`).
* `TypeCorrect` and `MisalignedOnlyByWriteAlways` follow, and so does
  `ReturnResumesAlways`: BX LR after BL never trips an assert and resumes right
  behind the BL.
* `CallAllOrNothingAlways`: a branch writes LR and R15 together or nothing.
* `BranchLandsOnTargetAlways`: the target is R15 plus four times the signed
  field, modulo the address space. It needs `OffsetDecoded` (a second inductive
  invariant: the decoded offset is the sign-extended, scaled field) and two
  facts on remainders, `Residue` and `WrapShifts`: two wraps in a row amount
  to one reduction.

`MainProofs`, from `MainAssumption`: `TypeCorrect`,
`OneBogusInstructionAlways`, `ReturnExplainedAlways`, by `LoopInv`, which adds
that the loop never comes back to `fetch` with a fault recorded
(`NoFaultCarriedOver`): without it nothing limits `faulted`, and the assert at
the top of `fetch` could fail. `FaultEndsAtOnceAlways` is the part of
`FaultEnds` that needs no fairness: the step that follows a failed fetch is the
last one, and it is not that assert that fails.

`SimulatorProofs`, from `ProgramAssumption` and `BranchAssumption`:

* `SimulatorInv` is the inductive invariant: the types, whose turn it is
  (`Turns`: R15 is the loop's when it fetches, and until the executor starts it
  holds the address fetched from, `pc`), the word that
  is executed after a failed fetch is 0 (`FaultMeansZero`), and Z holds what the
  remembered comparison found (`ComparedInZ`).
* `ImplementsMain`, the whole of `RefinesMain`: the initial states of `Simulator`
  map to initial states of `Main`, and every step to a step or a stutter
  (`MainStep`). `EnterInv` and `RunInv` say that `LoopPc` stands still while R15
  does not, and `FinishAnswers` that the loop takes R15 back as the next address.
  The types are needed here: the next address has to be a word, which for a
  branch is what wrapping its target gives.
* `TypeCorrect`, `BogusHarmlessAlways`, `BranchesOnComparisonAlways`: the last
  one relates the flags that one handler leaves to the decision of another,
  through any number of instructions that leave the flags alone.

* `LoopKeptAlways`: the invariants of `Main`, read through the mapping, are
  invariants of the simulator. `LoopKept` is `LoopInv` of `MainProofs` on the
  mapped variables; what the executor answers is all it has to know of the
  handlers (`FinishAnswers`).
* `StraightLineAdvancesAlways`: the part of `StraightLineReturns` that needs no
  fairness. `StraightHandles` goes through the handlers of a program without
  branches and without writes of R15: each returns and leaves R15 alone. Then
  `OnCourse` is inductive: R15 keeps reading ahead of the address until the
  loop moves on, so that the only next address is the next word.

`LayoutProofs`, the memory from `MemoryAssumption` and the decoders from no
assumption at all (it extends both; the specification of `Encoding` has the
name `AnyWord` to keep the two apart):

* `TypeCorrect` and `ImplementsWordMemory`, the whole of `RefinesWordMemory`
  since neither specification states fairness. `Access` says that an access
  which passes the checks of the code lies within one word. `Bytes` and
  `Fields` are about the digits of a number: what a store replaces are the
  digits of that word from the lane on, and what a load reads are those digits.
  From these, one lemma per kind of step (`LoadStep`, `StoreStep`, `StopStep`)
  maps it to the step of `WordMemory`. Four lanes, written out (`Weight`), keep
  this clear of exponentiation and of induction.
* `ReadBackAlways`: after a store, a load of its size would return the value
  narrowed to the size.
* `FieldsReassembleAlways`: masks and shifts followed bit by bit.
  `OffsetSignExtendedAlways`: shifting left by two moves base-4 digits by one
  place (`ShiftedSum`), and the ones above the sign bit make up for the
  complement (`ComplementSum`). They hold for every `DISTANCE`, and at 16 every
  word of 32 bits is within that distance of all zeros or all ones: they are
  statements about all words.

Only model-checked: liveness, which is out of the prover's reach, that is
`FaultEnds`, `FaultReturns` and `StraightLineReturns`. What is safety in them is
proved: `FaultEndsAtOnceAlways` of the first, `BogusHarmlessAlways` and
`LoopKeptAlways` of the second, `StraightLineAdvancesAlways` of the third.

## Not modelled

* `instructions_enums.h`: two enumerations no code switches on, the comments
  that document the encodings and a macro whose shifts are declared nowhere. The
  comments serve as the reference of several properties and findings.
* `parser.h` is empty. Build and editor files.
* The Thumb bit has setters that nothing calls; the flag is part of the type
  and never set.
* The initial program of `main.c`: it is built by the macro above. `Simulator`
  takes every program over its instructions instead.
* The memory accessors inside `Simulator`: no instruction calls them (there is
  no load or store body), and `fetch` reads a word array `memory.h` does not
  have.

## What is left

The model covers every function of the repository that changes state. A load
or store body, once there is one, would join `Simulator` through `WordMemory`;
`execute_instruction`, once written, replaces `Enter`, `Handle`, `NextPcs` and
`ErrorCodes`, and can then be checked against `RefinesMain` as it stands.
