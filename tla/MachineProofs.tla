--------------------------- MODULE MachineProofs ---------------------------
(***************************************************************************)
(* The machine never leaves its types, its stack never meets the program,  *)
(* and its recorded errors can be trusted: for every set of images and     *)
(* every input.                                                            *)
(***************************************************************************)
EXTENDS Machine, CoreLemmas

\* The machine's own part of TypeOK.
VmType ==
  /\ r \in [Register -> Word]
  /\ pc \in Word
  /\ sp \in Word
  /\ flags \subseteq Flag
  /\ IsMemory(mem)
  /\ halted \in BOOLEAN
  /\ last_error \in VmError \cup {"VM_OK"}
  /\ error_pc \in Word
  /\ stack_limit \in Word
  /\ IsItem(stdout)
  /\ result \in VmResult

HostType ==
  /\ image \in Images
  /\ booted \in BOOLEAN
  /\ last_call \in {"vm_init", "vm_load", "vm_step"}

\* What keeps the stack above the limit: SP moves by two from an even
\* start, and it leaves that start only for slots at or above the limit.
StackInv ==
  /\ sp % 2 = 0
  /\ sp = CPU_INITIAL_SP \/ sp >= stack_limit

\* The limit is the one of the image in memory.
LimitInv == booted => header_ok(image) /\ stack_limit = limit_of(image)

\* A machine that runs has no error.
ErrorInv == ~halted => last_error = "VM_OK"

IInv == VmType /\ HostType /\ StackInv /\ LimitInv /\ ErrorInv

\* A legal instruction, as the decoder produces it.
IsInstruction(i) ==
  /\ i.next \in Word
  /\ IsOperand(i.op1) /\ IsOperand(i.op2)
  /\ i.opcode \in Opcode
  /\ i.op1.mode \in op1_modes(i.opcode)
  /\ i.op2.mode \in op2_modes(i.opcode)

LEMMA FetchedType ==
  ASSUME VmType
  PROVE  /\ fetched.next \in Word
         /\ fetched.result \in {"VM_OK", "VM_ERR_INVALID_OPCODE",
                                "VM_ERR_INVALID_MODE"}
         /\ fetched.result = "VM_OK" => IsInstruction(fetched)
  BY DecodeType DEF VmType, fetched, IsInstruction

-----------------------------------------------------------------------------
\* Operands.

LEMMA OperandReadType ==
  ASSUME VmType, NEW op, IsOperand(op)
  PROVE  operand_read(op) \in Word
  BY DEF VmType, IsOperand, operand_read, Register

LEMMA EffectiveAddressType ==
  ASSUME VmType, NEW op, IsOperand(op), op.mode \in MODES_MEM
  PROVE  operand_effective_address(op) \in Word
  BY DEF VmType, IsOperand, operand_effective_address, Register, MODES_MEM

LEMMA TargetType ==
  ASSUME NEW i, IsInstruction(i), i.opcode \in OP_MOV .. OP_LOAD \cup {OP_POP}
  PROVE  i.op1.value \in Register
<1>1. i.op1.mode = MODE_REG
  BY TargetIsRegister DEF IsInstruction
<1> QED
  BY <1>1 DEF IsInstruction, IsOperand, Register

-----------------------------------------------------------------------------
\* The shapes a handler's effect takes.

LEMMA WriteOutcomeType ==
  ASSUME VmType, NEW i, i.next \in Word, i.op1.value \in Register,
         NEW out, IsOutcome(out), WriteOutcome(i, out), UNCHANGED stack_limit
  PROVE  VmType'
  BY DEF VmType, WriteOutcome, Succeed, IsOutcome, VmResult

LEMMA FaultType ==
  ASSUME VmType, NEW e \in VmError, NEW next \in Word, Fault(e, next),
         UNCHANGED stack_limit
  PROVE  VmType'
  BY DEF VmType, Fault, VmResult

LEMMA HaltType ==
  ASSUME VmType, NEW i, i.next \in Word, Halt(i), UNCHANGED stack_limit
  PROVE  VmType'
  BY DEF VmType, Halt, VmResult

LEMMA PrintType ==
  ASSUME VmType, NEW i, i.next \in Word, NEW kind, NEW value,
         IsItem([kind |-> kind, value |-> value]), print(i, kind, value),
         UNCHANGED stack_limit
  PROVE  VmType'
  BY DEF VmType, print, Succeed, VmResult

USE DEF OP_NOP, OP_MOV, OP_ADD, OP_SUB, OP_MUL, OP_DIV, OP_MOD, OP_AND, OP_OR,
        OP_XOR, OP_NOT, OP_SHL, OP_SHR, OP_LOAD, OP_STORE, OP_PUSH, OP_POP,
        OP_CMP, OP_JMP, OP_JZ, OP_JNZ, OP_JG, OP_JGE, OP_JL, OP_JLE, OP_JB,
        OP_JAE, OP_JA, OP_JBE, OP_CALL, OP_RET, OP_SYS, OP_HALT

\* SP after a push and after a pop.
LEMMA SpMoves ==
  ASSUME VmType, StackInv
  PROVE  /\ ~stack_full => /\ (sp - 2) % 65536 = sp - 2
                           /\ sp - 2 \in Word /\ (sp - 2) % 2 = 0
                           /\ sp - 2 >= stack_limit
         /\ ~stack_empty => /\ (sp + 2) % 65536 = sp + 2
                            /\ sp + 2 \in Word /\ (sp + 2) % 2 = 0
                            /\ sp + 2 >= stack_limit
  BY DEF VmType, StackInv, stack_full, stack_empty, CPU_INITIAL_SP, Word

\* Every handler keeps the types.
LEMMA ExecuteType ==
  ASSUME VmType, StackInv, NEW i, IsInstruction(i), instruction_execute(i),
         UNCHANGED stack_limit
  PROVE  VmType'
<1> DEFINE x == r[i.op1.value]
           y == operand_read(i.op2)
           fl == flags
<1>1. i.next \in Word /\ IsOperand(i.op1) /\ IsOperand(i.op2)
  BY DEF IsInstruction
<1>2. operand_read(i.op1) \in Word /\ y \in Word
  BY <1>1, OperandReadType
<1>3. fl \subseteq Flag /\ IsMemory(mem)
  BY DEF VmType
<1>4. i.opcode \in OP_MOV .. OP_LOAD \cup {OP_POP} =>
        i.op1.value \in Register /\ x \in Word
  BY TargetType DEF VmType
<1> HIDE DEF x, y, fl
<1>nop. CASE exec_nop(i)
  BY <1>1, <1>nop DEF exec_nop, VmType, Succeed, VmResult
<1>mov. CASE exec_mov(i)
  <2>1. WriteOutcome(i, Outcome(y, fl))
    BY <1>mov DEF exec_mov, y, fl
  <2>2. IsOutcome(Outcome(y, fl))
    BY <1>2, <1>3 DEF IsOutcome, Outcome
  <2>3. i.op1.value \in Register
    BY <1>4, <1>mov DEF exec_mov
  <2> QED
    BY <1>1, <2>1, <2>2, <2>3, WriteOutcomeType
<1>load. CASE exec_load(i)
  <2> DEFINE w == mem_read16(mem, operand_effective_address(i.op2))
  <2>1. WriteOutcome(i, Outcome(w, fl))
    BY <1>load DEF exec_load, fl
  <2>2. w \in Word
    BY <1>3, Read16Type
  <2> HIDE DEF w
  <2>3. IsOutcome(Outcome(w, fl))
    BY <1>3, <2>2 DEF IsOutcome, Outcome
  <2>4. i.op1.value \in Register
    BY <1>4, <1>load DEF exec_load
  <2> QED
    BY <1>1, <2>1, <2>3, <2>4, WriteOutcomeType
<1>store. CASE exec_store(i)
  <2> DEFINE m == mem_write16(mem, operand_effective_address(i.op1),
                              r[i.op2.value])
  <2>1. i.op1.mode \in MODES_MEM /\ i.op2.mode = MODE_REG
    BY <1>store, StoreModes DEF exec_store, IsInstruction
  <2>2. r[i.op2.value] \in Word
    BY <1>1, <2>1 DEF VmType, IsOperand, Register
  <2>3. operand_effective_address(i.op1) \in Word
    BY <1>1, <2>1, EffectiveAddressType
  <2>4. IsMemory(m)
    BY <1>3, <2>2, <2>3, Write16Type
  <2>5. mem' = m
    BY <1>store DEF exec_store
  <2> HIDE DEF m
  <2> QED
    BY <1>1, <1>store, <2>4, <2>5 DEF exec_store, VmType, Succeed, VmResult
<1>add. CASE exec_add(i)
  <2>1. WriteOutcome(i, add(x, y, fl)) /\ i.op1.value \in Register
          /\ x \in Word
    BY <1>4, <1>add DEF exec_add, x, y, fl
  <2> QED
    BY <1>1, <1>2, <1>3, <2>1, ArithmeticType, WriteOutcomeType
<1>sub. CASE exec_sub(i)
  <2>1. WriteOutcome(i, sub(x, y, fl)) /\ i.op1.value \in Register
          /\ x \in Word
    BY <1>4, <1>sub DEF exec_sub, x, y, fl
  <2> QED
    BY <1>1, <1>2, <1>3, <2>1, ArithmeticType, WriteOutcomeType
<1>mul. CASE exec_mul(i)
  <2>1. WriteOutcome(i, mul(x, y, fl)) /\ i.op1.value \in Register
          /\ x \in Word
    BY <1>4, <1>mul DEF exec_mul, x, y, fl
  <2> QED
    BY <1>1, <1>2, <1>3, <2>1, ArithmeticType, WriteOutcomeType
<1>div. CASE exec_div(i)
  <2>1. i.op1.value \in Register /\ x \in Word
    BY <1>4, <1>div DEF exec_div
  <2>2. CASE y = 0 /\ Fault("VM_ERR_DIV_BY_ZERO", i.next)
    BY <1>1, <2>2, FaultType DEF VmError
  <2>3. CASE y # 0 /\ WriteOutcome(i, div(x, y, fl))
    BY <1>1, <1>2, <1>3, <2>1, <2>3, DivisionType, WriteOutcomeType
  <2> QED
    BY <1>div, <2>2, <2>3 DEF exec_div, x, y, fl
<1>mod. CASE exec_mod(i)
  <2>1. i.op1.value \in Register /\ x \in Word
    BY <1>4, <1>mod DEF exec_mod
  <2>2. CASE y = 0 /\ Fault("VM_ERR_DIV_BY_ZERO", i.next)
    BY <1>1, <2>2, FaultType DEF VmError
  <2>3. CASE y # 0 /\ WriteOutcome(i, mod(x, y, fl))
    BY <1>1, <1>2, <1>3, <2>1, <2>3, DivisionType, WriteOutcomeType
  <2> QED
    BY <1>mod, <2>2, <2>3 DEF exec_mod, x, y, fl
<1>and. CASE exec_and(i)
  <2>1. WriteOutcome(i, and(x, y, fl)) /\ i.op1.value \in Register
          /\ x \in Word
    BY <1>4, <1>and DEF exec_and, x, y, fl
  <2> QED
    BY <1>1, <1>3, <2>1, LogicType, WriteOutcomeType
<1>or. CASE exec_or(i)
  <2>1. WriteOutcome(i, or(x, y, fl)) /\ i.op1.value \in Register
          /\ x \in Word
    BY <1>4, <1>or DEF exec_or, x, y, fl
  <2> QED
    BY <1>1, <1>3, <2>1, LogicType, WriteOutcomeType
<1>xor. CASE exec_xor(i)
  <2>1. WriteOutcome(i, xor(x, y, fl)) /\ i.op1.value \in Register
          /\ x \in Word
    BY <1>4, <1>xor DEF exec_xor, x, y, fl
  <2> QED
    BY <1>1, <1>3, <2>1, LogicType, WriteOutcomeType
<1>not. CASE exec_not(i)
  <2>1. WriteOutcome(i, not(x, fl)) /\ i.op1.value \in Register
          /\ x \in Word
    BY <1>4, <1>not DEF exec_not, x, fl
  <2> QED
    BY <1>1, <1>3, <2>1, LogicType, WriteOutcomeType
<1>shl. CASE exec_shl(i)
  <2>1. WriteOutcome(i, shl(x, y, fl)) /\ i.op1.value \in Register
          /\ x \in Word
    BY <1>4, <1>shl DEF exec_shl, x, y, fl
  <2> QED
    BY <1>1, <1>2, <1>3, <2>1, ShiftType, WriteOutcomeType
<1>shr. CASE exec_shr(i)
  <2>1. WriteOutcome(i, shr(x, y, fl)) /\ i.op1.value \in Register
          /\ x \in Word
    BY <1>4, <1>shr DEF exec_shr, x, y, fl
  <2> QED
    BY <1>1, <1>2, <1>3, <2>1, ShiftType, WriteOutcomeType
<1>cmp. CASE exec_cmp(i)
  <2>1. flags' \subseteq Flag
    BY <1>2, <1>3, <1>cmp, ArithmeticType DEF exec_cmp, y, fl
  <2> QED
    BY <1>1, <1>cmp, <2>1 DEF exec_cmp, VmType, Succeed, VmResult
<1>jump. CASE exec_jump(i)
  <2>1. pc' \in Word
    BY <1>1, <1>jump DEF exec_jump, IsOperand
  <2> QED
    BY <1>jump, <2>1 DEF exec_jump, VmType, Succeed, VmResult
<1>push. CASE exec_push(i)
  <2>1. CASE stack_full /\ Fault("VM_ERR_STACK_OVERFLOW", i.next)
    BY <1>1, <2>1, FaultType DEF VmError
  <2>2. CASE ~stack_full
    <3>1. sp' \in Word /\ mem' = mem_write16(mem, sp, operand_read(i.op1))
      BY <1>push, <2>2, SpMoves DEF exec_push
    <3>2. IsMemory(mem')
      BY <1>2, <1>3, <3>1, Write16Type DEF VmType
    <3> QED
      BY <1>1, <1>push, <2>2, <3>1, <3>2
         DEF exec_push, VmType, Succeed, VmResult
  <2> QED
    BY <1>push, <2>1, <2>2 DEF exec_push
<1>pop. CASE exec_pop(i)
  <2>1. CASE stack_empty /\ Fault("VM_ERR_STACK_UNDERFLOW", i.next)
    BY <1>1, <2>1, FaultType DEF VmError
  <2>2. CASE ~stack_empty
    <3> DEFINE w == mem_read16(mem, (sp + 2) % 65536)
    <3>1. sp' \in Word /\ r' = [r EXCEPT ![i.op1.value] = w]
      BY <1>pop, <2>2, SpMoves DEF exec_pop
    <3>2. w \in Word
      BY <1>3, Read16Type
    <3> HIDE DEF w
    <3>3. r' \in [Register -> Word]
      BY <3>1, <3>2 DEF VmType
    <3> QED
      BY <1>1, <1>pop, <2>2, <3>1, <3>3
         DEF exec_pop, VmType, Succeed, VmResult
  <2> QED
    BY <1>pop, <2>1, <2>2 DEF exec_pop
<1>call. CASE exec_call(i)
  <2>1. CASE stack_full /\ Fault("VM_ERR_STACK_OVERFLOW", i.next)
    BY <1>1, <2>1, FaultType DEF VmError
  <2>2. CASE ~stack_full
    <3>1. sp' \in Word /\ mem' = mem_write16(mem, sp, i.next)
      BY <1>call, <2>2, SpMoves DEF exec_call
    <3>2. IsMemory(mem')
      BY <1>1, <1>3, <3>1, Write16Type DEF VmType
    <3> QED
      BY <1>1, <1>call, <2>2, <3>1, <3>2
         DEF exec_call, VmType, Succeed, VmResult, IsOperand
  <2> QED
    BY <1>call, <2>1, <2>2 DEF exec_call
<1>ret. CASE exec_ret(i)
  <2>1. CASE stack_empty /\ Fault("VM_ERR_STACK_UNDERFLOW", i.next)
    BY <1>1, <2>1, FaultType DEF VmError
  <2>2. CASE ~stack_empty
    <3>1. sp' \in Word /\ pc' = mem_read16(mem, (sp + 2) % 65536)
      BY <1>ret, <2>2, SpMoves DEF exec_ret
    <3>2. pc' \in Word
      BY <1>3, <3>1, Read16Type
    <3> QED
      BY <1>ret, <2>2, <3>1, <3>2 DEF exec_ret, VmType, Succeed, VmResult
  <2> QED
    BY <1>ret, <2>1, <2>2 DEF exec_ret
<1>sys. CASE exec_sys(i)
  <2>0. r[0] \in Word
    BY DEF VmType, Register
  <2>1. CASE print(i, "int", Signed(r[0]))
    <3>1. IsItem([kind |-> "int", value |-> Signed(r[0])])
      BY <2>0, SignedType DEF IsItem
    <3> QED
      BY <1>1, <2>1, <3>1, PrintType
  <2>2. CASE print(i, "char", r[0] % 256)
    <3>1. r[0] % 256 \in Byte
      BY <2>0 DEF Word, Byte
    <3>2. IsItem([kind |-> "char", value |-> r[0] % 256])
      BY <3>1 DEF IsItem
    <3> QED
      BY <1>1, <2>2, <3>2, PrintType
  <2>3. CASE /\ \E v \in InputWords : r' = [r EXCEPT ![0] = v]
             /\ pc' = i.next
             /\ Succeed
             /\ UNCHANGED <<sp, flags, mem, stdout>>
    <3>1. r' \in [Register -> Word]
      BY <2>3, InputAssumption DEF VmType
    <3> QED
      BY <1>1, <2>3, <3>1 DEF VmType, Succeed, VmResult
  <2>4. CASE Halt(i)
    BY <1>1, <2>4, HaltType
  <2>5. CASE Fault("VM_ERR_INVALID_SYSCALL", i.next)
    BY <1>1, <2>5, FaultType DEF VmError
  <2> QED
    BY <1>sys, <2>1, <2>2, <2>3, <2>4, <2>5 DEF exec_sys
<1>halt. CASE exec_halt(i)
  BY <1>1, <1>halt, HaltType DEF exec_halt
<1> QED
  BY <1>nop, <1>mov, <1>load, <1>store, <1>add, <1>sub, <1>mul, <1>div,
     <1>mod, <1>and, <1>or, <1>xor, <1>not, <1>shl, <1>shr, <1>cmp, <1>jump,
     <1>push, <1>pop, <1>call, <1>ret, <1>sys, <1>halt
     DEF instruction_execute

-----------------------------------------------------------------------------
\* What a handler does to the stack pointer and to the error record.

\* Only PUSH, CALL, POP and RET move SP.
LEMMA SpFrame ==
  ASSUME NEW i, instruction_execute(i)
  PROVE  \/ sp' = sp
         \/ ~stack_full /\ sp' = (sp - 2) % 65536
         \/ ~stack_empty /\ sp' = (sp + 2) % 65536
  BY DEF instruction_execute, WriteOutcome, Fault, Halt, print, exec_nop,
         exec_mov, exec_load, exec_store, exec_add, exec_sub, exec_mul,
         exec_div, exec_mod, exec_and, exec_or, exec_xor, exec_not, exec_shl,
         exec_shr, exec_cmp, exec_jump, exec_push, exec_pop, exec_call,
         exec_ret, exec_sys, exec_halt

\* A handler fails for one of four reasons, or leaves the record alone.
LEMMA FaultOrSucceed ==
  ASSUME NEW i, instruction_execute(i)
  PROVE  \/ /\ result' = "VM_OK"
            /\ UNCHANGED last_error
         \/ /\ i.opcode \in {OP_DIV, OP_MOD} /\ operand_read(i.op2) = 0
            /\ Fault("VM_ERR_DIV_BY_ZERO", i.next)
         \/ /\ i.opcode \in {OP_PUSH, OP_CALL} /\ stack_full
            /\ Fault("VM_ERR_STACK_OVERFLOW", i.next)
         \/ /\ i.opcode \in {OP_POP, OP_RET} /\ stack_empty
            /\ Fault("VM_ERR_STACK_UNDERFLOW", i.next)
         \/ /\ i.opcode = OP_SYS /\ i.op1.value \notin 1 .. 4
            /\ Fault("VM_ERR_INVALID_SYSCALL", i.next)
  BY DEF instruction_execute, WriteOutcome, Succeed, Halt, print, exec_nop,
         exec_mov, exec_load, exec_store, exec_add, exec_sub, exec_mul,
         exec_div, exec_mod, exec_and, exec_or, exec_xor, exec_not, exec_shl,
         exec_shr, exec_cmp, exec_jump, exec_push, exec_pop, exec_call,
         exec_ret, exec_sys, exec_halt

\* A call of vm_step: types, stack and record.
LEMMA StepInv ==
  ASSUME VmType, StackInv, ErrorInv, vm_step
  PROVE  /\ VmType' /\ StackInv' /\ ErrorInv'
         /\ stack_limit' = stack_limit
         /\ result' = last_error'
<1>1. CASE /\ halted
           /\ result' = last_error
           /\ UNCHANGED vm
  BY <1>1 DEF vm, VmType, StackInv, ErrorInv, VmResult
<1>2. CASE /\ ~halted
           /\ fetched.result # "VM_OK"
           /\ Fault(fetched.result, fetched.next)
           /\ UNCHANGED stack_limit
  <2>1. fetched.result \in VmError /\ fetched.next \in Word
    BY <1>2, FetchedType DEF VmError
  <2>2. VmType'
    BY <1>2, <2>1, FaultType
  <2> QED
    BY <1>2, <2>2 DEF Fault, StackInv, ErrorInv
<1>3. CASE /\ ~halted
           /\ fetched.result = "VM_OK"
           /\ instruction_execute(fetched)
           /\ UNCHANGED stack_limit
  <2> DEFINE i == fetched
  <2>1. IsInstruction(i)
    BY <1>3, FetchedType
  <2> HIDE DEF i
  <2>2. instruction_execute(i) /\ UNCHANGED stack_limit
    BY <1>3 DEF i
  <2>3. VmType'
    BY <2>1, <2>2, ExecuteType
  <2>4. \/ sp' = sp
        \/ ~stack_full /\ sp' = (sp - 2) % 65536
        \/ ~stack_empty /\ sp' = (sp + 2) % 65536
    BY <2>2, SpFrame
  <2>5. StackInv'
    BY <2>2, <2>4, SpMoves DEF StackInv
  <2>6. ErrorInv' /\ result' = last_error'
    <3>1. last_error = "VM_OK"
      BY <1>3 DEF ErrorInv
    <3>2. \/ result' = "VM_OK" /\ last_error' = last_error
          \/ halted' = TRUE /\ last_error' = result'
      BY <2>2, FaultOrSucceed DEF Fault
    <3> QED
      BY <3>1, <3>2 DEF ErrorInv
  <2> QED
    BY <2>2, <2>3, <2>5, <2>6
<1> QED
  BY <1>1, <1>2, <1>3 DEF vm_step

-----------------------------------------------------------------------------
\* An accepted load.
LEMMA LimitType ==
  ASSUME NEW img, IsImage(img)
  PROVE  limit_of(img) \in Word
  BY DEF IsImage, limit_of, code_end, data_end, Word

LEMMA LoadInv ==
  ASSUME IInv, NEW img \in Images, Load(img)
  PROVE  IInv'
<1>0. IsImage(img)
  BY ImagesAssumption
<1>1. CASE load_accepted(img)
  <2>1. IsMemory(mem')
    BY <1>0, <1>1, LoadedMemoryType DEF load_accepted
  <2>2. stack_limit' \in Word /\ pc' \in Word
    BY <1>0, <1>1, LimitType DEF load_accepted, IsImage
  <2>3. r' \in [Register -> Word] /\ sp' \in Word /\ error_pc' \in Word
    BY <1>1 DEF load_accepted, CPU_INITIAL_SP, Word
  <2>4. VmType'
    BY <1>1, <2>1, <2>2, <2>3 DEF IInv, VmType, load_accepted, VmResult
  <2>5. StackInv' /\ ErrorInv'
    BY <1>1 DEF load_accepted, StackInv, ErrorInv, CPU_INITIAL_SP
  <2>6. header_ok(img) /\ image' = img /\ booted'
    BY <1>1 DEF load_accepted, Load
  <2>7. LimitInv'
    BY <1>1, <2>6 DEF load_accepted, LimitInv
  <2>8. HostType'
    BY <2>6 DEF IInv, HostType, Load
  <2> QED
    BY <2>4, <2>5, <2>7, <2>8 DEF IInv
<1>2. CASE load_rejected(img)
  <2>1. ~header_ok(img) /\ image' = image /\ booted' = booted
    BY <1>2 DEF load_rejected, Load, IInv, HostType
  <2>2. VmType' /\ StackInv' /\ ErrorInv'
    BY <1>2 DEF load_rejected, vm, IInv, VmType, StackInv, ErrorInv, VmResult
  <2>3. LimitInv'
    BY <1>2, <2>1 DEF load_rejected, vm, IInv, LimitInv
  <2>4. HostType'
    BY <2>1 DEF IInv, HostType, Load
  <2> QED
    BY <2>2, <2>3, <2>4 DEF IInv
<1> QED
  BY <1>1, <1>2 DEF Load, vm_load

LEMMA InitInv == Init => IInv
<1> SUFFICES ASSUME Init PROVE IInv
  OBVIOUS
<1>1. IsMemory(mem)
  BY DEF Init, vm_init, mem_init, IsMemory
<1>2. r \in [Register -> Word] /\ pc \in Word /\ sp \in Word
        /\ error_pc \in Word /\ stack_limit \in Word
  BY DEF Init, vm_init, cpu_init, CPU_INITIAL_SP, Word
<1>3. IsItem(stdout)
  BY DEF Init, vm_init, NothingPrinted, IsItem
<1>4. VmType
  BY <1>1, <1>2, <1>3 DEF Init, vm_init, cpu_init, VmType, VmResult
<1>5. StackInv
  BY DEF Init, vm_init, cpu_init, StackInv, CPU_INITIAL_SP
<1>6. ErrorInv /\ LimitInv /\ HostType
  BY Zenon DEF Init, vm_init, ErrorInv, LimitInv, HostType
<1> QED
  BY <1>4, <1>5, <1>6 DEF IInv

LEMMA NextInv == IInv /\ [Next]_vars => IInv'
<1> SUFFICES ASSUME IInv, [Next]_vars PROVE IInv'
  OBVIOUS
<1>1. ASSUME NEW img \in Offered, Load(img)
      PROVE  IInv'
  <2>1. img \in Images
    BY SwappedAssumption DEF Offered, IInv, HostType
  <2> QED
    BY <1>1, <2>1, LoadInv
<1>2. CASE Step
  <2>1. VmType' /\ StackInv' /\ ErrorInv' /\ stack_limit' = stack_limit
    BY <1>2, StepInv DEF Step, IInv
  <2>2. LimitInv' /\ HostType'
    BY <1>2, <2>1 DEF Step, IInv, LimitInv, HostType
  <2> QED
    BY <2>1, <2>2 DEF IInv
<1>3. CASE UNCHANGED vars
  BY <1>3 DEF vars, IInv, VmType, HostType, StackInv, LimitInv, ErrorInv
<1> QED
  BY <1>1, <1>2, <1>3 DEF Next

\* IInv is an invariant of the machine.
THEOREM Invariant == Spec => []IInv
  BY InitInv, NextInv, PTL DEF Spec

\* Registers, SP, PC and every memory cell stay in their C types whatever
\* program runs (vm.h, cpu.h, memory.h).
THEOREM TypeCorrect == Spec => []TypeOK
<1>1. IInv => TypeOK
  BY DEF IInv, VmType, HostType, TypeOK
<1> QED
  BY <1>1, Invariant, PTL

-----------------------------------------------------------------------------
\* Every byte of the image lies below every slot at or above the limit: the
\* clamped limit 0xFFFF is odd, so no even SP is at or above it.
LEMMA ProgramBelowSlot ==
  ASSUME VmType, HostType, LimitInv, booted,
         NEW s \in Word, s % 2 = 0, s >= stack_limit,
         NEW a \in ProgramRegion(image)
  PROVE  a \in Int /\ a < s
<1> DEFINE ce == code_end(image)
           de == data_end(image)
<1>1. IsImage(image)
  BY ImagesAssumption DEF HostType
<1>2. ce \in Nat /\ de \in Nat
  BY <1>1 DEF IsImage, code_end, data_end, Word
<1>3. stack_limit = LET limit == IF ce > de THEN ce ELSE de
                    IN  IF limit > 65535 THEN 65535 ELSE limit
  BY DEF LimitInv, limit_of
<1>4. a \in Int /\ (a < ce \/ a < de)
  BY <1>1, <1>2 DEF ProgramRegion, CodeRegion, DataRegion, IsImage, Word
<1> HIDE DEF ce, de
<1> QED
  BY <1>2, <1>3, <1>4 DEF Word

\* The stack never touches the program: SP is even and, once anything is on
\* the stack, above every byte of code and data (vm.c: exec_push, exec_call;
\* loader.c: the stack limit).
THEOREM StackSafe == Spec => []StackAboveProgram
<1>1. IInv => StackAboveProgram
  <2> SUFFICES ASSUME IInv PROVE StackAboveProgram
    OBVIOUS
  <2>1. sp % 2 = 0 /\ sp \in Word
    BY DEF IInv, StackInv, VmType
  <2>2. ASSUME booted, sp # CPU_INITIAL_SP, NEW a \in ProgramRegion(image)
        PROVE  a < sp
    BY <2>1, <2>2, ProgramBelowSlot DEF IInv, StackInv
  <2> QED
    BY <2>1, <2>2 DEF StackAboveProgram
<1> QED
  BY <1>1, Invariant, PTL

\* A decoded instruction's opcode is the byte at the PC.
LEMMA OpcodeIsFetchedByte ==
  ASSUME NEW m, NEW x, instruction_decode(m, x).result = "VM_OK"
  PROVE  instruction_decode(m, x).opcode = mem_read8(m, x)
  BY DEF instruction_decode, decode_failed

\* Only STORE, PUSH and CALL write memory.
LEMMA MemFrame ==
  ASSUME NEW i, instruction_execute(i)
  PROVE  \/ mem' = mem
         \/ i.opcode = OP_STORE
         \/ ~stack_full /\ \E v : mem' = mem_write16(mem, sp, v)
  BY DEF instruction_execute, WriteOutcome, Fault, Halt, print, exec_nop,
         exec_mov, exec_load, exec_store, exec_add, exec_sub, exec_mul,
         exec_div, exec_mod, exec_and, exec_or, exec_xor, exec_not, exec_shl,
         exec_shr, exec_cmp, exec_jump, exec_push, exec_pop, exec_call,
         exec_ret, exec_sys, exec_halt

\* The bytes of the loaded program change only by a STORE or an accepted
\* load: no PUSH or CALL reaches them (vm.c: exec_push, exec_call,
\* exec_store), and a refused load leaves them whole (loader.c: vm_load).
THEOREM ProgramSafe == Spec => ProgramChangesOnlyByStore
<1> DEFINE Same(a) == \/ ~booted
                      \/ mem_read8(mem', a) = mem_read8(mem, a)
                      \/ last_call' = "vm_step" /\ mem_read8(mem, pc) = OP_STORE
                      \/ last_call' = "vm_load" /\ result' = "VM_OK"
           Q == \A a \in ProgramRegion(image) : Same(a)
<1>1. IInv /\ [Next]_vars => [Q]_vars
  <2> SUFFICES ASSUME IInv, Next PROVE Q
    OBVIOUS
  <2>1. ASSUME NEW img \in Offered, Load(img)
        PROVE  Q
    <3>1. CASE load_accepted(img)
      BY <2>1, <3>1 DEF Load, load_accepted
    <3>2. CASE load_rejected(img)
      BY <3>2 DEF load_rejected, vm
    <3> QED
      BY <2>1, <3>1, <3>2 DEF Load, vm_load
  <2>2. CASE Step
    <3>1. last_call' = "vm_step"
      BY <2>2 DEF Step
    <3> SUFFICES ASSUME booted, mem_read8(mem, pc) # OP_STORE,
                        NEW a \in ProgramRegion(image)
                 PROVE  mem_read8(mem', a) = mem_read8(mem, a)
      BY <3>1
    <3>2. CASE mem' = mem
      BY <3>2
    <3>3. CASE /\ ~halted
               /\ fetched.result = "VM_OK"
               /\ instruction_execute(fetched)
      <4>1. fetched.opcode # OP_STORE
        BY <3>3, OpcodeIsFetchedByte DEF fetched
      <4>2. CASE ~stack_full /\ \E v : mem' = mem_write16(mem, sp, v)
        <5>1. PICK v : mem' = mem_write16(mem, sp, v)
          BY <4>2
        <5>2. /\ sp - 2 \in Word /\ (sp - 2) % 2 = 0 /\ sp - 2 >= stack_limit
              /\ sp \in Word /\ sp % 2 = 0
          BY <4>2, SpMoves DEF IInv, VmType, StackInv
        <5>3. a \in Int /\ a < sp - 2
          BY <5>2, ProgramBelowSlot DEF IInv
        <5>4. a # sp /\ a # (sp + 1) % 65536
          BY <5>2, <5>3 DEF Word
        <5> QED
          BY <5>1, <5>4, Read8Write16
      <4> QED
        BY <3>2, <3>3, <4>1, <4>2, MemFrame
    <3> QED
      BY <2>2, <3>2, <3>3 DEF Step, vm_step, vm, Fault
  <2> QED
    BY <2>1, <2>2 DEF Next
<1> QED
  BY <1>1, Invariant, PTL DEF Spec, ProgramChangesOnlyByStore

-----------------------------------------------------------------------------
\* vm_step returns exactly the error the machine records, after every call
\* and whatever was loaded before (vm.c: vm_step; loader.c: vm_load).
THEOREM StepResult == Spec => []StepReturnsLastError
<1>1. Init => StepReturnsLastError
  BY DEF Init, StepReturnsLastError
<1>2. IInv /\ StepReturnsLastError /\ [Next]_vars => StepReturnsLastError'
  <2> SUFFICES ASSUME IInv, StepReturnsLastError, [Next]_vars
               PROVE  StepReturnsLastError'
    OBVIOUS
  <2>1. CASE \E img \in Offered : Load(img)
    BY <2>1 DEF Load, StepReturnsLastError
  <2>2. CASE Step
    BY <2>2, StepInv DEF Step, IInv, StepReturnsLastError
  <2>3. CASE UNCHANGED vars
    BY <2>3 DEF vars, StepReturnsLastError
  <2> QED
    BY <2>1, <2>2, <2>3 DEF Next
<1> QED
  BY <1>1, <1>2, Invariant, PTL DEF Spec

\* PUSH and CALL refuse exactly when the stack holds all it can.
LEMMA FullIsCapacity ==
  ASSUME VmType, StackInv
  PROVE  stack_full <=> depth = stack_capacity
<1>1. sp \in Nat /\ sp < 65536 /\ stack_limit \in Nat /\ stack_limit < 65536
  BY DEF VmType, Word
<1>2. sp % 2 = 0 /\ (sp = 65534 \/ sp >= stack_limit)
  BY DEF StackInv, CPU_INITIAL_SP
<1>3. PICK k \in Nat : sp = 2 * k
  BY <1>1, <1>2
<1>4. depth = 32767 - k
  BY <1>1, <1>3 DEF depth, CPU_INITIAL_SP
<1>5. stack_full <=> sp < 2 \/ sp - 2 < stack_limit
  BY <1>1 DEF stack_full
<1>6. CASE stack_limit > 65534
  BY <1>1, <1>2, <1>3, <1>4, <1>5, <1>6 DEF stack_capacity, CPU_INITIAL_SP
<1>7. CASE ~(stack_limit > 65534)
  <2>1. stack_capacity = (65534 - stack_limit) \div 2
    BY <1>7 DEF stack_capacity, CPU_INITIAL_SP
  <2> QED
    BY <1>1, <1>2, <1>3, <1>4, <1>5, <1>7, <2>1
<1> QED
  BY <1>6, <1>7

\* A recorded error explains itself from the state it left behind: decoding
\* at error_pc gives it again, or an instruction that must fail with it
\* (vm.c: vm_step and the handlers' early returns).
THEOREM FaultsExplained == Spec => []FaultExplained
<1>1. Init => FaultExplained
  BY DEF Init, vm_init, FaultExplained
<1>2. IInv /\ FaultExplained /\ [Next]_vars => FaultExplained'
  <2> SUFFICES ASSUME IInv, FaultExplained, [Next]_vars
               PROVE  FaultExplained'
    OBVIOUS
  <2>0. VmType /\ StackInv /\ ErrorInv
    BY DEF IInv
  <2>1. CASE UNCHANGED vm
    BY <2>1 DEF vm, FaultExplained, Explains, operand_read, depth,
                stack_capacity
  <2>2. ASSUME NEW img, load_accepted(img)
        PROVE  FaultExplained'
    BY <2>2 DEF load_accepted, FaultExplained
  <2>3. CASE /\ ~halted
             /\ fetched.result # "VM_OK"
             /\ Fault(fetched.result, fetched.next)
    <3>1. fetched.next = pc
      BY <2>3 DEF fetched, instruction_decode, decode_failed
    <3> QED
      BY <2>3, <3>1 DEF Fault, FaultExplained, fetched
  <2>4. CASE /\ ~halted
             /\ fetched.result = "VM_OK"
             /\ instruction_execute(fetched)
             /\ UNCHANGED stack_limit
    <3>1. last_error = "VM_OK"
      BY <2>0, <2>4 DEF ErrorInv
    <3>2. CASE last_error' = last_error
      BY <3>1, <3>2 DEF FaultExplained
    <3>3. ASSUME NEW e \in VmError, Fault(e, fetched.next),
                 Explains(e, fetched)
          PROVE  FaultExplained'
      <4>1. /\ pc' = fetched.next /\ halted' = TRUE /\ last_error' = e
            /\ error_pc' = pc
            /\ UNCHANGED <<r, sp, mem, stack_limit>>
        BY <2>4, <3>3 DEF Fault
      <4>2. instruction_decode(mem', error_pc') = fetched
        BY <4>1 DEF fetched
      <4> QED
        BY <2>4, <3>3, <4>1, <4>2
           DEF FaultExplained, Explains, operand_read, depth, stack_capacity
    <3>4. \/ last_error' = last_error
          \/ \E e \in VmError : Fault(e, fetched.next) /\ Explains(e, fetched)
      <4> DEFINE i == fetched
      <4>1. stack_full => depth = stack_capacity
        BY <2>0, FullIsCapacity
      <4>2. stack_empty => depth = 0
        BY DEF stack_empty, depth, CPU_INITIAL_SP
      <4>3. instruction_execute(i)
        BY <2>4
      <4> HIDE DEF i
      <4>4. \/ last_error' = last_error
            \/ \E e \in VmError : Fault(e, i.next) /\ Explains(e, i)
        BY <4>1, <4>2, <4>3, FaultOrSucceed DEF Explains, VmError
      <4> QED
        BY <4>4 DEF i
    <3> QED
      BY <3>2, <3>3, <3>4
  <2> QED
    BY <2>1, <2>2, <2>3, <2>4
       DEF Next, Load, vm_load, load_rejected, Step, vm_step, vm, vars
<1> QED
  BY <1>1, <1>2, Invariant, PTL DEF Spec

-----------------------------------------------------------------------------
\* An accepted load makes the machine a function of the image: its bytes in
\* place, nothing else in memory, the CPU reset and the stack kept above
\* both regions, whatever ran before (loader.c: vm_load).
THEOREM LoadExact == Spec => []LoadedExactly
<1>1. Init => LoadedExactly
  BY DEF Init, LoadedExactly
<1>2. IInv /\ LoadedExactly /\ [Next]_vars => LoadedExactly'
  <2> SUFFICES ASSUME IInv, LoadedExactly, [Next]_vars
               PROVE  LoadedExactly'
    OBVIOUS
  <2>1. ASSUME NEW img \in Offered, Load(img), load_accepted(img)
        PROVE  LoadedExactly'
    <3>1. IsImage(img) /\ header_ok(img) /\ image' = img
      BY <2>1, ImagesAssumption, SwappedAssumption
         DEF Offered, IInv, HostType, Load, load_accepted
    <3>2. /\ mem' = loaded_memory(img) /\ stack_limit' = limit_of(img)
          /\ pc' = img.entry_point /\ sp' = CPU_INITIAL_SP /\ flags' = {}
          /\ r' = [x \in Register |-> 0]
          /\ halted' = FALSE /\ last_error' = "VM_OK"
      BY <2>1 DEF load_accepted
    <3>3. ASSUME NEW a \in ProgramRegion(img)
          PROVE  /\ a \in Word
                 /\ a < limit_of(img) \/ limit_of(img) = 65535
      <4> DEFINE ce == code_end(img)
                 de == data_end(img)
      <4>1. ce \in Nat /\ de \in Nat /\ ce <= 65536 /\ de <= 65536
        BY <3>1, AcceptedShape DEF code_end, data_end, Word
      <4>2. a \in Nat /\ (a < ce \/ a < de)
        BY <3>1, <3>3, <4>1, AcceptedShape
           DEF ProgramRegion, CodeRegion, DataRegion, Word
      <4>3. limit_of(img) = LET limit == IF ce > de THEN ce ELSE de
                            IN  IF limit > 65535 THEN 65535 ELSE limit
        BY DEF limit_of
      <4> HIDE DEF ce, de
      <4> QED
        BY <4>1, <4>2, <4>3 DEF Word
    <3>4. img.entry_point \in CodeRegion(img)
      <4> DEFINE ep == img.entry_point
                 ca == img.code_addr
                 ce == code_end(img)
      <4>1. ep \in Nat /\ ca \in Nat /\ ce \in Nat
        BY <3>1, AcceptedShape DEF IsImage, code_end, Word
      <4>2. ep >= ca /\ ep < ce
        BY <3>1 DEF header_ok
      <4> HIDE DEF ep, ca, ce
      <4>3. ep \in ca .. ce - 1
        BY <4>1, <4>2
      <4> QED
        BY <4>3 DEF CodeRegion, ep, ca, ce
    <3>5. /\ \A k \in 1 .. img.code_size :
                mem_read8(mem', img.code_addr + k - 1) = img.body[k]
          /\ \A k \in 1 .. img.data_size :
                mem_read8(mem', img.data_addr + k - 1)
                  = img.body[img.code_size + k]
          /\ DOMAIN mem' \subseteq ProgramRegion(img) \cap Word
      BY <3>1, <3>2, <3>3, LoadedContents
         DEF ProgramRegion, CodeRegion, DataRegion
    <3>6. \A a \in ProgramRegion(img) :
             a < stack_limit' \/ stack_limit' = 65535
      BY <3>2, <3>3
    <3> QED
      BY <3>1, <3>2, <3>4, <3>5, <3>6 DEF LoadedExactly
  <2>2. ASSUME NEW img, load_rejected(img)
        PROVE  LoadedExactly'
    BY <2>2 DEF load_rejected, LoadedExactly
  <2>3. CASE Step
    BY <2>3 DEF Step, LoadedExactly
  <2>4. CASE UNCHANGED vars
    BY <2>4 DEF vars, LoadedExactly, ProgramRegion, CodeRegion, DataRegion,
                code_end, data_end
  <2> QED
    BY <2>1, <2>2, <2>3, <2>4 DEF Next, Load, vm_load
<1> QED
  BY <1>1, <1>2, Invariant, PTL DEF Spec

-----------------------------------------------------------------------------
\* The stack.

\* SP counts the words on the stack.
LEMMA DepthOfSp ==
  ASSUME NEW s \in Word, s % 2 = 0, s <= CPU_INITIAL_SP
  PROVE  /\ (CPU_INITIAL_SP - s) \div 2 \in Nat
         /\ (CPU_INITIAL_SP - s) \div 2 < 32768
         /\ s = 65534 - 2 * ((CPU_INITIAL_SP - s) \div 2)
<1>1. PICK k \in Nat : s = 2 * k
  BY DEF Word
<1> QED
  BY <1>1 DEF CPU_INITIAL_SP, Word

LEMMA DepthType ==
  ASSUME VmType, StackInv
  PROVE  depth \in Nat /\ depth < 32768 /\ sp = 65534 - 2 * depth
<1>1. sp \in Word /\ sp % 2 = 0 /\ sp <= CPU_INITIAL_SP
  BY DEF VmType, StackInv, CPU_INITIAL_SP, Word
<1> QED
  BY <1>1, DepthOfSp DEF depth

\* The live stack and the word on top of it.
LEMMA LiveStack ==
  ASSUME VmType, StackInv
  PROVE  /\ live_stack = SlotWords(mem, depth)
         /\ live_stack \in Seq(Word) /\ Len(live_stack) = depth
         /\ \A k \in 1 .. depth :
               live_stack[k] = mem_read16(mem, 65536 - 2 * k)
<1>1. depth \in Nat /\ IsMemory(mem)
  BY DepthType DEF VmType
<1>2. live_stack = SlotWords(mem, depth)
  BY DEF live_stack, SlotWords
<1> QED
  BY <1>1, <1>2, SlotWordsType

\* What a handler does to SP and to memory, instruction by instruction.
LEMMA StackEffect ==
  ASSUME NEW i, instruction_execute(i)
  PROVE  \/ sp' = sp /\ mem' = mem
         \/ /\ i.opcode = OP_STORE /\ sp' = sp
            /\ mem' = mem_write16(mem, operand_effective_address(i.op1),
                                  r[i.op2.value])
         \/ /\ ~stack_full /\ sp' = (sp - 2) % 65536
            /\ mem' = mem_write16(mem, sp, IF i.opcode = OP_PUSH
                                           THEN operand_read(i.op1)
                                           ELSE i.next)
         \/ /\ ~stack_empty /\ sp' = (sp + 2) % 65536 /\ mem' = mem
            /\ \/ /\ i.opcode = OP_POP
                  /\ r' = [r EXCEPT ![i.op1.value]
                               = mem_read16(mem, (sp + 2) % 65536)]
               \/ /\ i.opcode = OP_RET
                  /\ pc' = mem_read16(mem, (sp + 2) % 65536)
  BY DEF instruction_execute, WriteOutcome, Fault, Halt, print, exec_nop,
         exec_mov, exec_load, exec_store, exec_add, exec_sub, exec_mul,
         exec_div, exec_mod, exec_and, exec_or, exec_xor, exec_not, exec_shl,
         exec_shr, exec_cmp, exec_jump, exec_push, exec_pop, exec_call,
         exec_ret, exec_sys, exec_halt

\* The word that leaves the stack is the one that was on top, in POP's
\* register or in the PC (vm.c: exec_pop, exec_ret).
THEOREM PopsDeliver == Spec => PopDeliversTop
<1> DEFINE Q == last_call' = "vm_step" /\ depth' = depth - 1 =>
                  \/ fetched.opcode = OP_RET /\ pc' = live_stack[depth]
                  \/ fetched.opcode = OP_POP /\ r'[fetched.op1.value]
                                                  = live_stack[depth]
<1>1. IInv /\ [Next]_vars => [Q]_vars
  <2> SUFFICES ASSUME IInv, Next, last_call' = "vm_step", depth' = depth - 1
               PROVE  \/ fetched.opcode = OP_RET /\ pc' = live_stack[depth]
                      \/ fetched.opcode = OP_POP /\ r'[fetched.op1.value]
                                                      = live_stack[depth]
    OBVIOUS
  <2>1. VmType /\ StackInv
    BY DEF IInv
  <2>2. depth \in Nat /\ depth < 32768 /\ sp = 65534 - 2 * depth
    BY <2>1, DepthType
  <2>3. sp' # sp
    BY <2>2 DEF depth
  <2>4. /\ fetched.result = "VM_OK"
        /\ instruction_execute(fetched)
    BY <2>3 DEF Next, Load, Step, vm_step, vm, Fault
  <2> DEFINE i == fetched
  <2>5. IsInstruction(i) /\ instruction_execute(i)
    BY <2>1, <2>4, FetchedType
  <2> HIDE DEF i
  <2>6. CASE ~stack_full /\ sp' = (sp - 2) % 65536
    <3>1. sp' = sp - 2 /\ sp - 2 \in Word
      BY <2>1, <2>6, SpMoves
    <3> QED
      BY <2>2, <3>1 DEF depth, CPU_INITIAL_SP, Word
  <2>7. CASE ~stack_empty
    <3>1. (sp + 2) % 65536 = sp + 2 /\ sp + 2 \in Word
      BY <2>1, <2>7, SpMoves
    <3>2. depth \in 1 .. depth /\ sp + 2 = 65536 - 2 * depth
      BY <2>2, <2>7 DEF stack_empty, CPU_INITIAL_SP
    <3>3. live_stack[depth] = mem_read16(mem, 65536 - 2 * depth)
      BY <2>1, <3>2, LiveStack
    <3>4. live_stack[depth] = mem_read16(mem, (sp + 2) % 65536)
      BY <3>1, <3>2, <3>3
    <3> DEFINE w == mem_read16(mem, (sp + 2) % 65536)
               top == live_stack[depth]
    <3> HIDE DEF w, top
    <3>5. top = w
      BY <3>4 DEF w, top
    <3>6. i.opcode = OP_POP /\ r' = [r EXCEPT ![i.op1.value] = w] =>
            r'[i.op1.value] = w
      <4>1. i.opcode = OP_POP => i.op1.value \in Register
        BY <2>5, TargetType
      <4> QED
        BY <2>1, <4>1 DEF VmType
    <3>7. \/ i.opcode = OP_POP /\ r' = [r EXCEPT ![i.op1.value] = w]
          \/ i.opcode = OP_RET /\ pc' = w
          \/ sp' = (sp - 2) % 65536 /\ ~stack_full
      BY <2>3, <2>5, StackEffect DEF w
    <3>8. \/ i.opcode = OP_RET /\ pc' = top
          \/ i.opcode = OP_POP /\ r'[i.op1.value] = top
          \/ sp' = (sp - 2) % 65536 /\ ~stack_full
      BY <3>5, <3>6, <3>7
    <3> QED
      BY <2>6, <3>8 DEF top, i
  <2> QED
    BY <2>3, <2>5, <2>6, <2>7, SpFrame
<1> QED
  BY <1>1, Invariant, PTL DEF Spec, PopDeliversTop

-----------------------------------------------------------------------------
\* The refinement of StackMachine, case by case.

LEMMA CapacityType ==
  ASSUME NEW lim \in Word
  PROVE  (IF lim > CPU_INITIAL_SP THEN 0 ELSE (CPU_INITIAL_SP - lim) \div 2)
           \in Stack!Capacity
  BY DEF Word, CPU_INITIAL_SP, Stack!Capacity

\* The live stack after a step, from the memory and SP it leaves.
LEMMA NextLiveStack ==
  ASSUME VmType', NEW n \in Nat, depth' = n
  PROVE  /\ live_stack' \in Seq(Word) /\ Len(live_stack') = n
         /\ \A k \in 1 .. n :
               live_stack'[k] = mem_read16(mem', 65536 - 2 * k)
<1>1. live_stack' = SlotWords(mem', n)
  BY DEF live_stack, SlotWords
<1>2. IsMemory(mem')
  BY DEF VmType
<1> QED
  BY <1>1, <1>2, SlotWordsType

\* A push puts the offered word on top.
LEMMA PushRefines ==
  ASSUME VmType, StackInv, VmType', ~stack_full, sp' = (sp - 2) % 65536,
         NEW w \in Word, mem' = mem_write16(mem, sp, w), w = offered,
         UNCHANGED stack_limit
  PROVE  Stack!Push
<1>1. depth \in Nat /\ depth < 32768 /\ sp = 65534 - 2 * depth
  BY DepthType
<1>2. sp' = sp - 2 /\ sp - 2 \in Word /\ sp - 2 >= stack_limit
  BY SpMoves
<1>3. depth' = depth + 1 /\ depth + 1 < 32768
  BY <1>1, <1>2 DEF depth, CPU_INITIAL_SP, Word
<1>4. depth < stack_capacity /\ UNCHANGED stack_capacity
  <2>1. stack_limit \in Nat /\ stack_limit <= 65534 - 2 * (depth + 1)
    BY <1>1, <1>2 DEF VmType, Word
  <2>2. stack_capacity = (65534 - stack_limit) \div 2
    BY <1>1, <2>1 DEF stack_capacity, CPU_INITIAL_SP
  <2> QED
    BY <1>1, <2>1, <2>2 DEF stack_capacity
<1> DEFINE d == depth
           s == live_stack
           t == live_stack'
<1>5. /\ s \in Seq(Word) /\ Len(s) = d
      /\ \A k \in 1 .. d : s[k] = mem_read16(mem, 65536 - 2 * k)
  BY LiveStack
<1>6. /\ t \in Seq(Word) /\ Len(t) = d + 1
      /\ \A k \in 1 .. d + 1 : t[k] = mem_read16(mem', 65536 - 2 * k)
  BY <1>1, <1>3, NextLiveStack
<1>7. sp \in Word /\ sp = 65536 - 2 * (d + 1)
  BY <1>1 DEF VmType
<1>8. d \in Nat /\ d + 1 < 32768
  BY <1>1, <1>3
<1> HIDE DEF d, s, t
<1>9. t[d + 1] = w
  <2>1. mem_read16(mem', sp) = w
    BY <1>7, Read16Write16
  <2> QED
    BY <1>6, <1>7, <1>8, <2>1
<1>10. ASSUME NEW k \in 1 .. d
       PROVE  t[k] = s[k]
  <2>1. k \in Nat /\ k > 0 /\ k < 32768 /\ k \in 1 .. d + 1
          /\ k # (65536 - sp) \div 2 /\ k # (65536 - sp) \div 2 + 1
    BY <1>7, <1>8
  <2>2. mem_read16(mem', 65536 - 2 * k) = mem_read16(mem, 65536 - 2 * k)
    BY <1>7, <2>1, SlotsTouched
  <2> QED
    BY <1>5, <1>6, <2>1, <2>2
<1>11. t = Append(s, w)
  BY <1>5, <1>6, <1>8, <1>9, <1>10
<1> QED
  BY <1>4, <1>5, <1>11 DEF Stack!Push, s, t, d

\* A pop takes the top word off.
LEMMA PopRefines ==
  ASSUME VmType, StackInv, VmType', ~stack_empty, sp' = (sp + 2) % 65536,
         mem' = mem, UNCHANGED stack_limit
  PROVE  Stack!Pop
<1>1. depth \in Nat /\ depth < 32768 /\ sp = 65534 - 2 * depth
  BY DepthType
<1>2. sp' = sp + 2 /\ depth # 0
  BY <1>1, SpMoves DEF stack_empty, CPU_INITIAL_SP
<1>3. depth' = depth - 1 /\ depth - 1 \in Nat
  BY <1>1, <1>2 DEF depth, CPU_INITIAL_SP
<1> DEFINE d == depth
           s == live_stack
           t == live_stack'
<1>4. /\ s \in Seq(Word) /\ Len(s) = d
      /\ \A k \in 1 .. d : s[k] = mem_read16(mem, 65536 - 2 * k)
  BY LiveStack
<1>5. /\ t \in Seq(Word) /\ Len(t) = d - 1
      /\ \A k \in 1 .. d - 1 : t[k] = mem_read16(mem, 65536 - 2 * k)
  BY <1>3, NextLiveStack
<1>6. d \in Nat /\ d - 1 \in Nat
  BY <1>1, <1>3
<1> HIDE DEF d, s, t
<1>7. s # <<>> /\ \A k \in 1 .. d - 1 : t[k] = s[k]
  BY <1>4, <1>5, <1>6
<1>8. t = SubSeq(s, 1, Len(s) - 1)
  BY <1>4, <1>5, <1>6, <1>7
<1>9. UNCHANGED stack_capacity
  BY DEF stack_capacity
<1> QED
  BY <1>7, <1>8, <1>9 DEF Stack!Pop, s, t

\* A STORE reaches two neighbouring slots of the live stack at most.
LEMMA StoreRefines ==
  ASSUME VmType, StackInv, VmType', NEW x \in Word, NEW v,
         mem' = mem_write16(mem, x, v), UNCHANGED <<sp, stack_limit>>
  PROVE  Stack!Overwrite \/ UNCHANGED <<live_stack, stack_capacity>>
<1>1. depth \in Nat /\ depth < 32768 /\ depth' = depth
  BY DepthType DEF depth
<1>2. UNCHANGED stack_capacity
  BY DEF stack_capacity
<1> DEFINE d == depth
           s == live_stack
           t == live_stack'
           p == (65536 - x) \div 2
<1>3. /\ s \in Seq(Word) /\ Len(s) = d
      /\ \A k \in 1 .. d : s[k] = mem_read16(mem, 65536 - 2 * k)
  BY LiveStack
<1>4. /\ t \in Seq(Word) /\ Len(t) = d
      /\ \A k \in 1 .. d : t[k] = mem_read16(mem', 65536 - 2 * k)
  BY <1>1, NextLiveStack
<1>5. ASSUME NEW k \in 1 .. d, k # p, k # p + 1
      PROVE  t[k] = s[k]
  <2>1. mem_read16(mem', 65536 - 2 * k) = mem_read16(mem, 65536 - 2 * k)
    BY <1>1, <1>5, SlotsTouched
  <2> QED
    BY <1>3, <1>4, <2>1
<1>6. p \in Nat /\ d \in Nat
  BY <1>1 DEF Word
<1> HIDE DEF d, s, t, p
<1>7. CASE d = 0 \/ p > d
  <2>1. \A k \in 1 .. d : t[k] = s[k]
    BY <1>5, <1>6, <1>7
  <2>2. t = s
    BY <1>3, <1>4, <2>1
  <2> QED
    BY <1>2, <2>2 DEF s, t
<1>8. CASE d > 0 /\ p <= d
  <2> DEFINE q == IF p = 0 THEN 1 ELSE p
  <2>1. q \in 1 .. d
    BY <1>6, <1>8
  <2>2. \A k \in 1 .. d : k \notin {q, q + 1} => t[k] = s[k]
    BY <1>5, <1>6
  <2>3. \A k \in 1 .. d : t[k] \in Word
    BY <1>4
  <2> HIDE DEF q
  <2>4. Len(t) = Len(s) /\ DOMAIN s = 1 .. d
    BY <1>3, <1>4
  <2>5. \A k \in 1 .. d :
           IF k \in {q, q + 1} THEN t[k] \in Stack!Slot ELSE t[k] = s[k]
    BY <2>2, <2>3 DEF Word, Stack!Slot
  <2>6. \E j \in DOMAIN s : \A k \in DOMAIN s :
           IF k \in {j, j + 1} THEN t[k] \in Stack!Slot ELSE t[k] = s[k]
    <3>1. q \in DOMAIN s
      BY <2>1, <2>4
    <3> WITNESS q \in DOMAIN s
    <3> QED
      BY <2>4, <2>5
  <2> QED
    BY <1>2, <2>4, <2>6 DEF Stack!Overwrite, s, t
<1> QED
  BY <1>6, <1>7, <1>8

\* A load empties the stack.
LEMMA LoadRefines ==
  ASSUME NEW img, IsImage(img), load_accepted(img)
  PROVE  Stack!Clear
<1>1. stack_limit' = limit_of(img) /\ sp' = CPU_INITIAL_SP
  BY DEF load_accepted
<1>2. stack_capacity' \in Stack!Capacity
  BY <1>1, LimitType, CapacityType DEF stack_capacity
<1>3. depth' = 0
  BY <1>1 DEF depth, CPU_INITIAL_SP
<1>4. live_stack' = <<>>
  BY <1>3 DEF live_stack
<1> QED
  BY <1>2, <1>4 DEF Stack!Clear

\* An executed instruction is a step of the abstract stack, or none.
LEMMA ExecuteRefines ==
  ASSUME VmType, StackInv, fetched.result = "VM_OK",
         instruction_execute(fetched), UNCHANGED stack_limit
  PROVE  Stack!Next \/ UNCHANGED <<live_stack, stack_capacity>>
<1> DEFINE i == fetched
<1>1. IsInstruction(i) /\ instruction_execute(i)
  BY FetchedType
<1>2. offered = IF i.opcode = OP_PUSH THEN operand_read(i.op1) ELSE i.next
  BY DEF offered
<1> HIDE DEF i
<1>3. VmType'
  BY <1>1, ExecuteType
<1>4. offered \in Word
  BY <1>1, <1>2, OperandReadType DEF IsInstruction
<1>5. CASE sp' = sp /\ mem' = mem
  BY <1>5 DEF live_stack, depth, stack_capacity
<1>6. CASE /\ i.opcode = OP_STORE /\ sp' = sp
           /\ mem' = mem_write16(mem, operand_effective_address(i.op1),
                                 r[i.op2.value])
  <2>1. i.op1.mode \in MODES_MEM
    BY <1>1, <1>6, StoreModes DEF IsInstruction
  <2>2. operand_effective_address(i.op1) \in Word
    BY <1>1, <2>1, EffectiveAddressType DEF IsInstruction
  <2> QED
    BY <1>3, <1>6, <2>2, StoreRefines DEF Stack!Next
<1>7. CASE /\ ~stack_full /\ sp' = (sp - 2) % 65536
           /\ mem' = mem_write16(mem, sp, offered)
  BY <1>3, <1>4, <1>7, PushRefines DEF Stack!Next
<1>8. CASE ~stack_empty /\ sp' = (sp + 2) % 65536 /\ mem' = mem
  BY <1>3, <1>8, PopRefines DEF Stack!Next
<1> QED
  BY <1>1, <1>2, <1>5, <1>6, <1>7, <1>8, StackEffect

\* Every step of the machine is a step of the bounded stack or leaves it
\* alone: PUSH, POP, CALL and RET over memory implement StackMachine, for
\* every program and every sequence of loads (vm.c: exec_push, exec_pop,
\* exec_call, exec_ret, exec_store; loader.c: vm_load).
THEOREM MachineImplementsStack == Spec => ImplementsStack
<1>1. Init => Stack!Init
  <2> SUFFICES ASSUME Init PROVE Stack!Init
    OBVIOUS
  <2>1. stack_limit = 0 /\ sp = CPU_INITIAL_SP
    BY DEF Init, vm_init, cpu_init
  <2>2. stack_capacity \in Stack!Capacity
    BY <2>1, CapacityType DEF stack_capacity, Word
  <2>3. depth = 0
    BY <2>1 DEF depth, CPU_INITIAL_SP
  <2>4. live_stack = <<>>
    BY <2>3 DEF live_stack
  <2> QED
    BY <2>2, <2>4 DEF Stack!Init
<1>2. IInv /\ [Next]_vars => [Stack!Next]_<<live_stack, stack_capacity>>
  <2> SUFFICES ASSUME IInv, [Next]_vars
               PROVE  Stack!Next \/ UNCHANGED <<live_stack, stack_capacity>>
    OBVIOUS
  <2>1. CASE UNCHANGED <<sp, mem, stack_limit>>
    BY <2>1 DEF live_stack, depth, stack_capacity
  <2>2. ASSUME NEW img \in Offered, load_accepted(img)
        PROVE  Stack!Next
    <3>1. IsImage(img)
      BY <2>2, ImagesAssumption, SwappedAssumption DEF Offered, IInv, HostType
    <3> QED
      BY <2>2, <3>1, LoadRefines DEF Stack!Next
  <2>3. CASE /\ fetched.result = "VM_OK" /\ instruction_execute(fetched)
             /\ UNCHANGED stack_limit
    BY <2>3, ExecuteRefines DEF IInv
  <2> QED
    BY <2>1, <2>2, <2>3
       DEF Next, Load, vm_load, load_rejected, Step, vm_step, Fault, vm, vars
<1> QED
  BY <1>1, <1>2, Invariant, PTL DEF Spec, ImplementsStack, Stack!Spec
=============================================================================
