--------------------------------- MODULE VM ---------------------------------
(***************************************************************************)
(* The virtual machine of vm.c: its state, vm_init, and vm_step with one   *)
(* action per instruction handler.                                         *)
(*                                                                         *)
(* A handler exec_X(i) takes the decoded instruction i; i.next is the      *)
(* address after it, which the C code has already stored in cpu.pc when    *)
(* the handler runs, and the unprimed pc is the fault_pc that vm_step      *)
(* saved before the fetch.                                                 *)
(***************************************************************************)
EXTENDS Alu

CONSTANT InputWords     \* what READ_INT may obtain from stdin

ASSUME InputAssumption == InputWords \subseteq Word

VARIABLES
  r, pc, sp, flags,     \* CPU
  mem,                  \* Memory
  halted, last_error, error_pc, stack_limit,
  stdout,               \* the last item printed
  result                \* what the last vm_step or vm_load returned

\* struct VM, and what the host has seen printed.
vm == <<r, pc, sp, flags, mem, halted, last_error, error_pc, stack_limit,
        stdout>>

Register == 0 .. 7

VmError == {"VM_ERR_INVALID_OPCODE", "VM_ERR_INVALID_MODE",
            "VM_ERR_DIV_BY_ZERO", "VM_ERR_STACK_OVERFLOW",
            "VM_ERR_STACK_UNDERFLOW", "VM_ERR_INVALID_SYSCALL"}
VmResult == VmError \cup {"VM_OK", "VM_ERR_BAD_BYTECODE_HEADER"}

CPU_INITIAL_SP == 65534

\* The items a program prints: %d of an int16_t, or one character.
IsItem(x) ==
  \/ x.kind = "none" /\ x.value = 0
  \/ x.kind = "int" /\ x.value \in Int /\ x.value >= -32768 /\ x.value < 32768
  \/ x.kind = "char" /\ x.value \in Byte

NothingPrinted == [kind |-> "none", value |-> 0]

cpu_init ==
  /\ r = [x \in Register |-> 0]
  /\ pc = 0
  /\ sp = CPU_INITIAL_SP
  /\ flags = {}

vm_init ==
  /\ cpu_init
  /\ mem = mem_init
  /\ halted = FALSE
  /\ last_error = "VM_OK"
  /\ error_pc = 0
  /\ stack_limit = 0
  /\ stdout = NothingPrinted
  /\ result = "VM_OK"

-----------------------------------------------------------------------------
\* The value of a REG or IMM16 operand.
operand_read(op) == IF op.mode = MODE_REG THEN r[op.value] ELSE op.value

\* The address a MEM_DIRECT or REG_INDIRECT operand names.
operand_effective_address(op) ==
  IF op.mode = MODE_MEM_DIRECT THEN op.value ELSE r[op.value]

\* The instruction succeeded and the machine runs on.
Succeed ==
  /\ result' = "VM_OK"
  /\ UNCHANGED <<halted, last_error, error_pc>>

\* Mutant: error_pc is taken after the fetch.
Fault_after_fetch(e, next) ==
  /\ pc' = next
  /\ halted' = TRUE
  /\ last_error' = e
  /\ error_pc' = next
  /\ result' = e
  /\ UNCHANGED <<r, sp, flags, mem, stdout>>

\* The instruction failed before it changed anything but the PC.
Fault(e, next) ==
  /\ pc' = next
  /\ halted' = TRUE
  /\ last_error' = e
  /\ error_pc' = pc
  /\ result' = e
  /\ UNCHANGED <<r, sp, flags, mem, stdout>>

\* r[op1] receives an ALU outcome's result and FLAGS its flags.
WriteOutcome(i, out) ==
  /\ r' = [r EXCEPT ![i.op1.value] = out.result]
  /\ flags' = out.flags
  /\ pc' = i.next
  /\ Succeed
  /\ UNCHANGED <<sp, mem, stdout>>

exec_nop(i) ==
  /\ i.opcode = OP_NOP
  /\ pc' = i.next
  /\ Succeed
  /\ UNCHANGED <<r, sp, flags, mem, stdout>>

exec_mov(i) ==
  /\ i.opcode = OP_MOV
  /\ WriteOutcome(i, Outcome(operand_read(i.op2), flags))

exec_load(i) ==
  /\ i.opcode = OP_LOAD
  /\ WriteOutcome(i, Outcome(mem_read16(mem, operand_effective_address(i.op2)),
                             flags))

exec_store(i) ==
  /\ i.opcode = OP_STORE
  /\ mem' = mem_write16(mem, operand_effective_address(i.op1),
                        r[i.op2.value])
  /\ pc' = i.next
  /\ Succeed
  /\ UNCHANGED <<r, sp, flags, stdout>>

exec_add(i) ==
  /\ i.opcode = OP_ADD
  /\ WriteOutcome(i, add(r[i.op1.value], operand_read(i.op2), flags))

exec_sub(i) ==
  /\ i.opcode = OP_SUB
  /\ WriteOutcome(i, sub(r[i.op1.value], operand_read(i.op2), flags))

exec_mul(i) ==
  /\ i.opcode = OP_MUL
  /\ WriteOutcome(i, mul(r[i.op1.value], operand_read(i.op2), flags))

exec_div(i) ==
  /\ i.opcode = OP_DIV
  /\ \/ /\ operand_read(i.op2) = 0
        /\ Fault("VM_ERR_DIV_BY_ZERO", i.next)
     \/ /\ operand_read(i.op2) # 0
        /\ WriteOutcome(i, div(r[i.op1.value], operand_read(i.op2), flags))

exec_mod(i) ==
  /\ i.opcode = OP_MOD
  /\ \/ /\ operand_read(i.op2) = 0
        /\ Fault("VM_ERR_DIV_BY_ZERO", i.next)
     \/ /\ operand_read(i.op2) # 0
        /\ WriteOutcome(i, mod(r[i.op1.value], operand_read(i.op2), flags))

exec_and(i) ==
  /\ i.opcode = OP_AND
  /\ WriteOutcome(i, and(r[i.op1.value], operand_read(i.op2), flags))

exec_or(i) ==
  /\ i.opcode = OP_OR
  /\ WriteOutcome(i, or(r[i.op1.value], operand_read(i.op2), flags))

exec_xor(i) ==
  /\ i.opcode = OP_XOR
  /\ WriteOutcome(i, xor(r[i.op1.value], operand_read(i.op2), flags))

exec_not(i) ==
  /\ i.opcode = OP_NOT
  /\ WriteOutcome(i, not(r[i.op1.value], flags))

exec_shl(i) ==
  /\ i.opcode = OP_SHL
  /\ WriteOutcome(i, shl(r[i.op1.value], operand_read(i.op2), flags))

exec_shr(i) ==
  /\ i.opcode = OP_SHR
  /\ WriteOutcome(i, shr(r[i.op1.value], operand_read(i.op2), flags))

exec_cmp(i) ==
  /\ i.opcode = OP_CMP
  /\ flags' = cmp(operand_read(i.op1), operand_read(i.op2), flags)
  /\ pc' = i.next
  /\ Succeed
  /\ UNCHANGED <<r, sp, mem, stdout>>

\* exec_jmp, exec_jz, ..., exec_jbe: they differ only in their condition.
exec_jump(i) ==
  /\ i.opcode \in OP_JMP .. OP_JBE
  /\ pc' = IF JumpTaken(i.opcode, flags) THEN i.op1.value ELSE i.next
  /\ Succeed
  /\ UNCHANGED <<r, sp, flags, mem, stdout>>

-----------------------------------------------------------------------------
\* The stack grows down from CPU_INITIAL_SP; sp is the next free slot.

\* Mutant: the limit is compared before the decrement.
stack_full_late == sp < 2 \/ sp < stack_limit

\* No room for one more word: PUSH and CALL refuse.
stack_full == sp < 2 \/ (sp - 2) % 65536 < stack_limit

stack_empty == sp = CPU_INITIAL_SP

\* Mutant: SP is decremented before the write, not after it.
exec_push_predecrement(i) ==
  /\ i.opcode = OP_PUSH
  /\ ~stack_full
  /\ mem' = mem_write16(mem, (sp - 2) % 65536, operand_read(i.op1))
  /\ sp' = (sp - 2) % 65536
  /\ pc' = i.next
  /\ Succeed
  /\ UNCHANGED <<r, flags, stdout>>

exec_push(i) ==
  /\ i.opcode = OP_PUSH
  /\ \/ /\ stack_full
        /\ Fault("VM_ERR_STACK_OVERFLOW", i.next)
     \/ /\ ~stack_full
        /\ mem' = mem_write16(mem, sp, operand_read(i.op1))
        /\ sp' = (sp - 2) % 65536
        /\ pc' = i.next
        /\ Succeed
        /\ UNCHANGED <<r, flags, stdout>>

\* Mutant: the free slot is read, not the top of the stack.
exec_pop_free_slot(i) ==
  /\ i.opcode = OP_POP
  /\ ~stack_empty
  /\ sp' = (sp + 2) % 65536
  /\ r' = [r EXCEPT ![i.op1.value] = mem_read16(mem, sp)]
  /\ pc' = i.next
  /\ Succeed
  /\ UNCHANGED <<flags, mem, stdout>>

exec_pop(i) ==
  /\ i.opcode = OP_POP
  /\ \/ /\ stack_empty
        /\ Fault("VM_ERR_STACK_UNDERFLOW", i.next)
     \/ /\ ~stack_empty
        /\ sp' = (sp + 2) % 65536
        /\ r' = [r EXCEPT ![i.op1.value] = mem_read16(mem, (sp + 2) % 65536)]
        /\ pc' = i.next
        /\ Succeed
        /\ UNCHANGED <<flags, mem, stdout>>

exec_call(i) ==
  /\ i.opcode = OP_CALL
  /\ \/ /\ stack_full
        /\ Fault("VM_ERR_STACK_OVERFLOW", i.next)
     \/ /\ ~stack_full
        /\ mem' = mem_write16(mem, sp, i.next)
        /\ sp' = (sp - 2) % 65536
        /\ pc' = i.op1.value
        /\ Succeed
        /\ UNCHANGED <<r, flags, stdout>>

exec_ret(i) ==
  /\ i.opcode = OP_RET
  /\ \/ /\ stack_empty
        /\ Fault("VM_ERR_STACK_UNDERFLOW", i.next)
     \/ /\ ~stack_empty
        /\ sp' = (sp + 2) % 65536
        /\ pc' = mem_read16(mem, (sp + 2) % 65536)
        /\ Succeed
        /\ UNCHANGED <<r, flags, mem, stdout>>

-----------------------------------------------------------------------------
\* SYS: PRINT_INT, PRINT_CHAR, READ_INT, EXIT, and every other code a fault.

print(i, kind, value) ==
  /\ stdout' = [kind |-> kind, value |-> value]
  /\ pc' = i.next
  /\ Succeed
  /\ UNCHANGED <<r, sp, flags, mem>>

\* HALT and SYS EXIT.
Halt(i) ==
  /\ halted' = TRUE
  /\ pc' = i.next
  /\ result' = "VM_OK"
  /\ UNCHANGED <<r, sp, flags, mem, last_error, error_pc, stdout>>

exec_sys(i) ==
  /\ i.opcode = OP_SYS
  /\ \/ i.op1.value = 1 /\ print(i, "int", Signed(r[0]))
     \/ i.op1.value = 2 /\ print(i, "char", r[0] % 256)
     \/ /\ i.op1.value = 3
        /\ \E v \in InputWords :
              r' = [r EXCEPT ![0] = v]
        /\ pc' = i.next
        /\ Succeed
        /\ UNCHANGED <<sp, flags, mem, stdout>>
     \/ i.op1.value = 4 /\ Halt(i)
     \/ /\ i.op1.value \notin 1 .. 4
        /\ Fault("VM_ERR_INVALID_SYSCALL", i.next)

exec_halt(i) ==
  /\ i.opcode = OP_HALT
  /\ Halt(i)

instruction_execute(i) ==
  \/ exec_nop(i)
  \/ exec_mov(i)
  \/ exec_load(i)
  \/ exec_store(i)
  \/ exec_add(i)
  \/ exec_sub(i)
  \/ exec_mul(i)
  \/ exec_div(i)
  \/ exec_mod(i)
  \/ exec_and(i)
  \/ exec_or(i)
  \/ exec_xor(i)
  \/ exec_not(i)
  \/ exec_shl(i)
  \/ exec_shr(i)
  \/ exec_cmp(i)
  \/ exec_jump(i)
  \/ exec_push(i)
  \/ exec_pop(i)
  \/ exec_call(i)
  \/ exec_ret(i)
  \/ exec_sys(i)
  \/ exec_halt(i)

\* The instruction at the PC.
fetched == instruction_decode(mem, pc)

vm_step ==
  \/ /\ halted                       \* a defined no-op
     /\ result' = last_error
     /\ UNCHANGED vm
  \/ /\ ~halted
     /\ fetched.result # "VM_OK"
     /\ Fault(fetched.result, fetched.next)
     /\ UNCHANGED stack_limit
  \/ /\ ~halted
     /\ fetched.result = "VM_OK"
     /\ instruction_execute(fetched)
     /\ UNCHANGED stack_limit
=============================================================================
