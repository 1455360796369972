----------------------------- MODULE Instruction -----------------------------
(***************************************************************************)
(* The instruction set (opcode.h) and the fetch/decode step                *)
(* (instruction.c): opcode byte, mode byte, then each operand's bytes.     *)
(* Every address computed while decoding wraps at 64 KB.                   *)
(***************************************************************************)
EXTENDS Memory

OP_NOP == 0
OP_MOV == 1
OP_ADD == 2
OP_SUB == 3
OP_MUL == 4
OP_DIV == 5
OP_MOD == 6
OP_AND == 7
OP_OR == 8
OP_XOR == 9
OP_NOT == 10
OP_SHL == 11
OP_SHR == 12
OP_LOAD == 13
OP_STORE == 14
OP_PUSH == 15
OP_POP == 16
OP_CMP == 17
OP_JMP == 18
OP_JZ == 19
OP_JNZ == 20
OP_JG == 21
OP_JGE == 22
OP_JL == 23
OP_JLE == 24
OP_JB == 25
OP_JAE == 26
OP_JA == 27
OP_JBE == 28
OP_CALL == 29
OP_RET == 30
OP_SYS == 31
OP_HALT == 255

Opcode == OP_NOP .. OP_SYS \cup {OP_HALT}

MODE_NONE == 0
MODE_REG == 1
MODE_IMM16 == 2
MODE_MEM_DIRECT == 3
MODE_REG_INDIRECT == 4
MODE_IMM8 == 5

MODES_REG_IMM16 == {MODE_REG, MODE_IMM16}
MODES_MEM == {MODE_MEM_DIRECT, MODE_REG_INDIRECT}

\* OPCODE_TABLE: the addressing modes legal for each operand of an opcode.
op1_modes(op) ==
  CASE op \in {OP_NOP, OP_RET, OP_HALT}        -> {MODE_NONE}
    [] op = OP_STORE                           -> MODES_MEM
    [] op \in {OP_PUSH, OP_CMP}                -> MODES_REG_IMM16
    [] op \in OP_JMP .. OP_CALL                -> {MODE_MEM_DIRECT}
    [] op = OP_SYS                             -> {MODE_IMM8}
    [] OTHER                                   -> {MODE_REG}

op2_modes(op) ==
  CASE op = OP_LOAD                            -> MODES_MEM
    [] op = OP_STORE                           -> {MODE_REG}
    [] op \in (OP_MOV .. OP_SHR \ {OP_NOT}) \cup {OP_CMP} -> MODES_REG_IMM16
    [] OTHER                                   -> {MODE_NONE}

NoOperand == [mode |-> MODE_NONE, value |-> 0]

\* One operand at addr: what it is and the address of the byte after it.
decode_operand(m, addr, mode) ==
  CASE mode = MODE_NONE ->
         [result |-> "VM_OK", operand |-> NoOperand, next |-> addr]
    [] mode \in {MODE_REG, MODE_REG_INDIRECT} ->
         LET idx == mem_read8(m, addr) IN
         [result  |-> IF idx > 7 THEN "VM_ERR_INVALID_MODE" ELSE "VM_OK",
          operand |-> [mode |-> mode, value |-> IF idx > 7 THEN 0 ELSE idx],
          next    |-> (addr + 1) % 65536]
    [] mode = MODE_IMM8 ->
         [result  |-> "VM_OK",
          operand |-> [mode |-> mode, value |-> mem_read8(m, addr)],
          next    |-> (addr + 1) % 65536]
    [] OTHER ->                              \* MODE_IMM16, MODE_MEM_DIRECT
         [result  |-> "VM_OK",
          operand |-> [mode |-> mode, value |-> mem_read16(m, addr)],
          next    |-> (addr + 2) % 65536]

\* A decode that fails commits nothing: the PC it returns is the one it got.
decode_failed(e, pc) ==
  [result |-> e, opcode |-> OP_NOP, op1 |-> NoOperand, op2 |-> NoOperand,
   next |-> pc]

instruction_decode(m, pc) ==
  LET op    == mem_read8(m, pc)
      modes == mem_read8(m, (pc + 1) % 65536)
      mode1 == modes \div 16
      mode2 == modes % 16
      d1    == decode_operand(m, (pc + 2) % 65536, mode1)
      d2    == decode_operand(m, d1.next, mode2)
  IN  IF op \notin Opcode
      THEN decode_failed("VM_ERR_INVALID_OPCODE", pc)
      ELSE IF mode1 \notin op1_modes(op) \/ mode2 \notin op2_modes(op)
      THEN decode_failed("VM_ERR_INVALID_MODE", pc)
      ELSE IF d1.result # "VM_OK" \/ d2.result # "VM_OK"
      THEN decode_failed("VM_ERR_INVALID_MODE", pc)
      ELSE [result |-> "VM_OK", opcode |-> op,
            op1 |-> d1.operand, op2 |-> d2.operand, next |-> d2.next]
=============================================================================
