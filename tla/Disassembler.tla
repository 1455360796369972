---------------------------- MODULE Disassembler ----------------------------
(***************************************************************************)
(* The disassembler (disassembler.c): a linear sweep over the code region  *)
(* that prints each instruction, or one byte where none can be decoded,    *)
(* then the data region byte by byte.  Its output is the token list the    *)
(* lexer makes of the printed text: a printed number is a number token     *)
(* with its value, a comment or an empty line is a newline.                *)
(***************************************************************************)
EXTENDS Instruction, Image, Tokens

VARIABLES
  given,        \* the image to disassemble
  dstage,       \* "idle", "check", "code", "data", "ok" or "error"
  dpc,          \* the sweep's place in the code
  text          \* the output so far

disVars == <<given, dstage, dpc, text>>

-----------------------------------------------------------------------------
mnemonic_for(op) ==
  IF op = OP_HALT THEN "HALT"
  ELSE <<"NOP", "MOV", "ADD", "SUB", "MUL", "DIV", "MOD", "AND", "OR", "XOR",
         "NOT", "SHL", "SHR", "LOAD", "STORE", "PUSH", "POP", "CMP", "JMP",
         "JZ", "JNZ", "JG", "JGE", "JL", "JLE", "JB", "JAE", "JA", "JBE",
         "CALL", "RET", "SYS">>[op + 1]

SyscallNames == <<"PRINT_INT", "PRINT_CHAR", "READ_INT", "EXIT">>

register_name(n) == <<"R0", "R1", "R2", "R3", "R4", "R5", "R6", "R7">>[n + 1]

\* Mutant: a direct address is never put in brackets.
format_operand_bare(opcode, op, legal) ==
  CASE op.mode = MODE_NONE -> <<>>
    [] op.mode = MODE_REG -> <<Ident(register_name(op.value))>>
    [] op.mode = MODE_REG_INDIRECT ->
         <<LBRACKET, Ident(register_name(op.value)), RBRACKET>>
    [] OTHER -> <<Number(op.value)>>

\* Brackets only where the assembler needs them to tell a direct address
\* from a register-indirect one; a known system call by name.
format_operand(opcode, op, legal) ==
  CASE op.mode = MODE_NONE -> <<>>
    [] op.mode = MODE_REG -> <<Ident(register_name(op.value))>>
    [] op.mode = MODE_REG_INDIRECT ->
         <<LBRACKET, Ident(register_name(op.value)), RBRACKET>>
    [] op.mode = MODE_IMM8 /\ opcode = OP_SYS
         /\ op.value \in DOMAIN SyscallNames -> <<Ident(SyscallNames[op.value])>>
    [] op.mode = MODE_MEM_DIRECT /\ MODE_REG_INDIRECT \in legal ->
         <<LBRACKET, Number(op.value), RBRACKET>>
    [] OTHER -> <<Number(op.value)>>

format_instruction(d) ==
  <<Ident(mnemonic_for(d.opcode))>>
    \o format_operand(d.opcode, d.op1, op1_modes(d.opcode))
    \o (IF d.op1.mode # MODE_NONE /\ d.op2.mode # MODE_NONE
        THEN <<COMMA>> \o format_operand(d.opcode, d.op2, op2_modes(d.opcode))
        ELSE <<>>)

byte_line(b) == <<Directive("byte"), Number(b), NEWLINE>>
org_line(a) == <<Directive("org"), Number(a), NEWLINE>>

\* The debugger's entry point: one instruction or one byte of live memory.
disassemble_one(m, addr) ==
  LET d == instruction_decode(m, addr)
  IN  IF d.result = "VM_OK"
      THEN [ok |-> TRUE, line |-> format_instruction(d), next_addr |-> d.next]
      ELSE [ok |-> FALSE,
            line |-> <<Directive("byte"), Number(mem_read8(m, addr))>>,
            next_addr |-> (addr + 1) % 65536]

-----------------------------------------------------------------------------
\* Only code_addr's 16 bits of the end survive: code that reaches the top
\* of memory has end 0.
dend == code_end(given) % 65536

\* The code region alone is decoded against, placed with wrapping addresses.
dmem ==
  LET at(a) == ((a - given.code_addr) % 65536) + 1
  IN  [a \in {x \in {(given.code_addr + i) % 65536 : i \in 0 .. given.code_size - 1} :
                given.body[at(x)] # 0} |-> given.body[at(a)]]

accepts_image ==
  /\ given.size >= BVM_HEADER_SIZE
  /\ given.magic /\ given.version = 1 /\ given.reserved = 0
  /\ given.size >= BVM_HEADER_SIZE + given.code_size + given.data_size
  /\ given.entry_point = given.code_addr

\* The header is read and the three lines of the preamble are printed.
check_image ==
  /\ dstage = "check"
  /\ IF accepts_image
     THEN /\ dstage' = "code"
          /\ dpc' = given.code_addr
          /\ text' = <<NEWLINE, NEWLINE, NEWLINE>>
                       \o (IF given.code_addr # 0
                           THEN org_line(given.code_addr) ELSE <<>>)
     ELSE dstage' = "error" /\ UNCHANGED <<dpc, text>>
  /\ UNCHANGED given

\* Mutant: a decode that wraps to low memory is taken as it is.
decodes_here_unwrapped ==
  LET d == instruction_decode(dmem, dpc)
  IN  d.result = "VM_OK" /\ d.next <= dend

\* Mutant: operands may lie behind the end of the code.
decodes_here_past_end ==
  LET d == instruction_decode(dmem, dpc)
  IN  d.result = "VM_OK" /\ d.next > dpc

decodes_here ==
  LET d == instruction_decode(dmem, dpc)
  IN  d.result = "VM_OK" /\ d.next <= dend /\ d.next > dpc

sweep_instruction ==
  /\ dstage = "code" /\ dpc < dend
  /\ decodes_here
  /\ LET d == instruction_decode(dmem, dpc)
     IN  /\ text' = text \o Append(format_instruction(d), NEWLINE)
         /\ dpc' = d.next
  /\ UNCHANGED <<given, dstage>>

sweep_byte ==
  /\ dstage = "code" /\ dpc < dend
  /\ ~decodes_here
  /\ text' = text \o byte_line(mem_read8(dmem, dpc))
  /\ dpc' = (dpc + 1) % 65536
  /\ UNCHANGED <<given, dstage>>

\* The section header, with an .org where the data does not follow the
\* code, then the bytes.
print_data ==
  /\ dstage = "code" /\ dpc >= dend
  /\ dstage' = "ok"
  /\ LET bytes == data_bytes(given)
         line(i) == byte_line(bytes[(i + 2) \div 3])[((i - 1) % 3) + 1]
     IN  text' = text
           \o (IF given.data_size = 0 THEN <<>>
               ELSE <<NEWLINE, Directive("data"), NEWLINE>>
                      \o (IF given.data_addr # dend
                          THEN org_line(given.data_addr) ELSE <<>>)
                      \o [i \in 1 .. 3 * Len(bytes) |-> line(i)])
           \o <<EOF>>
  /\ UNCHANGED <<given, dpc>>

DisNext == check_image \/ sweep_instruction \/ sweep_byte \/ print_data
=============================================================================
