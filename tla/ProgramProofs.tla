---------------------------- MODULE ProgramProofs ----------------------------
(***************************************************************************)
(* The assembler and the disassembler, each on its own: every call returns *)
(* with every table in shape, the image is the program pass one laid out,  *)
(* the sweep stays in the code, for every source, every image and whatever *)
(* lies behind the scratch buffers.                                        *)
(***************************************************************************)
EXTENDS RoundTrip, CoreLemmas

-----------------------------------------------------------------------------
\* The parser's tables and its place in the token list.

LEMMA TokenListType ==
  ASSUME NEW s, IsTokenList(s)
  PROVE  /\ s \in Seq(TokenSet) /\ Len(s) \in Nat /\ Len(s) > 0
         /\ DOMAIN s = 1 .. Len(s)
         /\ s[Len(s)].type = "TOK_EOF"
         /\ \A p \in DOMAIN s : s[p] \in TokenSet
  BY DEF IsTokenList

LEMMA AdvanceType ==
  ASSUME IsTokenList(tokens), NEW p \in DOMAIN tokens
  PROVE  /\ advance(p) \in DOMAIN tokens /\ p \in Nat /\ advance(p) \in Nat
         /\ p <= advance(p) /\ advance(p) <= p + 1
         /\ tokens[p].type # "TOK_EOF" => advance(p) = p + 1
         /\ advance(p) <= Len(tokens)
  BY TokenListType DEF advance

LEMMA RegisterValue ==
  ASSUME NEW x \in DOMAIN REGISTERS
  PROVE  REGISTERS[x] \in Nat
  BY DEF REGISTERS

LEMMA SyscallValue ==
  ASSUME NEW x \in DOMAIN SYSCALLS
  PROVE  SYSCALLS[x] \in Nat
  BY DEF SYSCALLS

LEMMA MnemonicValue ==
  ASSUME NEW x \in DOMAIN MNEMONICS
  PROVE  MNEMONICS[x] \in Opcode
  BY DEF MNEMONICS, Opcode, OP_NOP, OP_MOV, OP_ADD, OP_SUB, OP_MUL, OP_DIV, OP_MOD, OP_AND, OP_OR, OP_XOR, OP_NOT, OP_SHL, OP_SHR, OP_LOAD, OP_STORE, OP_PUSH, OP_POP, OP_CMP, OP_JMP, OP_JZ, OP_JNZ, OP_JG, OP_JGE, OP_JL, OP_JLE, OP_JB, OP_JAE, OP_JA, OP_JBE, OP_CALL, OP_RET, OP_SYS, OP_HALT

LEMMA TokenType ==
  /\ NEWLINE \in TokenSet /\ EOF \in TokenSet /\ COMMA \in TokenSet
  /\ LBRACKET \in TokenSet /\ RBRACKET \in TokenSet
  /\ \A n \in Int : Number(n) \in TokenSet
  /\ \A s \in Words : Ident(s) \in TokenSet /\ Directive(s) \in TokenSet
<1>1. ASSUME NEW type \in TokenTypes, NEW txt \in Words, NEW n \in Int
      PROVE  Token(type, txt, n, <<>>) \in TokenSet
  BY DEF Token, TokenSet
<1>2. NoText \in Words
  BY DEF Words
<1> QED
  BY <1>1, <1>2
     DEF NEWLINE, EOF, COMMA, LBRACKET, RBRACKET, Number, Ident, Directive,
         Simple, TokenTypes, EndOfLine

\* The disassembler prints words that the assembler knows.
LEMMA MnemonicText ==
  ASSUME NEW op \in Opcode
  PROVE  mnemonic_for(op) \in Words
<1> DEFINE N == {"HALT", "NOP", "MOV", "ADD", "SUB", "MUL", "DIV", "MOD",
                 "AND", "OR", "XOR", "NOT", "SHL", "SHR", "LOAD", "STORE",
                 "PUSH", "POP", "CMP", "JMP", "JZ", "JNZ", "JG", "JGE", "JL",
                 "JLE", "JB", "JAE", "JA", "JBE", "CALL", "RET", "SYS"}
<1>1. mnemonic_for(op) \in N
  BY DEF mnemonic_for, Opcode, OP_NOP, OP_SYS, OP_HALT
<1>2. N \subseteq DOMAIN MNEMONICS
  BY DEF MNEMONICS
<1> QED
  BY <1>1, <1>2 DEF Words

LEMMA RegisterText ==
  ASSUME NEW n \in 0 .. 7
  PROVE  register_name(n) \in Words
<1>1. register_name(n) \in {"R0", "R1", "R2", "R3", "R4", "R5", "R6", "R7"}
  BY DEF register_name
<1>2. {"R0", "R1", "R2", "R3", "R4", "R5", "R6", "R7"} \subseteq DOMAIN REGISTERS
  BY DEF REGISTERS
<1> QED
  BY <1>1, <1>2 DEF Words

LEMMA SyscallText ==
  ASSUME NEW n \in DOMAIN SyscallNames
  PROVE  SyscallNames[n] \in Words
<1>1. SyscallNames[n] \in {"PRINT_INT", "PRINT_CHAR", "READ_INT", "EXIT"}
  BY DEF SyscallNames
<1>2. {"PRINT_INT", "PRINT_CHAR", "READ_INT", "EXIT"} \subseteq DOMAIN SYSCALLS
  BY DEF SYSCALLS
<1> QED
  BY <1>1, <1>2 DEF Words

-----------------------------------------------------------------------------
\* Operands and instructions as the parser makes them.

LEMMA ParseOperandType ==
  ASSUME IsTokenList(tokens), NEW p \in DOMAIN tokens, NEW c
  PROVE  LET a == parse_operand(p, c) IN
         /\ a.operand.value \in Int /\ a.operand.mem \in BOOLEAN
         /\ a.next \in DOMAIN tokens /\ a.next >= p
         /\ a.ok => a.operand.kind \in {"REG", "NUMBER", "LABEL"}
<1> DEFINE mem == tokens[p].type = "TOK_LBRACKET"
           q == IF mem THEN advance(p) ELSE p
           t == tokens[q]
           after == advance(q)
           named == t.type = "TOK_IDENT"
           isreg == named /\ t.text \in DOMAIN REGISTERS
           issys == /\ named /\ t.text \notin DOMAIN REGISTERS
                    /\ ~mem /\ c = OP_SYS /\ t.text \in DOMAIN SYSCALLS
           isnum == t.type = "TOK_NUMBER"
           op == CASE isreg -> ParsedOperand("REG", mem, REGISTERS[t.text], NoText)
                   [] issys -> ParsedOperand("NUMBER", mem, SYSCALLS[t.text], NoText)
                   [] isnum -> ParsedOperand("NUMBER", mem, t.num_value, NoText)
                   [] OTHER -> IF named THEN ParsedOperand("LABEL", mem, 0, t.text)
                                        ELSE OPKIND_NONE
           a == parse_operand(p, c)
<1>1. /\ a.operand = op
      /\ a.next = IF mem THEN advance(after) ELSE after
      /\ a.ok => op # OPKIND_NONE
  BY Zenon DEF parse_operand
<1>2. q \in DOMAIN tokens /\ q >= p /\ q \in Nat /\ p \in Nat
  BY AdvanceType
<1> HIDE DEF q
<1>3. after \in DOMAIN tokens /\ after >= q /\ after \in Nat
  BY <1>2, AdvanceType
<1> HIDE DEF after
<1>4. advance(after) \in DOMAIN tokens /\ advance(after) >= after
        /\ advance(after) \in Nat
  BY <1>3, AdvanceType
<1>5. a.next \in DOMAIN tokens /\ a.next >= p
  BY <1>1, <1>2, <1>3, <1>4
<1>6. t.num_value \in Int
  BY <1>2, TokenListType DEF TokenSet
<1>7. mem \in BOOLEAN
  BY Zenon
<1> HIDE DEF t, mem
<1>8. ASSUME NEW k, NEW v \in Int, NEW l
      PROVE  /\ ParsedOperand(k, mem, v, l).value = v
             /\ ParsedOperand(k, mem, v, l).mem = mem
             /\ ParsedOperand(k, mem, v, l).kind = k
  BY DEF ParsedOperand
<1>9. OPKIND_NONE.value \in Int /\ OPKIND_NONE.mem \in BOOLEAN
  BY DEF OPKIND_NONE, ParsedOperand
<1> DEFINE typed == /\ op.value \in Int /\ op.mem \in BOOLEAN
                    /\ op # OPKIND_NONE => op.kind \in {"REG", "NUMBER", "LABEL"}
<1>10. isreg => typed
  <2> SUFFICES ASSUME isreg PROVE typed
    OBVIOUS
  <2>1. op = ParsedOperand("REG", mem, REGISTERS[t.text], NoText)
    BY Zenon
  <2>2. REGISTERS[t.text] \in Int
    BY RegisterValue
  <2> QED
    BY <1>7, <1>8, <2>1, <2>2
<1>11. issys => typed
  <2> SUFFICES ASSUME issys PROVE typed
    OBVIOUS
  <2>1. op = ParsedOperand("NUMBER", mem, SYSCALLS[t.text], NoText)
    BY Zenon
  <2>2. SYSCALLS[t.text] \in Int
    BY SyscallValue
  <2> QED
    BY <1>7, <1>8, <2>1, <2>2
<1>12. isnum => typed
  <2> SUFFICES ASSUME isnum PROVE typed
    OBVIOUS
  <2>1. op = ParsedOperand("NUMBER", mem, t.num_value, NoText)
    BY Zenon
  <2> QED
    BY <1>6, <1>7, <1>8, <2>1
<1>13. ~isreg /\ ~issys /\ ~isnum => typed
  <2> SUFFICES ASSUME ~isreg /\ ~issys /\ ~isnum PROVE typed
    OBVIOUS
  <2>1. op = IF named THEN ParsedOperand("LABEL", mem, 0, t.text)
                      ELSE OPKIND_NONE
    BY Zenon
  <2>2. 0 \in Int
    OBVIOUS
  <2>3. CASE named
    BY <1>7, <1>8, <2>1, <2>2, <2>3
  <2>4. CASE ~named
    BY <1>9, <2>1, <2>4, Zenon
  <2> QED
    BY <2>3, <2>4
<1> QED
  BY <1>1, <1>5, <1>10, <1>11, <1>12, <1>13, Zenon

\* An operand that agrees with its mode.
IsOperandOf(opcode, op, mode) ==
  /\ op.value \in Int
  /\ Meant(opcode, op, mode)
  /\ mode \in {MODE_REG, MODE_REG_INDIRECT} => op.kind = "REG" /\ op.value \in 0 .. 7
  /\ op.kind = "REG" => mode \in {MODE_REG, MODE_REG_INDIRECT}
  /\ mode = MODE_NONE => op.kind = "NONE" /\ op.value = 0

\* What the table allows an instruction's operands to be.
LEMMA LegalSets ==
  ASSUME NEW op \in Opcode
  PROVE  /\ op1_modes(op) \in {{MODE_NONE}, MODES_MEM, MODES_REG_IMM16,
                               {MODE_MEM_DIRECT}, {MODE_IMM8}, {MODE_REG}}
         /\ op1_modes(op) = {MODE_MEM_DIRECT} => op \in OP_JMP .. OP_CALL
         /\ op2_modes(op) \in {MODES_MEM, {MODE_REG}, MODES_REG_IMM16, {MODE_NONE}}
<1>1. /\ {MODE_NONE} # {MODE_MEM_DIRECT} /\ MODES_MEM # {MODE_MEM_DIRECT}
      /\ MODES_REG_IMM16 # {MODE_MEM_DIRECT} /\ {MODE_IMM8} # {MODE_MEM_DIRECT}
      /\ {MODE_REG} # {MODE_MEM_DIRECT}
  BY DEF MODE_NONE, MODE_REG, MODE_IMM16, MODE_MEM_DIRECT, MODE_REG_INDIRECT,
         MODE_IMM8, MODES_MEM, MODES_REG_IMM16
<1>2. op1_modes(op) = {MODE_MEM_DIRECT} => op \in OP_JMP .. OP_CALL
  BY <1>1 DEF op1_modes
<1> QED
  BY <1>2 DEF op1_modes, op2_modes

\* A mode found for an operand is legal and what its syntax may stand for.
LEMMA ResolveModeType ==
  ASSUME NEW opcode, NEW legal, NEW op,
         op.kind \in {"REG", "NUMBER", "LABEL"}, op.mem \in BOOLEAN,
         op.value \in Int,
         \/ legal \in {MODES_MEM, MODES_REG_IMM16, {MODE_IMM8}, {MODE_REG}}
         \/ legal = {MODE_MEM_DIRECT} /\ opcode \in OP_JMP .. OP_CALL,
         resolve_operand_mode(op, legal) # NoMode
  PROVE  /\ resolve_operand_mode(op, legal) \in legal
         /\ IsOperandOf(opcode, op, resolve_operand_mode(op, legal))
<1> DEFINE m == resolve_operand_mode(op, legal)
<1> USE DEF MODE_NONE, MODE_REG, MODE_IMM16, MODE_MEM_DIRECT,
            MODE_REG_INDIRECT, MODE_IMM8, MODES_MEM, MODES_REG_IMM16, NoMode
<1>1. m \in legal
  BY DEF resolve_operand_mode
<1>2. CASE op.kind = "REG"
  <2>1. m = (IF op.mem THEN MODE_REG_INDIRECT ELSE MODE_REG) /\ op.value \in 0 .. 7
    BY <1>2 DEF resolve_operand_mode
  <2> QED
    BY <1>1, <1>2, <2>1 DEF IsOperandOf, Meant
<1>3. CASE op.kind # "REG" /\ op.mem
  <2>1. m = MODE_MEM_DIRECT
    BY <1>3 DEF resolve_operand_mode
  <2> QED
    BY <1>1, <1>3, <2>1 DEF IsOperandOf, Meant
<1>4. CASE op.kind # "REG" /\ ~op.mem
  <2>1. m = IF legal = MODES_MEM THEN NoMode
            ELSE IF MODE_IMM16 \in legal THEN MODE_IMM16
            ELSE IF MODE_MEM_DIRECT \in legal THEN MODE_MEM_DIRECT
            ELSE MODE_IMM8
    BY <1>1, <1>4 DEF resolve_operand_mode
  <2>2. \/ m \in {MODE_IMM16, MODE_IMM8}
        \/ m = MODE_MEM_DIRECT /\ opcode \in OP_JMP .. OP_CALL
    BY <2>1
  <2> QED
    BY <1>1, <1>4, <2>2 DEF IsOperandOf, Meant
<1> QED
  BY <1>2, <1>3, <1>4

\* The size of an instruction and where its operands go.
LEMMA ModeSize ==
  ASSUME NEW mode
  PROVE  mode_byte_size(mode) \in {0, 1, 2}
  BY DEF mode_byte_size

\* Statements as pass one makes them, before they are placed.
IsBody(st) ==
  /\ {"section", "address"} \subseteq DOMAIN st
  /\ st.op1.value \in Int /\ st.op2.value \in Int
  /\ st.op1_mode \in 0 .. 5 /\ st.op2_mode \in 0 .. 5
  /\ st.encoded_size \in Nat
  /\ \/ /\ st.kind = "STMT_INSTRUCTION"
        /\ st.opcode \in Opcode
        /\ st.op1_mode \in op1_modes(st.opcode)
        /\ st.op2_mode \in op2_modes(st.opcode)
        /\ IsOperandOf(st.opcode, st.op1, st.op1_mode)
        /\ IsOperandOf(st.opcode, st.op2, st.op2_mode)
        /\ st.encoded_size = 2 + mode_byte_size(st.op1_mode)
                               + mode_byte_size(st.op2_mode)
     \/ /\ st.kind \in {"STMT_WORD", "STMT_BYTE", "STMT_STRING"}
        /\ st.op1_mode = MODE_NONE /\ st.op2_mode = MODE_NONE
        /\ st.kind = "STMT_WORD" => st.encoded_size = 2
        /\ st.kind = "STMT_BYTE" =>
             st.encoded_size = 1 /\ st.op1.kind = "NUMBER"
        /\ st.kind = "STMT_STRING" =>
             /\ st.string_bytes \in Seq(Byte) /\ st.string_bytes # <<>>
             /\ st.encoded_size = Len(st.string_bytes)
     \/ /\ st.kind \in {"STMT_LABEL", "STMT_ORG", "STMT_DATA_SECTION"}
        /\ st.encoded_size = 0
        /\ st.op1_mode = MODE_NONE /\ st.op2_mode = MODE_NONE

\* An instruction the parser accepts.
LEMMA ParseInstructionType ==
  ASSUME IsTokenList(tokens), NEW p \in DOMAIN tokens, NEW opcode \in Opcode,
         parse_instruction(opcode, p).ok
  PROVE  LET i == parse_instruction(opcode, p) IN
         /\ IsBody(i.stmt) /\ i.stmt.kind = "STMT_INSTRUCTION"
         /\ i.next \in DOMAIN tokens /\ i.next >= p
<1> DEFINE i == parse_instruction(opcode, p)
           none == tokens[p].type \in EndOfLine
           a    == parse_operand(p, opcode)
           two  == ~none /\ a.ok /\ tokens[a.next].type = "TOK_COMMA"
           b    == parse_operand(advance(a.next), opcode)
           count == IF none THEN 0 ELSE IF two THEN 2 ELSE 1
           expected == IF op1_modes(opcode) = {MODE_NONE} THEN 0
                       ELSE IF op2_modes(opcode) = {MODE_NONE} THEN 1 ELSE 2
           m1 == IF expected >= 1 /\ a.ok
                 THEN resolve_operand_mode(a.operand, op1_modes(opcode))
                 ELSE MODE_NONE
           m2 == IF expected = 2 /\ two /\ b.ok
                 THEN resolve_operand_mode(b.operand, op2_modes(opcode))
                 ELSE MODE_NONE
           size == 2 + mode_byte_size(m1) + mode_byte_size(m2)
           o1 == IF count >= 1 THEN a.operand ELSE OPKIND_NONE
           o2 == IF count = 2 THEN b.operand ELSE OPKIND_NONE
<1>1. /\ i.stmt = [Statement("STMT_INSTRUCTION", size) EXCEPT
                     !.opcode = opcode, !.op1_mode = m1, !.op2_mode = m2,
                     !.op1 = o1, !.op2 = o2]
      /\ i.next = IF none THEN p ELSE IF two THEN b.next ELSE a.next
      /\ none \/ a.ok
      /\ two => b.ok
      /\ count = expected
      /\ m1 # NoMode /\ m2 # NoMode
  BY Zenon DEF parse_instruction
<1>2. /\ a.operand.value \in Int /\ a.operand.mem \in BOOLEAN
      /\ a.next \in DOMAIN tokens /\ a.next >= p
      /\ a.ok => a.operand.kind \in {"REG", "NUMBER", "LABEL"}
  BY ParseOperandType
<1> HIDE DEF a
<1>3. advance(a.next) \in DOMAIN tokens /\ advance(a.next) >= a.next
      /\ a.next \in Nat /\ p \in Nat /\ advance(a.next) \in Nat
  BY <1>2, AdvanceType
<1>4. /\ b.operand.value \in Int /\ b.operand.mem \in BOOLEAN
      /\ b.next \in DOMAIN tokens /\ b.next >= advance(a.next)
      /\ b.ok => b.operand.kind \in {"REG", "NUMBER", "LABEL"}
  BY <1>3, ParseOperandType
<1>5. b.next \in Nat
  BY <1>4, TokenListType
<1> HIDE DEF b, i
<1>6. i.next \in DOMAIN tokens /\ i.next >= p
  BY <1>1, <1>2, <1>3, <1>4, <1>5
<1> DEFINE st == i.stmt
<1>7. /\ st.opcode = opcode /\ st.op1_mode = m1 /\ st.op2_mode = m2
      /\ st.op1 = o1 /\ st.op2 = o2 /\ st.kind = "STMT_INSTRUCTION"
      /\ st.encoded_size = size
      /\ {"section", "address"} \subseteq DOMAIN st
  <2> HIDE DEF size, m1, m2, o1, o2
  <2> QED
    BY <1>1 DEF Statement
<1>8. /\ op1_modes(opcode) \in {{MODE_NONE}, MODES_MEM, MODES_REG_IMM16,
                               {MODE_MEM_DIRECT}, {MODE_IMM8}, {MODE_REG}}
      /\ op1_modes(opcode) = {MODE_MEM_DIRECT} => opcode \in OP_JMP .. OP_CALL
      /\ op2_modes(opcode) \in {MODES_MEM, {MODE_REG}, MODES_REG_IMM16, {MODE_NONE}}
  BY LegalSets
<1>9. /\ IsOperandOf(opcode, OPKIND_NONE, MODE_NONE)
      /\ OPKIND_NONE.value \in Int
  BY DEF IsOperandOf, Meant, OPKIND_NONE, ParsedOperand, MODE_NONE, MODE_REG,
         MODE_REG_INDIRECT
<1>10. op1_modes(opcode) = {MODE_NONE} => op2_modes(opcode) = {MODE_NONE}
  BY DEF op1_modes, op2_modes, MODE_NONE, MODE_REG, MODE_IMM16,
         MODE_MEM_DIRECT, MODE_REG_INDIRECT, MODE_IMM8, MODES_MEM,
         MODES_REG_IMM16, OP_NOP, OP_RET, OP_HALT, OP_LOAD, OP_STORE, OP_MOV,
         OP_SHR, OP_NOT, OP_CMP
<1>11. m1 \in op1_modes(opcode) /\ IsOperandOf(opcode, o1, m1)
  <2>1. CASE op1_modes(opcode) = {MODE_NONE}
    BY <1>1, <1>9, <2>1
  <2>2. CASE op1_modes(opcode) # {MODE_NONE}
    <3>1. count >= 1 /\ a.ok /\ m1 = resolve_operand_mode(a.operand, op1_modes(opcode))
      BY <1>1, <2>2
    <3>2. o1 = a.operand
      BY <3>1
    <3> DEFINE op == a.operand
               legal == op1_modes(opcode)
    <3>3. resolve_operand_mode(op, legal) # NoMode
      BY <1>1, <3>1
    <3>4. \/ legal \in {MODES_MEM, MODES_REG_IMM16, {MODE_IMM8}, {MODE_REG}}
          \/ legal = {MODE_MEM_DIRECT} /\ opcode \in OP_JMP .. OP_CALL
      BY <1>8, <2>2
    <3>5. /\ op.kind \in {"REG", "NUMBER", "LABEL"} /\ op.mem \in BOOLEAN
          /\ op.value \in Int
      BY <1>2, <3>1
    <3> HIDE DEF m1, o1, count, expected, op, legal
    <3>6. /\ resolve_operand_mode(op, legal) \in legal
          /\ IsOperandOf(opcode, op, resolve_operand_mode(op, legal))
      BY <3>3, <3>4, <3>5, ResolveModeType
    <3> QED
      BY <3>1, <3>2, <3>6 DEF op, legal
  <2> QED
    BY <2>1, <2>2
<1>12. m2 \in op2_modes(opcode) /\ IsOperandOf(opcode, o2, m2)
  <2>1. CASE op2_modes(opcode) = {MODE_NONE}
    BY <1>1, <1>9, <2>1
  <2>2. CASE op2_modes(opcode) # {MODE_NONE}
    <3>1. expected = 2
      BY <1>10, <2>2
    <3>2. two /\ b.ok
      BY <1>1, <3>1
    <3>3. m2 = resolve_operand_mode(b.operand, op2_modes(opcode)) /\ o2 = b.operand
      BY <1>1, <3>1, <3>2
    <3> DEFINE op == b.operand
               legal == op2_modes(opcode)
    <3>4. resolve_operand_mode(op, legal) # NoMode
      BY <1>1, <3>3
    <3>5. legal \in {MODES_MEM, MODES_REG_IMM16, {MODE_IMM8}, {MODE_REG}}
      BY <1>8, <2>2
    <3>6. /\ op.kind \in {"REG", "NUMBER", "LABEL"} /\ op.mem \in BOOLEAN
          /\ op.value \in Int
      BY <1>4, <3>2
    <3> HIDE DEF m2, o2, count, expected, op, legal
    <3>7. /\ resolve_operand_mode(op, legal) \in legal
          /\ IsOperandOf(opcode, op, resolve_operand_mode(op, legal))
      BY <3>4, <3>5, <3>6, ResolveModeType
    <3> QED
      BY <3>3, <3>7 DEF op, legal
  <2> QED
    BY <2>1, <2>2
<1>13. op1_modes(opcode) \subseteq 0 .. 5 /\ op2_modes(opcode) \subseteq 0 .. 5
  BY LegalModes
<1>14. o1.value \in Int /\ o2.value \in Int
  BY <1>11, <1>12 DEF IsOperandOf
<1> HIDE DEF m1, m2, o1, o2
<1>15. size \in Nat
  BY ModeSize
<1>16. IsBody(st)
  <2> HIDE DEF st
  <2> QED
    BY <1>7, <1>11, <1>12, <1>13, <1>14, <1>15 DEF IsBody
<1> QED
  BY <1>6, <1>7, <1>16 DEF i

-----------------------------------------------------------------------------
\* The state of a call of assemble().

IsSeq(s) == s \in Seq({s[i] : i \in DOMAIN s})

LEMMA AppendSeq ==
  ASSUME NEW s, IsSeq(s), NEW e
  PROVE  /\ IsSeq(Append(s, e))
         /\ Len(s) \in Nat /\ DOMAIN s = 1 .. Len(s)
         /\ Len(Append(s, e)) = Len(s) + 1
         /\ DOMAIN Append(s, e) = 1 .. Len(s) + 1
         /\ \A i \in 1 .. Len(s) : Append(s, e)[i] = s[i]
         /\ Append(s, e)[Len(s) + 1] = e
<1> DEFINE S == {s[i] : i \in DOMAIN s}
           t == Append(s, e)
           T == {t[i] : i \in DOMAIN t}
<1>1. s \in Seq(S)
  BY DEF IsSeq
<1> HIDE DEF S
<1>2. s \in Seq(S \cup {e})
  BY <1>1
<1>3. /\ t \in Seq(S \cup {e}) /\ Len(t) = Len(s) + 1 /\ Len(s) \in Nat
      /\ DOMAIN s = 1 .. Len(s) /\ DOMAIN t = 1 .. Len(s) + 1
      /\ \A i \in 1 .. Len(s) : t[i] = s[i]
      /\ t[Len(s) + 1] = e
  BY <1>2
<1> HIDE DEF t
<1>4. t \in Seq(T)
  BY <1>3
<1> QED
  BY <1>3, <1>4 DEF IsSeq, t

IsStatement(st) == IsBody(st) /\ st.section \in Section /\ st.address \in Word

\* Types, and where the parser is: pass two starts after pass one.
AsmShape ==
  /\ IsTokenList(tokens) /\ pos \in DOMAIN tokens
  /\ stage \in {"line", "rest", "eol", "emit", "ok", "error"}
  /\ IsSeq(stmts) /\ \A i \in 1 .. Len(stmts) : IsStatement(stmts[i])
  /\ \A n \in DOMAIN symtab : symtab[n] \in Word
  /\ section \in Section
  /\ cursor \in [Section -> Word] /\ start_addr \in [Section -> Word]
  /\ started \in [Section -> BOOLEAN]
  /\ next \in Nat /\ next >= 1 /\ next <= Len(stmts) + 1
  /\ stage \in {"line", "rest", "eol"} => next = 1
  /\ buffer = [s \in Section |-> buffer[s]]
  /\ \A s \in Section : IsMemory(buffer[s])
  /\ IsImage(image)
  /\ extent \in Nat /\ extent <= Overrun

\* Where pass one put the statement it just appended.
Placed(st) ==
  [st EXCEPT !.section = section, !.address = cursor[section]]

LEMMA PlacedType ==
  ASSUME NEW st, IsBody(st), section \in Section, cursor[section] \in Word
  PROVE  /\ IsStatement(Placed(st))
         /\ Placed(st).section = section /\ Placed(st).address = cursor[section]
         /\ Placed(st).encoded_size = st.encoded_size
         /\ Placed(st).kind = st.kind
<1> DEFINE t == Placed(st)
<1>1. /\ t.section = section /\ t.address = cursor[section]
      /\ t.encoded_size = st.encoded_size /\ t.kind = st.kind
      /\ t.op1 = st.op1 /\ t.op2 = st.op2 /\ t.opcode = st.opcode
      /\ t.op1_mode = st.op1_mode /\ t.op2_mode = st.op2_mode
      /\ t.string_bytes = st.string_bytes /\ DOMAIN t = DOMAIN st
  BY DEF Placed, IsBody
<1> HIDE DEF t
<1>2. IsBody(t)
  BY <1>1, Zenon DEF IsBody
<1> QED
  BY <1>1, <1>2 DEF IsStatement, t

LEMMA PlaceShape ==
  ASSUME AsmShape, stage \in {"line", "rest"},
         NEW st, IsBody(st), NEW p \in DOMAIN tokens, place(st, p)
  PROVE  AsmShape'
<1>1. /\ stmts' = Append(stmts, Placed(st))
      /\ start_addr' = IF started[section] THEN start_addr
                       ELSE [start_addr EXCEPT ![section] = cursor[section]]
      /\ started' = [started EXCEPT ![section] = TRUE]
      /\ cursor' = [cursor EXCEPT ![section] = (@ + st.encoded_size) % 65536]
      /\ extent' = grown(extent, st.encoded_size)
      /\ pos' = p /\ stage' = "eol"
      /\ UNCHANGED <<tokens, symtab, section, next, buffer, image>>
  BY DEF place, Placed
<1>2. section \in Section /\ cursor[section] \in Word /\ st.encoded_size \in Nat
  BY DEF AsmShape, IsBody
<1>3. /\ IsSeq(stmts') /\ Len(stmts') = Len(stmts) + 1 /\ Len(stmts) \in Nat
      /\ \A i \in 1 .. Len(stmts) : stmts'[i] = stmts[i]
      /\ stmts'[Len(stmts) + 1] = Placed(st)
  BY <1>1, AppendSeq DEF AsmShape
<1>4. ASSUME NEW i \in 1 .. Len(stmts') PROVE IsStatement(stmts'[i])
  <2>1. CASE i \in 1 .. Len(stmts)
    BY <1>3, <2>1 DEF AsmShape
  <2>2. CASE i = Len(stmts) + 1
    BY <1>2, <1>3, <2>2, PlacedType
  <2> QED
    BY <1>3, <2>1, <2>2
<1>5. (cursor[section] + st.encoded_size) % 65536 \in Word
  BY <1>2, WrapIsWord DEF Word
<1>6. /\ cursor' \in [Section -> Word] /\ start_addr' \in [Section -> Word]
      /\ started' \in [Section -> BOOLEAN]
  BY <1>1, <1>2, <1>5 DEF AsmShape
<1>7. extent' \in Nat /\ extent' <= Overrun
  BY <1>1, <1>2 DEF AsmShape, grown, Overrun
<1>8. next' \in Nat /\ next' >= 1 /\ next' <= Len(stmts') + 1 /\ next' = 1
  BY <1>1, <1>3 DEF AsmShape
<1> QED
  BY <1>1, <1>3, <1>4, <1>6, <1>7, <1>8 DEF AsmShape, IsTokenList, IsImage, IsMemory

-----------------------------------------------------------------------------
\* What pass two writes.

LEMMA WordBytesType ==
  ASSUME NEW v \in Int
  PROVE  /\ word_bytes(v) \in Seq(Byte) /\ Len(word_bytes(v)) = 2
         /\ v % 256 \in Byte
<1> DEFINE x == v % 256
           y == (v \div 256) % 256
<1>1. x \in Byte /\ y \in Byte
  BY DEF Byte
<1> HIDE DEF x, y
<1>2. <<x, y>> \in Seq(Byte) /\ Len(<<x, y>>) = 2
  BY <1>1
<1> QED
  BY <1>1, <1>2 DEF word_bytes, x, y

LEMMA WordBytes ==
  ASSUME NEW v
  PROVE  /\ Len(word_bytes(v)) = 2 /\ word_bytes(v)[1] = v % 256
         /\ word_bytes(v)[2] = (v \div 256) % 256
<1> DEFINE x == v % 256
           y == (v \div 256) % 256
<1>1. word_bytes(v) = <<x, y>>
  BY DEF word_bytes
<1> HIDE DEF x, y
<1>2. Len(<<x, y>>) = 2 /\ <<x, y>>[1] = x /\ <<x, y>>[2] = y
  OBVIOUS
<1> QED
  BY <1>1, <1>2 DEF x, y

LEMMA ResolvedType ==
  ASSUME NEW op, op.value \in Int, resolves(op),
         \A n \in DOMAIN symtab : symtab[n] \in Word
  PROVE  resolve_value(op) \in Int
  BY DEF resolves, resolve_value, Word

LEMMA OperandBytesType ==
  ASSUME NEW mode, NEW op, mode_byte_size(mode) = 0 \/ resolve_value(op) \in Int
  PROVE  /\ operand_bytes(mode, op) \in Seq(Byte)
         /\ Len(operand_bytes(mode, op)) = mode_byte_size(mode)
<1> DEFINE v == resolve_value(op)
<1>1. mode_byte_size(mode) \in {0, 1, 2}
  BY ModeSize
<1>2. CASE mode_byte_size(mode) = 0
  BY <1>2 DEF operand_bytes
<1>3. CASE mode_byte_size(mode) = 1
  <2>1. operand_bytes(mode, op) = <<v % 256>>
    BY <1>3 DEF operand_bytes
  <2>2. v % 256 \in Byte
    BY <1>3, WordBytesType
  <2> QED
    BY <1>3, <2>1, <2>2
<1>4. CASE mode_byte_size(mode) = 2
  <2>1. operand_bytes(mode, op) = word_bytes(v)
    BY <1>4 DEF operand_bytes
  <2> QED
    BY <1>4, <2>1, WordBytesType
<1> QED
  BY <1>1, <1>2, <1>3, <1>4

LEMMA HeadBytesType ==
  ASSUME NEW st, IsBody(st), emits(st),
         \A n \in DOMAIN symtab : symtab[n] \in Word
  PROVE  /\ head_bytes(st) \in Seq(Byte)
         /\ st.kind = "STMT_INSTRUCTION" => Len(head_bytes(st)) = 2
         /\ st.kind # "STMT_INSTRUCTION" => Len(head_bytes(st)) = st.encoded_size
<1>1. CASE st.kind = "STMT_INSTRUCTION"
  <2>1. st.opcode \in Opcode /\ st.op1_mode \in 0 .. 5 /\ st.op2_mode \in 0 .. 5
    BY <1>1 DEF IsBody
  <2>2. st.opcode \in Byte /\ 16 * st.op1_mode + st.op2_mode \in Byte
    BY <2>1 DEF Opcode, Byte, OP_NOP, OP_SYS, OP_HALT
  <2>3. head_bytes(st) = <<st.opcode, 16 * st.op1_mode + st.op2_mode>>
    BY <1>1 DEF head_bytes
  <2> QED
    BY <1>1, <2>2, <2>3
<1>2. CASE st.kind = "STMT_STRING"
  BY <1>2 DEF head_bytes, IsBody
<1>3. CASE st.kind = "STMT_WORD"
  <2>1. resolve_value(st.op1) \in Int
    BY <1>3, ResolvedType DEF emits, IsBody
  <2>2. head_bytes(st) = word_bytes(resolve_value(st.op1))
    BY <1>3 DEF head_bytes
  <2>3. st.encoded_size = 2
    BY <1>3 DEF IsBody
  <2> QED
    BY <1>3, <2>1, <2>2, <2>3, WordBytesType
<1>4. CASE st.kind = "STMT_BYTE"
  <2>1. st.op1.value \in Byte
    BY <1>4 DEF emits, Byte
  <2>2. head_bytes(st) = <<st.op1.value>>
    BY <1>4 DEF head_bytes
  <2>3. st.encoded_size = 1
    BY <1>4 DEF IsBody
  <2> QED
    BY <1>4, <2>1, <2>2, <2>3
<1>5. CASE st.kind \in {"STMT_LABEL", "STMT_ORG", "STMT_DATA_SECTION"}
  <2>1. head_bytes(st) = <<>>
    BY <1>5 DEF head_bytes
  <2>2. st.encoded_size = 0
    BY <1>5 DEF IsBody
  <2> QED
    BY <1>5, <2>1, <2>2
<1> QED
  BY <1>1, <1>2, <1>3, <1>4, <1>5 DEF IsBody

\* The operands of a statement that passes the checks: their bytes.
LEMMA OperandsEmitted ==
  ASSUME NEW st, IsBody(st), emits(st),
         \A n \in DOMAIN symtab : symtab[n] \in Word
  PROVE  LET b1 == operand_bytes(st.op1_mode, st.op1)
             b2 == operand_bytes(st.op2_mode, st.op2)
         IN  /\ b1 \in Seq(Byte) /\ Len(b1) = mode_byte_size(st.op1_mode)
             /\ b2 \in Seq(Byte) /\ Len(b2) = mode_byte_size(st.op2_mode)
<1>1. CASE st.kind = "STMT_INSTRUCTION"
  <2>1. /\ resolves(st.op1) /\ st.op1.value \in Int
        /\ resolves(st.op2) /\ st.op2.value \in Int
    BY <1>1 DEF emits, IsBody
  <2>2. resolve_value(st.op1) \in Int /\ resolve_value(st.op2) \in Int
    BY <2>1, ResolvedType
  <2> QED
    BY <2>2, OperandBytesType
<1>2. CASE st.kind # "STMT_INSTRUCTION"
  <2>1. mode_byte_size(st.op1_mode) = 0 /\ mode_byte_size(st.op2_mode) = 0
    <3>1. st.op1_mode = MODE_NONE /\ st.op2_mode = MODE_NONE
      BY <1>2 DEF IsBody
    <3> QED
      BY <3>1 DEF mode_byte_size, MODE_NONE, MODE_REG, MODE_REG_INDIRECT,
                  MODE_IMM8
  <2> QED
    BY <2>1, OperandBytesType
<1> QED
  BY <1>1, <1>2

LEMMA StoreType ==
  ASSUME NEW m, IsMemory(m), NEW x \in Word, NEW bytes \in Seq(Byte)
  PROVE  IsMemory(store(m, x, bytes))
<1> DEFINE n == 65536 - x
           cut == SubSeq(bytes, 1, n)
<1>1. x \in Nat /\ x < 65536 /\ n \in Nat
  BY DEF Word
<1>2. CASE x + Len(bytes) <= 65536
  BY <1>2, WriteBlockType DEF store
<1>3. CASE ~(x + Len(bytes) <= 65536)
  <2>1. n <= Len(bytes)
    BY <1>1, <1>3
  <2> HIDE DEF n
  <2>2. cut \in Seq(Byte) /\ Len(cut) = n
    BY <1>1, <2>1
  <2> HIDE DEF cut
  <2>3. x + Len(cut) <= 65536
    BY <1>1, <2>2 DEF n
  <2>4. IsMemory(write_block(m, x, cut))
    BY <2>2, <2>3, WriteBlockType
  <2>5. store(m, x, bytes) = write_block(m, x, cut)
    BY <1>3 DEF store, cut, n
  <2> QED
    BY <2>4, <2>5
<1> QED
  BY <1>2, <1>3

LEMMA StoredType ==
  ASSUME NEW m, IsMemory(m), NEW st, IsStatement(st), emits(st),
         \A n \in DOMAIN symtab : symtab[n] \in Word
  PROVE  IsMemory(stored(m, st))
<1> DEFINE b1 == operand_bytes(st.op1_mode, st.op1)
           b2 == operand_bytes(st.op2_mode, st.op2)
           h  == head_bytes(st)
           a1 == (st.address + 2) % 65536
           a2 == (a1 + Len(b1)) % 65536
<1>1. stored(m, st) = store(store(store(m, st.address, h), a1, b1), a2, b2)
  BY DEF stored
<1>2. IsBody(st) /\ st.address \in Word
  BY DEF IsStatement
<1>3. h \in Seq(Byte) /\ b1 \in Seq(Byte) /\ b2 \in Seq(Byte)
  BY <1>2, HeadBytesType, OperandsEmitted
<1> HIDE DEF h, b1, b2
<1>4. a1 \in Word
  BY <1>2, WrapIsWord DEF Word
<1> HIDE DEF a1
<1>5. a2 \in Word
  BY <1>3, <1>4, WrapIsWord DEF Word
<1> HIDE DEF a2
<1> QED
  BY <1>1, <1>2, <1>3, <1>4, <1>5, StoreType

-----------------------------------------------------------------------------
\* What assemble_tokens cuts out of the buffers.

LEMMA SectionSizeType ==
  ASSUME AsmShape, NEW s \in Section
  PROVE  section_size(s) \in Word
<1>1. cursor[s] \in Word /\ start_addr[s] \in Word
  BY DEF AsmShape
<1>2. cursor[s] - start_addr[s] \in Int
  BY <1>1 DEF Word
<1>3. (cursor[s] - start_addr[s]) % 65536 \in Word /\ 0 \in Word
  BY <1>2, WrapIsWord DEF Word
<1> QED
  BY <1>3 DEF section_size

LEMMA SliceType ==
  ASSUME AsmShape, NEW s \in Section, NEW b \in Byte
  PROVE  slice(s, b) \in Seq(Byte) /\ Len(slice(s, b)) = section_size(s)
<1> DEFINE n == section_size(s)
           e(i) == LET a == start_addr[s] + i - 1
                   IN  IF a < 65536 THEN mem_read8(buffer[s], a) ELSE b
<1>1. n \in Nat
  BY SectionSizeType DEF Word
<1>2. ASSUME NEW i \in 1 .. n PROVE e(i) \in Byte
  BY Read8Type DEF AsmShape
<1>3. slice(s, b) = [i \in 1 .. n |-> e(i)]
  BY DEF slice
<1> HIDE DEF n, e
<1>4. [i \in 1 .. n |-> e(i)] \in Seq(Byte) /\ Len([i \in 1 .. n |-> e(i)]) = n
  BY <1>1, <1>2
<1> QED
  BY <1>3, <1>4 DEF n

LEMMA MakeImageType ==
  ASSUME AsmShape, NEW b \in Byte
  PROVE  IsImage(make_image(b))
<1> DEFINE i == make_image(b)
           cs == section_size("code")
           ds == section_size("data")
           body == slice("code", b) \o slice("data", b)
<1>0. "code" \in Section /\ "data" \in Section
  BY DEF Section
<1>1. cs \in Word /\ ds \in Word
  BY <1>0, SectionSizeType
<1>2. /\ slice("code", b) \in Seq(Byte) /\ Len(slice("code", b)) = cs
      /\ slice("data", b) \in Seq(Byte) /\ Len(slice("data", b)) = ds
  BY <1>0, SliceType
<1> HIDE DEF cs, ds
<1>3. body \in Seq(Byte) /\ Len(body) = cs + ds
  BY <1>2
<1> HIDE DEF body
<1>4. /\ i.size = BVM_HEADER_SIZE + cs + ds
      /\ i.magic = TRUE /\ i.version = 1 /\ i.reserved = 0
      /\ i.entry_point = start_addr["code"]
      /\ i.code_size = cs /\ i.code_addr = start_addr["code"]
      /\ i.data_size = ds /\ i.data_addr = start_addr["data"]
      /\ i.body = body
  BY DEF make_image, cs, ds, body
<1>5. start_addr["code"] \in Word /\ start_addr["data"] \in Word
  BY <1>0 DEF AsmShape
<1> HIDE DEF i
<1>6. i.size \in Nat /\ Len(body) = i.size - BVM_HEADER_SIZE
  BY <1>1, <1>3, <1>4 DEF BVM_HEADER_SIZE, Word
<1>7. 1 \in Byte /\ 0 \in Byte
  BY DEF Byte
<1>8. i.magic \in BOOLEAN
  BY <1>4, Zenon
<1>9. IsImage(i)
  BY <1>1, <1>3, <1>4, <1>5, <1>6, <1>7, <1>8, Zenon DEF IsImage
<1> QED
  BY <1>9 DEF i

-----------------------------------------------------------------------------
\* Every step of assemble() keeps the shape.

\* A statement that takes no bytes.
LEMMA EmptyStatement ==
  /\ IsStatement(Statement("STMT_ORG", 0))
  /\ IsStatement(Statement("STMT_DATA_SECTION", 0))
  /\ Statement("STMT_ORG", 0).encoded_size = 0
  /\ Statement("STMT_DATA_SECTION", 0).encoded_size = 0
  BY DEF IsStatement, IsBody, Statement, OPKIND_NONE, ParsedOperand, MODE_NONE,
         Section, Word

LabelStatement(l, a) ==
  [Statement("STMT_LABEL", 0) EXCEPT !.label = l, !.address = a]

LEMMA LabelType ==
  ASSUME NEW l, NEW a \in Word
  PROVE  LET st == LabelStatement(l, a) IN
         /\ IsStatement(st) /\ st.encoded_size = 0 /\ st.address = a
         /\ st.label = l /\ st.kind = "STMT_LABEL"
  BY DEF LabelStatement, IsStatement, IsBody, Statement, OPKIND_NONE,
         ParsedOperand, MODE_NONE, Section, Word

\* An action that appends a statement or none, and moves a counter or the
\* section.
LEMMA LineShape ==
  ASSUME AsmShape, pos' \in DOMAIN tokens, stage' \in {"line", "rest", "eol"},
         stage \in {"line", "rest", "eol"},
         \/ stmts' = stmts
         \/ \E st : IsStatement(st) /\ stmts' = Append(stmts, st),
         \A n \in DOMAIN symtab' : symtab'[n] \in Word,
         section' \in Section, cursor' \in [Section -> Word],
         extent' \in Nat, extent' <= Overrun,
         UNCHANGED <<tokens, started, start_addr, next, buffer, image>>
  PROVE  AsmShape'
<1>1. /\ IsSeq(stmts') /\ Len(stmts') \in Nat /\ Len(stmts') >= Len(stmts)
      /\ \A i \in 1 .. Len(stmts') : IsStatement(stmts'[i])
  <2>1. CASE stmts' = stmts
    BY <2>1, AppendSeq DEF AsmShape
  <2>2. CASE stmts' # stmts
    <3>1. PICK st : IsStatement(st) /\ stmts' = Append(stmts, st)
      BY <2>2
    <3>2. /\ IsSeq(stmts') /\ Len(stmts') = Len(stmts) + 1 /\ Len(stmts) \in Nat
          /\ \A i \in 1 .. Len(stmts) : stmts'[i] = stmts[i]
          /\ stmts'[Len(stmts) + 1] = st
      BY <3>1, AppendSeq DEF AsmShape
    <3>3. ASSUME NEW i \in 1 .. Len(stmts') PROVE IsStatement(stmts'[i])
      <4>1. CASE i \in 1 .. Len(stmts)
        BY <3>2, <4>1 DEF AsmShape
      <4>2. CASE i = Len(stmts) + 1
        BY <3>1, <3>2, <4>2
      <4> QED
        BY <3>2, <4>1, <4>2
    <3> QED
      BY <3>2, <3>3
  <2> QED
    BY <2>1, <2>2
<1>2. next' = 1 /\ next' <= Len(stmts') + 1
  BY <1>1 DEF AsmShape
<1> QED
  BY <1>1, <1>2 DEF AsmShape, IsTokenList, IsImage, IsMemory

\* The places the parser looks at.
LEMMA Places ==
  ASSUME AsmShape
  PROVE  /\ pos \in DOMAIN tokens /\ pos \in Nat
         /\ advance(pos) \in DOMAIN tokens /\ advance(pos) \in Nat
         /\ advance(advance(pos)) \in DOMAIN tokens
         /\ advance(advance(pos)) \in Nat
         /\ pos <= advance(pos) /\ advance(pos) <= advance(advance(pos))
         /\ here \in TokenSet /\ argument \in TokenSet
         /\ here.type # "TOK_EOF" => advance(pos) = pos + 1
<1>1. IsTokenList(tokens) /\ pos \in DOMAIN tokens
  BY DEF AsmShape
<1>2. /\ advance(pos) \in DOMAIN tokens /\ pos \in Nat /\ advance(pos) \in Nat
      /\ pos <= advance(pos)
      /\ here.type # "TOK_EOF" => advance(pos) = pos + 1
  BY <1>1, AdvanceType DEF here
<1>3. /\ advance(advance(pos)) \in DOMAIN tokens
      /\ advance(advance(pos)) \in Nat
      /\ advance(pos) <= advance(advance(pos))
  BY <1>1, <1>2, AdvanceType
<1> QED
  BY <1>1, <1>2, <1>3, TokenListType DEF here, argument

\* What the branches of parse_line hand to place().
LEMMA PlacedBodies ==
  ASSUME AsmShape, at_statement,
         NEW st, NEW p,
         \/ /\ accepts_instruction
            /\ st = parse_instruction(MNEMONICS[here.text], advance(pos)).stmt
            /\ p = parse_instruction(MNEMONICS[here.text], advance(pos)).next
         \/ /\ accepts_string
            /\ st = [Statement("STMT_STRING", Len(Append(argument.str_value, 0)))
                       EXCEPT !.string_bytes = Append(argument.str_value, 0)]
            /\ p = advance(advance(pos))
         \/ /\ accepts_word
            /\ st = [Statement("STMT_WORD", 2) EXCEPT
                       !.op1 = parse_operand(advance(pos), OP_NOP).operand]
            /\ p = parse_operand(advance(pos), OP_NOP).next
         \/ /\ accepts_byte
            /\ st = [Statement("STMT_BYTE", 1) EXCEPT
                       !.op1 = parse_operand(advance(pos), OP_NOP).operand]
            /\ p = parse_operand(advance(pos), OP_NOP).next
  PROVE  /\ IsBody(st) /\ st.encoded_size > 0 /\ st.kind # "STMT_LABEL"
         /\ p \in DOMAIN tokens /\ p > pos /\ p <= Len(tokens)
<1> USE Places
<1>1. /\ IsTokenList(tokens) /\ DOMAIN tokens = 1 .. Len(tokens)
      /\ Len(tokens) \in Nat
  BY TokenListType DEF AsmShape
<1>2. CASE /\ accepts_instruction
           /\ st = parse_instruction(MNEMONICS[here.text], advance(pos)).stmt
           /\ p = parse_instruction(MNEMONICS[here.text], advance(pos)).next
  <2>1. /\ here.type = "TOK_IDENT" /\ here.text \in DOMAIN MNEMONICS
        /\ parse_instruction(MNEMONICS[here.text], advance(pos)).ok
    BY <1>2 DEF accepts_instruction
  <2>2. MNEMONICS[here.text] \in Opcode
    BY <2>1, MnemonicValue
  <2>3. /\ IsBody(st) /\ st.kind = "STMT_INSTRUCTION"
        /\ p \in DOMAIN tokens /\ p >= advance(pos)
    BY <1>1, <1>2, <2>1, <2>2, ParseInstructionType
  <2>4. st.encoded_size > 0
    BY <2>3, ModeSize DEF IsBody
  <2>5. advance(pos) = pos + 1
    BY <2>1
  <2> QED
    BY <1>1, <2>3, <2>4, <2>5
<1>3. CASE /\ accepts_string
           /\ st = [Statement("STMT_STRING", Len(Append(argument.str_value, 0)))
                      EXCEPT !.string_bytes = Append(argument.str_value, 0)]
           /\ p = advance(advance(pos))
  <2> DEFINE bytes == Append(argument.str_value, 0)
  <2>1. argument.str_value \in Seq(Byte) /\ 0 \in Byte
    BY DEF TokenSet, Byte
  <2>2. bytes \in Seq(Byte) /\ Len(bytes) > 0 /\ Len(bytes) \in Nat /\ bytes # <<>>
    BY <2>1
  <2>3. advance(pos) = pos + 1
    BY <1>3 DEF accepts_string, is_directive
  <2> HIDE DEF bytes
  <2>4. st = [Statement("STMT_STRING", Len(bytes)) EXCEPT !.string_bytes = bytes]
    BY <1>3 DEF bytes
  <2>5. /\ st.kind = "STMT_STRING" /\ st.encoded_size = Len(bytes)
        /\ st.string_bytes = bytes /\ st.op1_mode = MODE_NONE
        /\ st.op2_mode = MODE_NONE /\ st.op1 = OPKIND_NONE /\ st.op2 = OPKIND_NONE
        /\ {"section", "address"} \subseteq DOMAIN st
    BY <2>4 DEF Statement
  <2>6. OPKIND_NONE.value \in Int /\ MODE_NONE \in 0 .. 5
    BY DEF OPKIND_NONE, ParsedOperand, MODE_NONE
  <2>7. IsBody(st)
    BY <2>2, <2>5, <2>6 DEF IsBody
  <2> QED
    BY <1>1, <1>3, <2>2, <2>3, <2>5, <2>7
<1>4. ASSUME is_directive("word") \/ is_directive("byte"),
             NEW k \in {"STMT_WORD", "STMT_BYTE"},
             st = [Statement(k, IF k = "STMT_WORD" THEN 2 ELSE 1) EXCEPT
                     !.op1 = parse_operand(advance(pos), OP_NOP).operand],
             k = "STMT_BYTE" =>
               parse_operand(advance(pos), OP_NOP).operand.kind = "NUMBER",
             p = parse_operand(advance(pos), OP_NOP).next
      PROVE  /\ IsBody(st) /\ st.encoded_size > 0 /\ st.kind # "STMT_LABEL"
             /\ p \in DOMAIN tokens /\ p > pos /\ p <= Len(tokens)
  <2> DEFINE o == parse_operand(advance(pos), OP_NOP).operand
             n == IF k = "STMT_WORD" THEN 2 ELSE 1
  <2>1. advance(pos) = pos + 1
    BY <1>4 DEF is_directive
  <2>2. o.value \in Int /\ p \in DOMAIN tokens /\ p >= advance(pos)
    BY <1>1, <1>4, ParseOperandType
  <2> HIDE DEF o
  <2>3. /\ st.kind = k /\ st.encoded_size = n
        /\ st.op1_mode = MODE_NONE
        /\ st.op2_mode = MODE_NONE /\ st.op1 = o /\ st.op2 = OPKIND_NONE
        /\ {"section", "address"} \subseteq DOMAIN st
    <3> HIDE DEF n
    <3>1. st = [Statement(k, n) EXCEPT !.op1 = o]
      BY <1>4 DEF o, n
    <3> QED
      BY <3>1 DEF Statement
  <2>4. OPKIND_NONE.value \in Int /\ MODE_NONE \in 0 .. 5
    BY DEF OPKIND_NONE, ParsedOperand, MODE_NONE
  <2>5. k = "STMT_BYTE" => o.kind = "NUMBER"
    BY <1>4 DEF o
  <2>6. IsBody(st)
    BY <2>2, <2>3, <2>4, <2>5 DEF IsBody
  <2> QED
    BY <1>1, <2>1, <2>2, <2>3, <2>6
<1>5. CASE /\ accepts_word
           /\ st = [Statement("STMT_WORD", 2) EXCEPT
                      !.op1 = parse_operand(advance(pos), OP_NOP).operand]
           /\ p = parse_operand(advance(pos), OP_NOP).next
  BY <1>4, <1>5 DEF accepts_word
<1>6. CASE /\ accepts_byte
           /\ st = [Statement("STMT_BYTE", 1) EXCEPT
                      !.op1 = parse_operand(advance(pos), OP_NOP).operand]
           /\ p = parse_operand(advance(pos), OP_NOP).next
  BY <1>4, <1>6 DEF accepts_byte
<1> QED
  BY <1>2, <1>3, <1>5, <1>6

\* The four branches that place a statement, as one.
PlacesStatement(st, p) ==
  /\ stage \in {"line", "rest"}
  /\ IsBody(st) /\ st.encoded_size > 0 /\ st.kind # "STMT_LABEL"
  /\ p \in DOMAIN tokens /\ p > pos
  /\ place(st, p)

LEMMA PlacingSteps ==
  ASSUME AsmShape,
         \/ parse_instruction_statement \/ parse_string
         \/ parse_word \/ parse_byte
  PROVE  \E st, p : PlacesStatement(st, p)
<1>1. at_statement /\ stage \in {"line", "rest"}
  BY DEF parse_instruction_statement, parse_string, parse_word, parse_byte,
         at_statement
<1>2. CASE parse_instruction_statement
  <2> DEFINE i == parse_instruction(MNEMONICS[here.text], advance(pos))
  <2>1. accepts_instruction /\ place(i.stmt, i.next)
    BY <1>2 DEF parse_instruction_statement
  <2> HIDE DEF i
  <2>2. PlacesStatement(i.stmt, i.next)
    BY <1>1, <2>1, PlacedBodies DEF PlacesStatement, i
  <2> QED
    BY <2>2
<1>3. CASE parse_string
  <2> DEFINE bytes == Append(argument.str_value, 0)
             st == [Statement("STMT_STRING", Len(bytes)) EXCEPT
                      !.string_bytes = bytes]
             p == advance(advance(pos))
  <2>1. accepts_string /\ place(st, p)
    BY <1>3 DEF parse_string
  <2>2. IsBody(st) /\ st.encoded_size > 0 /\ st.kind # "STMT_LABEL"
        /\ p \in DOMAIN tokens /\ p > pos
    BY <1>1, <2>1, PlacedBodies
  <2> HIDE DEF st, p
  <2>3. PlacesStatement(st, p)
    BY <1>1, <2>1, <2>2 DEF PlacesStatement
  <2> QED
    BY <2>3
<1>4. CASE parse_word
  <2> DEFINE a == parse_operand(advance(pos), OP_NOP)
             st == [Statement("STMT_WORD", 2) EXCEPT !.op1 = a.operand]
             p == a.next
  <2>1. accepts_word /\ place(st, p)
    BY <1>4 DEF parse_word
  <2>2. IsBody(st) /\ st.encoded_size > 0 /\ st.kind # "STMT_LABEL"
        /\ p \in DOMAIN tokens /\ p > pos
    BY <1>1, <2>1, PlacedBodies
  <2> HIDE DEF st, p
  <2>3. PlacesStatement(st, p)
    BY <1>1, <2>1, <2>2 DEF PlacesStatement
  <2> QED
    BY <2>3
<1>5. CASE parse_byte
  <2> DEFINE a == parse_operand(advance(pos), OP_NOP)
             st == [Statement("STMT_BYTE", 1) EXCEPT !.op1 = a.operand]
             p == a.next
  <2>1. accepts_byte /\ place(st, p)
    BY <1>5 DEF parse_byte
  <2>2. IsBody(st) /\ st.encoded_size > 0 /\ st.kind # "STMT_LABEL"
        /\ p \in DOMAIN tokens /\ p > pos
    BY <1>1, <2>1, PlacedBodies
  <2> HIDE DEF st, p
  <2>3. PlacesStatement(st, p)
    BY <1>1, <2>1, <2>2 DEF PlacesStatement
  <2> QED
    BY <2>3
<1> QED
  BY <1>2, <1>3, <1>4, <1>5

\* What .org does to a counter.
LEMMA OrgMoves ==
  ASSUME AsmShape, parse_org
  PROVE  /\ argument.num_value \in Word
         /\ argument.num_value >= cursor[section]
         /\ cursor' = [cursor EXCEPT ![section] = argument.num_value]
         /\ extent' = IF extent >= 65536 THEN Overrun ELSE argument.num_value
         /\ extent' \in Nat /\ extent' <= Overrun
         /\ pos' \in DOMAIN tokens /\ pos' > pos
<1>1. argument.num_value >= cursor[section]
  BY DEF parse_org, accepts_org
<1>2. argument.num_value \in Word
  BY DEF parse_org, accepts_org
<1>3. here.type = "TOK_DIRECTIVE"
  BY DEF parse_org, accepts_org, is_directive
<1>4. extent' = IF extent >= 65536 THEN Overrun ELSE argument.num_value
  BY DEF parse_org
<1>5. extent' \in Nat /\ extent' <= Overrun
  BY <1>2, <1>4 DEF Overrun, Word
<1> QED
  BY <1>1, <1>2, <1>3, <1>4, <1>5, Places DEF parse_org

LEMMA AsmShapeStep ==
  ASSUME AsmShape, AsmNext
  PROVE  AsmShape'
<1> USE Places
<1>1. ASSUME fail PROVE AsmShape'
  BY <1>1 DEF fail, AsmShape, IsTokenList, IsImage, IsMemory
<1>2. CASE skip_newline
  <2>1. pos' \in DOMAIN tokens /\ stage' = "line" /\ stage = "line"
    BY <1>2 DEF skip_newline
  <2>2. UNCHANGED <<tokens, stmts, symtab, section, cursor, started,
                    start_addr, next, buffer, image, extent>>
    BY <1>2 DEF skip_newline
  <2> QED
    BY <2>1, <2>2, LineShape DEF AsmShape
<1>3. CASE define_label
  <2> DEFINE addr == cursor[section]
  <2>1. addr \in Word /\ section \in Section
    BY DEF AsmShape
  <2>2. /\ symtab' = symtab_put(here.text, addr)
        /\ stmts' = Append(stmts, LabelStatement(here.text, addr))
        /\ pos' = advance(advance(pos))
        /\ stage = "line" /\ stage' \in {"line", "rest", "eol"}
        /\ UNCHANGED <<tokens, section, cursor, started, start_addr, next,
                       buffer, image, extent>>
    BY <1>3 DEF define_label, LabelStatement
  <2> HIDE DEF addr
  <2>3. \A n \in DOMAIN symtab' : symtab'[n] \in Word
    BY <2>1, <2>2 DEF symtab_put, AsmShape
  <2>4. IsStatement(LabelStatement(here.text, addr))
    BY <2>1, LabelType
  <2> QED
    BY <2>1, <2>2, <2>3, <2>4, LineShape DEF AsmShape
<1>4. CASE duplicate_label
  BY <1>1, <1>4 DEF duplicate_label
<1>5. CASE \/ parse_instruction_statement \/ parse_string
           \/ parse_word \/ parse_byte
  <2>1. PICK st, p : PlacesStatement(st, p)
    BY <1>5, PlacingSteps
  <2> QED
    BY <2>1, PlaceShape DEF PlacesStatement
<1>6. CASE parse_org
  <2>1. /\ stmts' = Append(stmts, Statement("STMT_ORG", 0))
        /\ stage' = "eol" /\ stage \in {"line", "rest"}
        /\ UNCHANGED <<tokens, symtab, section, started, start_addr, next,
                       buffer, image>>
    BY <1>6 DEF parse_org, at_statement
  <2>2. /\ argument.num_value \in Word
        /\ cursor' = [cursor EXCEPT ![section] = argument.num_value]
        /\ extent' \in Nat /\ extent' <= Overrun /\ pos' \in DOMAIN tokens
    BY <1>6, OrgMoves
  <2>3. cursor' \in [Section -> Word]
    BY <2>2 DEF AsmShape
  <2> QED
    BY <2>1, <2>2, <2>3, EmptyStatement, LineShape DEF AsmShape
<1>7. CASE parse_data
  <2>1. /\ section' = "data"
        /\ cursor' = [cursor EXCEPT !["data"] = cursor["code"]]
        /\ stmts' = Append(stmts, Statement("STMT_DATA_SECTION", 0))
        /\ pos' = advance(pos) /\ stage' = "eol" /\ stage \in {"line", "rest"}
        /\ UNCHANGED <<tokens, symtab, started, start_addr, next, buffer, image,
                       extent>>
    BY <1>7 DEF parse_data, at_statement
  <2>2. cursor' \in [Section -> Word] /\ section' \in Section
    BY <2>1 DEF AsmShape, Section
  <2> QED
    BY <2>1, <2>2, EmptyStatement, LineShape DEF AsmShape
<1>8. CASE parse_fails
  BY <1>1, <1>8 DEF parse_fails
<1>9. CASE end_of_line
  <2>1. CASE fail
    BY <1>1, <2>1
  <2>2. CASE /\ pos' = IF here.type = "TOK_NEWLINE" THEN advance(pos) ELSE pos
             /\ stage' = "line"
             /\ UNCHANGED <<tokens, stmts, symtab, section, cursor, started,
                            start_addr, next, buffer, image, extent>>
    <3>1. pos' \in DOMAIN tokens /\ stage = "eol"
      BY <1>9, <2>2 DEF end_of_line
    <3> QED
      BY <2>2, <3>1, LineShape DEF AsmShape
  <2> QED
    BY <1>9, <2>1, <2>2 DEF end_of_line
<1>10. CASE end_of_source
  BY <1>10 DEF end_of_source, AsmShape, IsTokenList, IsImage, IsMemory
<1>11. CASE emit_statement
  <2>1. CASE fail
    BY <1>1, <2>1
  <2> DEFINE st == stmts[next]
  <2>2. CASE /\ emits(st)
             /\ buffer' = [buffer EXCEPT ![st.section] = stored(@, st)]
             /\ next' = next + 1
             /\ UNCHANGED <<tokens, parser, image, extent>>
    <3>1. next <= Len(stmts) /\ stage = "emit"
      BY <1>11 DEF emit_statement
    <3>2. Len(stmts) \in Nat
      BY AppendSeq DEF AsmShape
    <3>3. IsStatement(st) /\ st.section \in Section
      BY <3>1, <3>2 DEF AsmShape, IsStatement
    <3> HIDE DEF st
    <3>4. IsMemory(stored(buffer[st.section], st))
      BY <2>2, <3>3, StoredType DEF AsmShape
    <3>5. buffer' = [s \in Section |-> IF s = st.section
                                       THEN stored(buffer[st.section], st)
                                       ELSE buffer[s]]
      BY <2>2, <3>3 DEF AsmShape
    <3>6. /\ buffer' = [s \in Section |-> buffer'[s]]
          /\ \A s \in Section : IsMemory(buffer'[s])
      BY <3>4, <3>5 DEF AsmShape
    <3>7. next' \in Nat /\ next' >= 1 /\ next' <= Len(stmts') + 1
      BY <2>2, <3>1, <3>2 DEF AsmShape, parser
    <3> QED
      BY <2>2, <3>1, <3>6, <3>7 DEF AsmShape, parser, IsTokenList, IsImage
  <2> QED
    BY <1>11, <2>1, <2>2 DEF emit_statement
<1>12. CASE make_result
  <2>1. PICK b \in PastBuffer : image' = make_image(b)
    BY <1>12 DEF make_result
  <2>2. IsImage(image')
    BY <2>1, PastBufferAssumption, MakeImageType
  <2> QED
    BY <1>12, <2>2 DEF make_result, AsmShape, IsTokenList, IsImage, IsMemory
<1> QED
  BY <1>2, <1>3, <1>4, <1>5, <1>6, <1>7, <1>8, <1>9, <1>10, <1>11, <1>12
     DEF AsmNext, PassOne

LEMMA ShapeIsType == AsmShape => AsmTypeOK
<1> SUFFICES ASSUME AsmShape PROVE AsmTypeOK
  OBVIOUS
<1>1. Len(stmts) \in Nat /\ DOMAIN stmts = 1 .. Len(stmts)
  BY AppendSeq DEF AsmShape
<1>2. \A i \in DOMAIN stmts : stmts[i].section \in Section
                               /\ stmts[i].address \in Word
                               /\ stmts[i].encoded_size \in Nat
  BY <1>1 DEF AsmShape, IsStatement, IsBody
<1>3. next \in 1 .. Len(stmts) + 1
  BY <1>1 DEF AsmShape
<1> QED
  BY <1>2, <1>3 DEF AsmShape, AsmTypeOK

-----------------------------------------------------------------------------
\* The layout of a program that fits.

\* How far the code has really got.
code_extent ==
  IF section = "code" THEN extent
  ELSE IF started["code"] /\ cursor["code"] = 0 THEN 65536 ELSE cursor["code"]

\* The counters count, code lies below data and starts below its end.
Counters ==
  /\ extent <= 65536 /\ cursor[section] = extent % 65536
  /\ code_extent <= extent /\ cursor["code"] = code_extent % 65536
  /\ started["code"] => start_addr["code"] < code_extent
  /\ started["data"] => /\ section = "data"
                        /\ code_extent <= start_addr["data"]
                        /\ start_addr["data"] < extent
  /\ section = "code" /\ extent = 65536 => started["code"]

\* A statement with bytes lies in its section.
InSection(st, has, from, e, ce) ==
  /\ has[st.section]
  /\ from[st.section] <= st.address
  /\ st.address + st.encoded_size <= e
  /\ st.section = "code" => st.address + st.encoded_size <= ce

StatementsPlaced ==
  \A i \in 1 .. Len(stmts) :
    occupies(stmts[i]) =>
      InSection(stmts[i], started, start_addr, extent, code_extent)

Layout ==
  /\ Fits => Counters /\ StatementsPlaced
  /\ StatementsInOrder
  /\ \A s \in Section : ~started[s] => start_addr[s] = 0

LEMMA Updated ==
  ASSUME NEW S, NEW T, NEW f \in [S -> T], NEW x \in S, NEW v
  PROVE  /\ [f EXCEPT ![x] = v][x] = v
         /\ \A y \in S : y # x => [f EXCEPT ![x] = v][y] = f[y]
  OBVIOUS

\* The counters after a statement was placed.
LEMMA PlaceCounters ==
  ASSUME AsmShape, Layout, NEW st, NEW p, PlacesStatement(st, p), Fits'
  PROVE  /\ Fits /\ Counters
         /\ extent < 65536 /\ cursor[section] = extent
         /\ extent' = extent + st.encoded_size /\ extent' <= 65536
         /\ st.encoded_size \in Nat
         /\ section' = section /\ section \in Section
         /\ started' = [started EXCEPT ![section] = TRUE]
         /\ start_addr' = IF started[section] THEN start_addr
                          ELSE [start_addr EXCEPT ![section] = extent]
         /\ cursor' = [cursor EXCEPT ![section] = extent' % 65536]
         /\ code_extent' = IF section = "code" THEN extent' ELSE code_extent
<1>1. /\ extent' = grown(extent, st.encoded_size)
      /\ section' = section
      /\ started' = [started EXCEPT ![section] = TRUE]
      /\ start_addr' = IF started[section] THEN start_addr
                       ELSE [start_addr EXCEPT ![section] = cursor[section]]
      /\ cursor' = [cursor EXCEPT ![section] = (cursor[section] + st.encoded_size) % 65536]
      /\ st.encoded_size \in Nat /\ st.encoded_size > 0
  BY DEF PlacesStatement, place, IsBody
<1>2. extent \in Nat /\ section \in Section
  BY DEF AsmShape
<1>3. extent' = extent + st.encoded_size /\ extent' <= 65536 /\ extent < 65536
  BY <1>1, <1>2 DEF Fits, grown, Overrun
<1>4. Fits
  BY <1>2, <1>3 DEF Fits, Overrun
<1>5. Counters
  BY <1>4 DEF Layout
<1>6. cursor[section] = extent
  BY <1>2, <1>3, <1>5 DEF Counters
<1>7. cursor' = [cursor EXCEPT ![section] = extent' % 65536]
  BY <1>1, <1>3, <1>6
<1>8. code_extent' = IF section = "code" THEN extent' ELSE code_extent
  <2>1. CASE section = "code"
    BY <1>1, <2>1 DEF code_extent
  <2>2. CASE section # "code"
    <3>1. cursor \in [Section -> Word] /\ started \in [Section -> BOOLEAN]
          /\ "code" \in Section
      BY DEF AsmShape, Section
    <3>2. cursor'["code"] = cursor["code"]
      BY <1>1, <2>2, <3>1
    <3>3. started'["code"] = started["code"]
      <4>1. [started EXCEPT ![section] = TRUE]["code"] = started["code"]
        BY <1>2, <2>2, <3>1, Updated
      <4>2. started' = [started EXCEPT ![section] = TRUE]
        BY <1>1
      <4> QED
        BY <4>1, <4>2, Zenon
    <3> QED
      BY <1>1, <2>2, <3>2, <3>3 DEF code_extent
  <2> QED
    BY <2>1, <2>2
<1> QED
  BY <1>1, <1>2, <1>3, <1>4, <1>5, <1>6, <1>7, <1>8

LEMMA PlaceLayout ==
  ASSUME AsmShape, Layout, NEW st, NEW p, PlacesStatement(st, p)
  PROVE  Layout'
<1> DEFINE n == Len(stmts) + 1
           t == Placed(st)
<1>1. /\ stmts' = Append(stmts, t)
      /\ section' = section /\ section \in Section /\ cursor[section] \in Word
      /\ started' = [started EXCEPT ![section] = TRUE]
      /\ start_addr' = IF started[section] THEN start_addr
                       ELSE [start_addr EXCEPT ![section] = cursor[section]]
  BY DEF PlacesStatement, place, Placed, AsmShape
<1>2. /\ DOMAIN stmts' = 1 .. n /\ Len(stmts') = n /\ Len(stmts) \in Nat
      /\ DOMAIN stmts = 1 .. Len(stmts)
      /\ \A i \in 1 .. Len(stmts) : stmts'[i] = stmts[i]
      /\ stmts'[n] = t
  BY <1>1, AppendSeq DEF AsmShape
<1>3. /\ t.section = section /\ t.address = cursor[section]
      /\ t.encoded_size = st.encoded_size
  BY <1>1, PlacedType DEF PlacesStatement
<1> HIDE DEF t, n
<1>4. ASSUME NEW s \in Section, ~started'[s] PROVE start_addr'[s] = 0
  <2>1. s # section /\ ~started[s]
    BY <1>1, <1>4 DEF AsmShape
  <2> QED
    BY <1>1, <2>1 DEF Layout, AsmShape
<1>5. ASSUME Fits' PROVE Counters' /\ StatementsPlaced' /\ StatementsInOrder'
  <2>1. /\ Fits /\ Counters
        /\ extent < 65536 /\ cursor[section] = extent
        /\ extent' = extent + st.encoded_size /\ extent' <= 65536
        /\ st.encoded_size \in Nat
        /\ start_addr' = IF started[section] THEN start_addr
                         ELSE [start_addr EXCEPT ![section] = extent]
        /\ cursor' = [cursor EXCEPT ![section] = extent' % 65536]
        /\ code_extent' = IF section = "code" THEN extent' ELSE code_extent
    BY <1>5, PlaceCounters
  <2>2. /\ cursor \in [Section -> Word] /\ start_addr \in [Section -> Word]
        /\ started \in [Section -> BOOLEAN] /\ extent \in Nat
        /\ st.encoded_size > 0
    BY DEF AsmShape, PlacesStatement
  <2>3. code_extent \in Nat /\ code_extent <= extent
    BY <2>1, <2>2 DEF code_extent, Counters, Section, Word
  <2>4. /\ cursor'[section] = extent' % 65536
        /\ \A s \in Section \ {section} :
              /\ cursor'[s] = cursor[s] /\ start_addr'[s] = start_addr[s]
              /\ started'[s] = started[s]
        /\ started'[section] = TRUE
        /\ start_addr'[section] = IF started[section] THEN start_addr[section]
                                                      ELSE extent
    BY <1>1, <2>1, <2>2
  <2>5. Counters'
    <3>1. CASE section = "code"
      <4>1. ~started["data"]
        BY <2>1, <3>1 DEF Counters
      <4>2. ~started'["data"]
        BY <2>4, <3>1, <4>1 DEF Section
      <4>3. start_addr'["code"] < extent'
        BY <2>1, <2>2, <2>4, <3>1 DEF Counters, code_extent, Word, Section
      <4> QED
        BY <1>1, <2>1, <2>2, <2>4, <3>1, <4>2, <4>3 DEF Counters
    <3>2. CASE section = "data"
      <4>1. /\ cursor'["code"] = cursor["code"]
            /\ start_addr'["code"] = start_addr["code"]
            /\ started'["code"] = started["code"]
        BY <2>4, <3>2 DEF Section
      <4>2. /\ code_extent <= start_addr'["data"]
            /\ start_addr'["data"] < extent'
        BY <2>1, <2>2, <2>3, <2>4, <3>2 DEF Counters, Word, Section
      <4>3. /\ started["code"] => start_addr["code"] < code_extent
            /\ cursor["code"] = code_extent % 65536
        BY <2>1 DEF Counters
      <4>4. /\ section' = "data" /\ code_extent' = code_extent
            /\ cursor'[section'] = extent' % 65536
            /\ extent' <= 65536 /\ code_extent' <= extent'
        <5>1. /\ extent' = extent + st.encoded_size /\ st.encoded_size \in Nat
              /\ code_extent' = code_extent /\ extent' <= 65536
          BY <2>1, <3>2
        <5> QED
          BY <1>1, <2>2, <2>3, <2>4, <3>2, <5>1
      <4> QED
        BY <4>1, <4>2, <4>3, <4>4 DEF Counters
    <3> QED
      BY <1>1, <3>1, <3>2 DEF Section
  <2>6. ASSUME NEW i \in 1 .. Len(stmts), occupies(stmts[i])
        PROVE  /\ InSection(stmts[i], started', start_addr', extent', code_extent')
               /\ stmts[i].address + stmts[i].encoded_size <= extent
    <3> DEFINE u == stmts[i]
    <3>1. InSection(u, started, start_addr, extent, code_extent)
      BY <2>1, <2>6 DEF Layout, StatementsPlaced
    <3>2. /\ u.section \in Section /\ u.address \in Word
          /\ u.encoded_size \in Nat
      BY DEF AsmShape, IsStatement, IsBody
    <3> HIDE DEF u
    <3>3. started'[u.section] /\ start_addr'[u.section] = start_addr[u.section]
      BY <2>4, <3>1, <3>2 DEF InSection
    <3>4. /\ u.address + u.encoded_size <= extent'
          /\ u.section = "code" => u.address + u.encoded_size <= code_extent'
      <4>1. /\ u.address + u.encoded_size <= extent
            /\ u.section = "code" => u.address + u.encoded_size <= code_extent
        BY <3>1 DEF InSection
      <4>2. extent <= extent' /\ extent' \in Nat
        <5>1. /\ extent' = extent + st.encoded_size /\ st.encoded_size \in Nat
              /\ extent \in Nat
          BY <2>1, <2>2
        <5> QED
          BY <5>1
      <4>3. code_extent <= code_extent' /\ code_extent' \in Nat
        <5>1. code_extent' = IF section = "code" THEN extent' ELSE code_extent
          BY <2>1
        <5> QED
          BY <2>2, <2>3, <4>2, <5>1
      <4>4. u.address + u.encoded_size \in Nat
        BY <3>2 DEF Word
      <4> DEFINE e == u.address + u.encoded_size
      <4> HIDE DEF e
      <4>5. e <= extent' /\ (u.section = "code" => e <= code_extent')
        BY <2>2, <2>3, <4>1, <4>2, <4>3, <4>4 DEF e
      <4> QED
        BY <4>5 DEF e
    <3> QED
      BY <3>1, <3>3, <3>4 DEF InSection, u
  <2>7. InSection(t, started', start_addr', extent', code_extent')
    <3>1. started[section] => start_addr[section] <= extent
      <4>1. start_addr[section] \in Nat
        BY <1>1, <2>2 DEF Word
      <4>2. CASE section = "code"
        <5>1. started["code"] => start_addr["code"] < code_extent
          BY <2>1 DEF Counters
        <5> QED
          BY <2>2, <2>3, <4>1, <4>2, <5>1
      <4>3. CASE section = "data"
        <5>1. started["data"] => start_addr["data"] < extent
          BY <2>1 DEF Counters
        <5> QED
          BY <2>2, <4>1, <4>3, <5>1
      <4> QED
        BY <1>1, <4>2, <4>3 DEF Section
    <3> QED
      BY <1>3, <2>1, <2>2, <2>4, <3>1 DEF InSection
  <2>8. StatementsPlaced'
    <3> SUFFICES ASSUME NEW i \in 1 .. n, occupies(stmts'[i])
                 PROVE  InSection(stmts'[i], started', start_addr', extent',
                                  code_extent')
      BY <1>2 DEF StatementsPlaced, occupies
    <3>1. CASE i \in 1 .. Len(stmts)
      BY <1>2, <2>6, <3>1
    <3>2. CASE i = n
      BY <1>2, <2>7, <3>2
    <3> QED
      BY <1>2, <3>1, <3>2 DEF n
  <2>9. StatementsInOrder'
    <3> SUFFICES ASSUME NEW i \in DOMAIN stmts', NEW j \in DOMAIN stmts', i < j,
                        occupies(stmts'[i]), occupies(stmts'[j])
                 PROVE  stmts'[i].address + stmts'[i].encoded_size
                          <= stmts'[j].address
      BY DEF StatementsInOrder, occupies
    <3>1. i \in 1 .. Len(stmts)
      BY <1>2 DEF n
    <3>2. CASE j \in 1 .. Len(stmts)
      BY <1>2, <2>1, <3>1, <3>2 DEF Layout, StatementsInOrder, occupies
    <3>3. CASE j = n
      BY <1>2, <1>3, <2>1, <2>6, <3>1, <3>3 DEF occupies
    <3> QED
      BY <1>2, <3>2, <3>3 DEF n
  <2> QED
    BY <2>5, <2>8, <2>9
<1>6. StatementsInOrder'
  BY <1>5 DEF StatementsInOrder, Fits
<1> QED
  BY <1>4, <1>5, <1>6 DEF Layout

\* No statement with bytes was appended.
NothingPlaced ==
  /\ Len(stmts') \in Nat
  /\ DOMAIN stmts' = 1 .. Len(stmts')
  /\ \A i \in DOMAIN stmts' :
       stmts'[i].encoded_size > 0 => i \in DOMAIN stmts /\ stmts'[i] = stmts[i]

LEMMA AppendEmpty ==
  ASSUME AsmShape,
         \/ stmts' = stmts
         \/ \E st : stmts' = Append(stmts, st) /\ st.encoded_size = 0
  PROVE  NothingPlaced
<1>1. Len(stmts) \in Nat /\ DOMAIN stmts = 1 .. Len(stmts)
  BY AppendSeq DEF AsmShape
<1>2. CASE stmts' = stmts
  BY <1>1, <1>2 DEF NothingPlaced
<1>3. CASE stmts' # stmts
  <2>1. PICK st : stmts' = Append(stmts, st) /\ st.encoded_size = 0
    BY <1>3
  <2>2. /\ DOMAIN stmts' = 1 .. Len(stmts) + 1 /\ Len(stmts') = Len(stmts) + 1
        /\ \A i \in 1 .. Len(stmts) : stmts'[i] = stmts[i]
        /\ stmts'[Len(stmts) + 1] = st
    BY <2>1, AppendSeq DEF AsmShape
  <2>3. ASSUME NEW i \in DOMAIN stmts', stmts'[i].encoded_size > 0
        PROVE  i \in DOMAIN stmts /\ stmts'[i] = stmts[i]
    <3>1. i # Len(stmts) + 1
      BY <2>1, <2>2, <2>3
    <3> QED
      BY <1>1, <2>2, <3>1
  <2> QED
    BY <1>1, <2>2, <2>3 DEF NothingPlaced
<1> QED
  BY <1>2, <1>3

\* The counters may move up as long as they stay counters.
LEMMA MoveLayout ==
  ASSUME AsmShape, Layout, NothingPlaced, UNCHANGED <<started, start_addr>>,
         Fits' => /\ Fits /\ Counters'
                  /\ extent' \in Nat /\ extent <= extent'
                  /\ code_extent' \in Nat /\ code_extent \in Nat
                  /\ code_extent <= code_extent'
  PROVE  Layout'
<1>1. ASSUME NEW s \in Section, ~started'[s] PROVE start_addr'[s] = 0
  BY <1>1 DEF Layout
<1>2. ASSUME Fits' PROVE StatementsPlaced'
  <2> SUFFICES ASSUME NEW i \in 1 .. Len(stmts'), occupies(stmts'[i])
               PROVE  InSection(stmts'[i], started', start_addr', extent',
                                code_extent')
    BY DEF StatementsPlaced, occupies
  <2>1. i \in 1 .. Len(stmts) /\ stmts'[i] = stmts[i]
    BY AppendSeq DEF NothingPlaced, occupies, AsmShape
  <2> DEFINE u == stmts[i]
  <2>2. InSection(u, started, start_addr, extent, code_extent)
    BY <1>2, <2>1 DEF Layout, StatementsPlaced, occupies
  <2>3. u.address \in Nat /\ u.encoded_size \in Nat /\ extent \in Nat
    BY <2>1 DEF AsmShape, IsStatement, IsBody, Word
  <2> HIDE DEF u
  <2>4. /\ extent' \in Nat /\ extent <= extent'
        /\ code_extent' \in Nat /\ code_extent \in Nat
        /\ code_extent <= code_extent'
    BY <1>2
  <2>5. /\ started'[u.section] /\ start_addr'[u.section] <= u.address
        /\ u.address + u.encoded_size <= extent
        /\ u.section = "code" => u.address + u.encoded_size <= code_extent
    BY <2>2 DEF InSection
  <2> DEFINE e == u.address + u.encoded_size
  <2>6. e \in Nat
    BY <2>3
  <2> HIDE DEF e
  <2>7. e <= extent' /\ (u.section = "code" => e <= code_extent')
    BY <2>3, <2>4, <2>5, <2>6 DEF e
  <2>8. InSection(u, started', start_addr', extent', code_extent')
    BY <2>5, <2>7 DEF InSection, e
  <2> QED
    BY <2>1, <2>8 DEF u
<1>3. StatementsInOrder'
  <2> SUFFICES ASSUME Fits', NEW i \in DOMAIN stmts', NEW j \in DOMAIN stmts', i < j,
                      occupies(stmts'[i]), occupies(stmts'[j])
               PROVE  stmts'[i].address + stmts'[i].encoded_size
                        <= stmts'[j].address
    BY DEF StatementsInOrder, occupies, Fits
  <2>1. /\ i \in DOMAIN stmts /\ stmts'[i] = stmts[i]
        /\ j \in DOMAIN stmts /\ stmts'[j] = stmts[j]
    BY DEF NothingPlaced, occupies
  <2> QED
    BY <2>1 DEF Layout, StatementsInOrder
<1> QED
  BY <1>1, <1>2, <1>3 DEF Layout

\* Nothing that the layout depends on changes.
LEMMA SameLayout ==
  ASSUME AsmShape, Layout, NothingPlaced,
         UNCHANGED <<started, start_addr, section, cursor, extent>>
  PROVE  Layout'
<1>1. Counters' <=> Counters
  BY DEF Counters, code_extent
<1>2. code_extent' = code_extent /\ Fits' = Fits
  BY DEF code_extent, Fits
<1>3. extent \in Nat /\ code_extent \in Nat
  BY DEF AsmShape, code_extent, Section, Word
<1> QED
  BY <1>1, <1>2, <1>3, MoveLayout DEF Layout

LEMMA OrgLayout ==
  ASSUME AsmShape, Layout, parse_org
  PROVE  Layout'
<1> DEFINE a == argument.num_value
<1>1. /\ a \in Word /\ a >= cursor[section]
      /\ cursor' = [cursor EXCEPT ![section] = a]
      /\ extent' = IF extent >= 65536 THEN Overrun ELSE a
  BY OrgMoves
<1> HIDE DEF a
<1>2. /\ stmts' = Append(stmts, Statement("STMT_ORG", 0))
      /\ UNCHANGED <<started, start_addr, section>>
  BY DEF parse_org
<1>3. NothingPlaced
  BY <1>2, EmptyStatement, AppendEmpty
<1>4. /\ section \in Section /\ extent \in Nat
      /\ cursor \in [Section -> Word] /\ start_addr \in [Section -> Word]
      /\ started \in [Section -> BOOLEAN]
  BY DEF AsmShape
<1>5. ASSUME Fits'
      PROVE  /\ Fits /\ Counters'
             /\ extent' \in Nat /\ extent <= extent'
             /\ code_extent' \in Nat /\ code_extent \in Nat
             /\ code_extent <= code_extent'
  <2>1. Fits /\ extent < 65536 /\ extent' = a
    BY <1>1, <1>4, <1>5 DEF Fits, Overrun
  <2>2. Counters
    BY <2>1 DEF Layout
  <2>3. cursor[section] = extent /\ extent <= a /\ a \in Nat /\ a < 65536
    BY <1>1, <1>4, <2>1, <2>2 DEF Counters, Word
  <2>4. code_extent \in Nat
    BY <1>4 DEF code_extent, Section, Word
  <2>5. CASE section = "code"
    <3>1. code_extent' = a /\ code_extent = extent
      BY <1>2, <2>1, <2>5 DEF code_extent
    <3>2. cursor'["code"] = a
      BY <1>1, <1>4, <2>5
    <3>3. start_addr["code"] \in Nat
      BY <1>4, <2>5 DEF Word
    <3>4. ~started["data"]
      BY <2>2, <2>5 DEF Counters
    <3>5. Counters'
      BY <1>2, <2>1, <2>2, <2>3, <2>5, <3>1, <3>2, <3>3, <3>4, <1>4 DEF Counters
    <3> QED
      BY <1>4, <2>1, <2>3, <3>1, <3>5
  <2>6. CASE section = "data"
    <3>1. cursor'["code"] = cursor["code"] /\ cursor'["data"] = a
      BY <1>1, <1>4, <2>6 DEF Section
    <3>2. code_extent' = code_extent
      BY <1>2, <2>6, <3>1 DEF code_extent
    <3>3. start_addr["code"] \in Nat /\ start_addr["data"] \in Nat
      BY <1>4 DEF Word, Section
    <3>4. Counters'
      BY <1>2, <1>4, <2>1, <2>2, <2>3, <2>4, <2>6, <3>1, <3>2, <3>3 DEF Counters
    <3> QED
      BY <1>4, <2>1, <2>3, <2>4, <3>2, <3>4
  <2> QED
    BY <1>4, <2>5, <2>6 DEF Section
<1> QED
  BY <1>2, <1>3, <1>5, MoveLayout

LEMMA DataLayout ==
  ASSUME AsmShape, Layout, parse_data
  PROVE  Layout'
<1>1. /\ section' = "data" /\ section # "data"
      /\ cursor' = [cursor EXCEPT !["data"] = cursor["code"]]
      /\ stmts' = Append(stmts, Statement("STMT_DATA_SECTION", 0))
      /\ UNCHANGED <<started, start_addr, extent>>
  BY DEF parse_data, accepts_data
<1>2. NothingPlaced
  BY <1>1, EmptyStatement, AppendEmpty
<1>3. /\ section = "code" /\ extent \in Nat
      /\ cursor \in [Section -> Word] /\ start_addr \in [Section -> Word]
      /\ "code" \in Section /\ "data" \in Section
  BY <1>1 DEF AsmShape, Section
<1>4. cursor'["code"] = cursor["code"] /\ cursor'["data"] = cursor["code"]
  BY <1>1, <1>3
<1>5. ASSUME Fits'
      PROVE  /\ Fits /\ Counters'
             /\ extent' \in Nat /\ extent <= extent'
             /\ code_extent' \in Nat /\ code_extent \in Nat
             /\ code_extent <= code_extent'
  <2>1. Fits
    BY <1>1, <1>5 DEF Fits
  <2>2. Counters
    BY <2>1 DEF Layout
  <2>3. /\ code_extent = extent /\ cursor["code"] = extent % 65536
        /\ extent <= 65536 /\ start_addr["code"] \in Nat
        /\ started["code"] => start_addr["code"] < extent
        /\ extent = 65536 => started["code"]
    BY <1>3, <2>2 DEF code_extent, Counters, Word
  <2>4. code_extent' = IF started["code"] /\ cursor["code"] = 0 THEN 65536
                       ELSE cursor["code"]
    BY <1>1, <1>4 DEF code_extent
  <2>5. code_extent' = extent
    BY <1>3, <2>3, <2>4
  <2>6. ~started["data"]
    BY <1>1, <2>2 DEF Counters
  <2>7. Counters'
    BY <1>1, <1>3, <1>4, <2>3, <2>5, <2>6 DEF Counters
  <2> QED
    BY <1>1, <1>3, <2>1, <2>3, <2>5, <2>7
<1> QED
  BY <1>1, <1>2, <1>5, MoveLayout

LEMMA LayoutStep ==
  ASSUME AsmShape, Layout, AsmNext
  PROVE  Layout'
<1>1. ASSUME UNCHANGED <<stmts, started, start_addr, section, cursor, extent>>
      PROVE  Layout'
  BY <1>1, AppendEmpty, SameLayout
<1>2. CASE \/ skip_newline \/ duplicate_label \/ parse_fails \/ end_of_line
           \/ end_of_source \/ emit_statement \/ make_result
  <2>1. UNCHANGED <<stmts, started, start_addr, section, cursor, extent>>
    BY <1>2 DEF skip_newline, duplicate_label, parse_fails, end_of_line,
       end_of_source, emit_statement, make_result, fail, parser
  <2> QED
    BY <1>1, <2>1
<1>3. CASE define_label
  <2>1. /\ stmts' = Append(stmts, LabelStatement(here.text, cursor[section]))
        /\ UNCHANGED <<started, start_addr, section, cursor, extent>>
    BY <1>3 DEF define_label, LabelStatement
  <2>2. cursor[section] \in Word
    BY DEF AsmShape
  <2>3. LabelStatement(here.text, cursor[section]).encoded_size = 0
    BY <2>2, LabelType
  <2> QED
    BY <2>1, <2>3, AppendEmpty, SameLayout
<1>4. CASE \/ parse_instruction_statement \/ parse_string
           \/ parse_word \/ parse_byte
  <2>1. PICK st, p : PlacesStatement(st, p)
    BY <1>4, PlacingSteps
  <2> QED
    BY <2>1, PlaceLayout
<1>5. CASE parse_org
  BY <1>5, OrgLayout
<1>6. CASE parse_data
  BY <1>6, DataLayout
<1> QED
  BY <1>2, <1>3, <1>4, <1>5, <1>6 DEF AsmNext, PassOne

-----------------------------------------------------------------------------
\* The image of a program that fits.

\* The image is what make_result cut from the buffers.
ImageMade == stage = "ok" => \E b \in PastBuffer : image = make_image(b)

LEMMA ImageMadeStep ==
  ASSUME AsmShape, ImageMade, AsmNext
  PROVE  ImageMade'
<1>1. CASE make_result
  <2>1. PICK b \in PastBuffer : image' = make_image(b)
    BY <1>1 DEF make_result
  <2>2. make_image(b)' = make_image(b)
    BY <1>1 DEF make_result, make_image, section_size, slice
  <2> QED
    BY <2>1, <2>2 DEF ImageMade
<1>2. CASE ~make_result
  <2>1. stage' # "ok"
    <3>1. CASE \/ parse_instruction_statement \/ parse_string
               \/ parse_word \/ parse_byte
      <4>1. PICK st, p : PlacesStatement(st, p)
        BY <3>1, PlacingSteps
      <4> QED
        BY <4>1 DEF PlacesStatement, place
    <3>2. CASE define_label
      BY <3>2 DEF define_label
    <3>3. CASE skip_newline \/ parse_org \/ parse_data \/ end_of_source
      BY <3>3 DEF skip_newline, parse_org, parse_data, end_of_source
    <3>4. CASE duplicate_label \/ parse_fails \/ end_of_line \/ emit_statement
      BY <3>4 DEF duplicate_label, parse_fails, end_of_line, emit_statement,
                  fail, parser
    <3> QED
      BY <1>2, <3>1, <3>2, <3>3, <3>4 DEF AsmNext, PassOne
  <2> QED
    BY <2>1 DEF ImageMade
<1> QED
  BY <1>1, <1>2

\* Where the code and the data of such a program end.
LEMMA CodeEnds ==
  ASSUME AsmShape, Layout, Fits, Describable
  PROVE  /\ Counters /\ started["code"]
         /\ start_addr["code"] \in Word /\ section_size("code") \in Word
         /\ start_addr["code"] + section_size("code") = code_extent
         /\ code_extent \in Nat /\ code_extent <= extent /\ extent <= 65536
<1>1. Counters /\ started["code"]
  BY DEF Layout, Describable, section_size
<1>2. /\ start_addr["code"] \in Word /\ section_size("code") \in Word
      /\ extent \in Nat /\ cursor["code"] \in Word
  BY SectionSizeType DEF AsmShape, Section
<1>3. code_extent \in Nat
  BY <1>2 DEF code_extent, Word
<1>4. /\ code_extent <= extent /\ extent <= 65536
      /\ cursor["code"] = code_extent % 65536
      /\ start_addr["code"] < code_extent
  BY <1>1 DEF Counters
<1>5. /\ section_size("code") = (cursor["code"] - start_addr["code"]) % 65536
      /\ section_size("code") > 0
  BY <1>1 DEF section_size, Describable
<1>6. start_addr["code"] + section_size("code") = code_extent
  BY <1>2, <1>3, <1>4, <1>5 DEF Word
<1> QED
  BY <1>1, <1>2, <1>3, <1>4, <1>6

LEMMA DataEnds ==
  ASSUME AsmShape, Layout, Fits, Describable
  PROVE  /\ start_addr["data"] \in Word /\ section_size("data") \in Word
         /\ started["data"] =>
              /\ section_size("data") > 0
              /\ start_addr["data"] + section_size("data") = extent
              /\ code_extent <= start_addr["data"]
         /\ ~started["data"] => section_size("data") = 0 /\ start_addr["data"] = 0
<1>1. /\ Counters /\ start_addr["code"] \in Word
      /\ start_addr["code"] + section_size("code") = code_extent
      /\ section_size("code") \in Word
      /\ code_extent \in Nat /\ code_extent <= extent /\ extent <= 65536
  BY CodeEnds
<1>2. /\ start_addr["data"] \in Word /\ section_size("data") \in Word
      /\ extent \in Nat
  BY SectionSizeType DEF AsmShape, Section
<1>3. ASSUME started["data"]
      PROVE  /\ section_size("data") > 0
             /\ start_addr["data"] + section_size("data") = extent
             /\ code_extent <= start_addr["data"]
  <2>1. /\ cursor["data"] = extent % 65536
        /\ code_extent <= start_addr["data"] /\ start_addr["data"] < extent
    BY <1>1, <1>3 DEF Counters
  <2>2. section_size("data") = (cursor["data"] - start_addr["data"]) % 65536
    BY <1>3 DEF section_size
  <2>3. code_extent > 0
    BY <1>1 DEF Describable, Word
  <2> QED
    BY <1>1, <1>2, <2>1, <2>2, <2>3 DEF Word
<1>4. ASSUME ~started["data"]
      PROVE  section_size("data") = 0 /\ start_addr["data"] = 0
  BY <1>4 DEF section_size, Layout, Section
<1> QED
  BY <1>2, <1>3, <1>4

\* The header that such a program gets.
LEMMA ImageHeader ==
  ASSUME AsmShape, Layout, ImageMade, stage = "ok"
  PROVE  /\ image.size = BVM_HEADER_SIZE + section_size("code")
                           + section_size("data")
         /\ image.magic /\ image.version = 1 /\ image.reserved = 0
         /\ image.entry_point = start_addr["code"]
         /\ image.code_size = section_size("code")
         /\ image.code_addr = start_addr["code"]
         /\ image.data_size = section_size("data")
         /\ image.data_addr = start_addr["data"]
<1>1. PICK b \in PastBuffer : image = make_image(b)
  BY DEF ImageMade
<1> QED
  BY <1>1 DEF make_image

LEMMA LoadsIfFits ==
  ASSUME AsmShape, Layout, ImageMade
  PROVE  ImageLoads
<1> SUFFICES ASSUME stage = "ok", Fits, Describable PROVE header_ok(image)
  BY DEF ImageLoads
<1> DEFINE ca == start_addr["code"]
           cs == section_size("code")
           da == start_addr["data"]
           ds == section_size("data")
<1>1. /\ image.size = BVM_HEADER_SIZE + cs + ds
      /\ image.magic /\ image.version = 1 /\ image.reserved = 0
      /\ image.entry_point = ca
      /\ image.code_size = cs /\ image.code_addr = ca
      /\ image.data_size = ds /\ image.data_addr = da
  BY ImageHeader
<1>2. /\ ca \in Word /\ cs \in Word /\ cs > 0 /\ ca + cs = code_extent
      /\ code_extent \in Nat /\ code_extent <= extent /\ extent <= 65536
  BY CodeEnds DEF Describable
<1>3. /\ da \in Word /\ ds \in Word
      /\ started["data"] => da + ds = extent /\ code_extent <= da
      /\ ~started["data"] => ds = 0 /\ da = 0
  BY DataEnds
<1>4. extent \in Nat
  BY DEF AsmShape
<1> HIDE DEF ca, cs, da, ds
<1>5. code_end(image) = ca + cs /\ data_end(image) = da + ds
  BY <1>1 DEF code_end, data_end
<1>6. /\ ca + cs <= 65536 /\ da + ds <= 65536 /\ ca < ca + cs
      /\ ~(ca < da + ds /\ da < ca + cs)
      /\ BVM_HEADER_SIZE + cs + ds >= BVM_HEADER_SIZE
      /\ ca >= ca
  <2>1. CASE started["data"]
    BY <1>2, <1>3, <1>4, <2>1 DEF BVM_HEADER_SIZE, Word
  <2>2. CASE ~started["data"]
    BY <1>2, <1>3, <1>4, <2>2 DEF BVM_HEADER_SIZE, Word
  <2> QED
    BY <2>1, <2>2
<1>7. image.size >= BVM_HEADER_SIZE + image.code_size + image.data_size
  BY <1>1, <1>2, <1>3 DEF BVM_HEADER_SIZE, Word
<1> QED
  BY <1>1, <1>5, <1>6, <1>7 DEF header_ok

LEMMA ReproducibleIfFits ==
  ASSUME AsmShape, Layout, ImageMade
  PROVE  AssembledIsReproducible
<1> SUFFICES ASSUME stage = "ok", Fits, Describable, code_end(image) < 65536
             PROVE  Reproducible(image)
  BY DEF AssembledIsReproducible
<1> DEFINE ca == start_addr["code"]
           cs == section_size("code")
           da == start_addr["data"]
           ds == section_size("data")
<1>1. /\ image.size = BVM_HEADER_SIZE + cs + ds
      /\ image.magic /\ image.version = 1 /\ image.reserved = 0
      /\ image.entry_point = ca
      /\ image.code_size = cs /\ image.code_addr = ca
      /\ image.data_size = ds /\ image.data_addr = da
  BY ImageHeader
<1>2. /\ ca \in Word /\ cs \in Word /\ cs > 0 /\ ca + cs = code_extent
      /\ code_extent \in Nat /\ code_extent <= extent /\ extent <= 65536
  BY CodeEnds DEF Describable
<1>3. /\ da \in Word /\ ds \in Word
      /\ started["data"] => da + ds = extent /\ code_extent <= da /\ ds > 0
      /\ ~started["data"] => ds = 0 /\ da = 0
  BY DataEnds
<1> HIDE DEF ca, cs, da, ds
<1>4. code_end(image) = ca + cs /\ data_end(image) = da + ds
  BY <1>1 DEF code_end, data_end
<1>5. IF ds = 0 THEN da = 0 ELSE da >= ca + cs /\ da + ds <= 65536
  <2>1. CASE started["data"]
    BY <1>2, <1>3, <2>1 DEF Word
  <2>2. CASE ~started["data"]
    BY <1>3, <2>2
  <2> QED
    BY <2>1, <2>2
<1> QED
  BY <1>1, <1>2, <1>4, <1>5 DEF Reproducible

-----------------------------------------------------------------------------
\* What disassemble() decodes and prints.

\* The memory it decodes against holds the bytes of the code, and nothing
\* else.
LEMMA SweptMemory ==
  ASSUME IsImage(given), accepts_image
  PROVE  /\ IsMemory(dmem)
         /\ \A i \in 0 .. given.code_size - 1 :
              /\ given.body[i + 1] \in Byte
              /\ mem_read8(dmem, (given.code_addr + i) % 65536) = given.body[i + 1]
<1> DEFINE ca == given.code_addr
           cs == given.code_size
           body == given.body
           at(a) == ((a - ca) % 65536) + 1
           region == {(ca + i) % 65536 : i \in 0 .. cs - 1}
           dom == {x \in region : body[at(x)] # 0}
<1>1. /\ ca \in Word /\ cs \in Word /\ body \in Seq(Byte)
      /\ given.data_size \in Word
      /\ given.size >= BVM_HEADER_SIZE => Len(body) = given.size - BVM_HEADER_SIZE
  BY Zenon DEF IsImage
<1>2. given.size \in Nat /\ given.size >= BVM_HEADER_SIZE
        /\ given.size >= BVM_HEADER_SIZE + cs + given.data_size
  BY DEF IsImage, accepts_image
<1>3. cs <= Len(body)
  <2> HIDE DEF ca, cs, body
  <2> QED
    BY <1>1, <1>2 DEF BVM_HEADER_SIZE, Word
<1>4. dmem = [a \in dom |-> body[at(a)]]
  BY DEF dmem
<1> HIDE DEF ca, cs, body
<1>5. ASSUME NEW i \in 0 .. cs - 1
      PROVE  /\ at((ca + i) % 65536) = i + 1 /\ (ca + i) % 65536 \in Word
             /\ body[i + 1] \in Byte
  <2>1. at((ca + i) % 65536) = i + 1 /\ (ca + i) % 65536 \in Word
    BY <1>1 DEF Word
  <2>2. i + 1 \in 1 .. Len(body)
    BY <1>1, <1>3 DEF Word
  <2> QED
    BY <1>1, <2>1, <2>2
<1> HIDE DEF at
<1>6. ASSUME NEW x \in region PROVE x \in Word /\ body[at(x)] \in Byte
  <2>1. PICK i \in 0 .. cs - 1 : x = (ca + i) % 65536
    OBVIOUS
  <2> QED
    BY <1>5, <2>1
<1>7. IsMemory(dmem)
  BY <1>4, <1>6 DEF IsMemory
<1>8. ASSUME NEW i \in 0 .. cs - 1
      PROVE  mem_read8(dmem, (ca + i) % 65536) = body[i + 1]
  <2> DEFINE x == (ca + i) % 65536
  <2>1. x \in region /\ at(x) = i + 1
    BY <1>5
  <2> HIDE DEF x, region
  <2>2. x \in dom <=> body[i + 1] # 0
    BY <2>1
  <2>3. x \in dom => dmem[x] = body[i + 1]
    BY <1>4, <2>1
  <2>4. DOMAIN dmem = dom
    BY <1>4
  <2> HIDE DEF dom
  <2> QED
    BY <2>2, <2>3, <2>4 DEF mem_read8, x
<1> QED
  BY <1>5, <1>7, <1>8 DEF ca, cs, body

LEMMA FormatOperandType ==
  ASSUME NEW opcode, NEW op, IsOperand(op), NEW legal
  PROVE  format_operand(opcode, op, legal) \in Seq(TokenSet)
<1> DEFINE f == format_operand(opcode, op, legal)
<1>1. /\ op.value \in Int /\ op.mode \in 0 .. 5
      /\ op.mode \in {MODE_REG, MODE_REG_INDIRECT} => op.value \in 0 .. 7
  BY DEF IsOperand, Word
<1>2. Number(op.value) \in TokenSet /\ LBRACKET \in TokenSet /\ RBRACKET \in TokenSet
  BY <1>1, TokenType
<1>3. op.mode \in {MODE_REG, MODE_REG_INDIRECT} =>
        Ident(register_name(op.value)) \in TokenSet
  BY <1>1, RegisterText, TokenType
<1>4. op.value \in DOMAIN SyscallNames => Ident(SyscallNames[op.value]) \in TokenSet
  BY SyscallText, TokenType
<1>5. ASSUME NEW a \in TokenSet, NEW b \in TokenSet, NEW c \in TokenSet
      PROVE  <<a>> \in Seq(TokenSet) /\ <<a, b, c>> \in Seq(TokenSet)
  OBVIOUS
<1>6. <<>> \in Seq(TokenSet)
  OBVIOUS
<1>7. \/ f = <<>>
      \/ op.mode = MODE_REG /\ f = <<Ident(register_name(op.value))>>
      \/ /\ op.mode = MODE_REG_INDIRECT
         /\ f = <<LBRACKET, Ident(register_name(op.value)), RBRACKET>>
      \/ /\ op.value \in DOMAIN SyscallNames
         /\ f = <<Ident(SyscallNames[op.value])>>
      \/ f = <<LBRACKET, Number(op.value), RBRACKET>>
      \/ f = <<Number(op.value)>>
  BY DEF format_operand
<1> HIDE DEF f
<1> QED
  BY <1>2, <1>3, <1>4, <1>5, <1>6, <1>7 DEF f

LEMMA FormatInstructionType ==
  ASSUME NEW m, IsMemory(m), NEW x \in Word,
         instruction_decode(m, x).result = "VM_OK"
  PROVE  format_instruction(instruction_decode(m, x)) \in Seq(TokenSet)
<1> DEFINE d == instruction_decode(m, x)
           f1 == format_operand(d.opcode, d.op1, op1_modes(d.opcode))
           f2 == format_operand(d.opcode, d.op2, op2_modes(d.opcode))
           name == Ident(mnemonic_for(d.opcode))
<1>1. d.opcode \in Opcode /\ IsOperand(d.op1) /\ IsOperand(d.op2)
  BY DecodeType
<1>2. name \in TokenSet /\ COMMA \in TokenSet
  BY <1>1, MnemonicText, TokenType
<1>3. f1 \in Seq(TokenSet) /\ f2 \in Seq(TokenSet)
  BY <1>1, FormatOperandType
<1>4. format_instruction(d)
        = <<name>> \o f1
            \o (IF d.op1.mode # MODE_NONE /\ d.op2.mode # MODE_NONE
                THEN <<COMMA>> \o f2 ELSE <<>>)
  BY DEF format_instruction
<1> HIDE DEF f1, f2, name, d
<1>5. <<name>> \in Seq(TokenSet) /\ <<COMMA>> \in Seq(TokenSet)
  BY <1>2
<1>6. <<name>> \o f1 \in Seq(TokenSet) /\ <<COMMA>> \o f2 \in Seq(TokenSet)
        /\ <<>> \in Seq(TokenSet)
  BY <1>3, <1>5
<1>7. ASSUME NEW u \in Seq(TokenSet), NEW v \in Seq(TokenSet)
      PROVE  u \o v \in Seq(TokenSet)
  OBVIOUS
<1> QED
  BY <1>4, <1>6, <1>7 DEF d

LEMMA LineType ==
  /\ \A b \in Int : /\ byte_line(b) \in Seq(TokenSet)
                    /\ \A i \in 1 .. 3 : byte_line(b)[i] \in TokenSet
                    /\ org_line(b) \in Seq(TokenSet)
<1> SUFFICES ASSUME NEW b \in Int
             PROVE  /\ byte_line(b) \in Seq(TokenSet)
                    /\ \A i \in 1 .. 3 : byte_line(b)[i] \in TokenSet
                    /\ org_line(b) \in Seq(TokenSet)
  OBVIOUS
<1>1. "byte" \in Words /\ "org" \in Words
  BY DEF Words
<1> DEFINE x == Directive("byte")
           y == Number(b)
           z == NEWLINE
           o == Directive("org")
<1>2. x \in TokenSet /\ y \in TokenSet /\ z \in TokenSet /\ o \in TokenSet
  BY <1>1, TokenType
<1>3. byte_line(b) = <<x, y, z>> /\ org_line(b) = <<o, y, z>>
  BY DEF byte_line, org_line
<1> HIDE DEF x, y, z, o
<1> QED
  BY <1>2, <1>3

-----------------------------------------------------------------------------
\* The state of a call of disassemble().

DisShape ==
  /\ IsImage(given)
  /\ dstage \in {"idle", "check", "code", "ok", "error"}
  /\ dpc \in Word
  /\ text \in Seq(TokenSet)
  /\ dstage = "code" => accepts_image /\ SweepStaysInCode
  /\ dstage = "ok" => IsTokenList(text)

\* The end of the code as the sweep sees it: the end, or an address below
\* the code where the end is past the top of memory.
LEMMA SweepEnd ==
  ASSUME IsImage(given)
  PROVE  /\ given.code_addr \in Word /\ given.code_size \in Word
         /\ dend \in Word
         /\ \/ code_end(given) < 65536 /\ dend = code_end(given)
            \/ code_end(given) >= 65536 /\ dend < given.code_addr
<1> DEFINE ca == given.code_addr
           cs == given.code_size
<1>1. ca \in Word /\ cs \in Word
  BY Zenon DEF IsImage
<1>2. code_end(given) = ca + cs /\ dend = (ca + cs) % 65536
  BY DEF code_end, dend
<1> HIDE DEF ca, cs
<1>3. /\ (ca + cs) % 65536 \in Word
      /\ \/ ca + cs < 65536 /\ (ca + cs) % 65536 = ca + cs
         \/ ca + cs >= 65536 /\ (ca + cs) % 65536 < ca
  BY <1>1 DEF Word
<1> QED
  BY <1>1, <1>2, <1>3 DEF ca, cs

\* A sweep step moves up, inside the code.
LEMMA SweepMoves ==
  ASSUME DisShape, sweep_instruction \/ sweep_byte
  PROVE  /\ dpc \in Nat /\ dpc' \in Word /\ dpc < dpc' /\ dpc' <= dend
         /\ dend = code_end(given) /\ dend \in Word
         /\ given.code_addr \in Nat /\ given.code_addr <= dpc
<1>1. dstage = "code" /\ dpc < dend /\ dpc \in Word
  BY DEF sweep_instruction, sweep_byte, DisShape
<1>2. IsImage(given) /\ accepts_image /\ SweepStaysInCode
  BY <1>1 DEF DisShape
<1>3. /\ given.code_addr \in Word /\ dend \in Word
      /\ \/ code_end(given) < 65536 /\ dend = code_end(given)
         \/ code_end(given) >= 65536 /\ dend < given.code_addr
  BY <1>2, SweepEnd
<1>4. given.code_addr <= dpc /\ given.code_addr \in Nat /\ dpc \in Nat
  BY <1>1, <1>2, <1>3 DEF SweepStaysInCode, Word
<1>5. dend = code_end(given)
  BY <1>1, <1>3, <1>4 DEF Word
<1>6. CASE sweep_byte
  <2>1. dpc' = (dpc + 1) % 65536
    BY <1>6 DEF sweep_byte
  <2>2. dpc' = dpc + 1
    BY <1>1, <1>3, <2>1 DEF Word
  <2> QED
    BY <1>1, <1>3, <1>4, <1>5, <2>2 DEF Word
<1>7. CASE sweep_instruction
  <2> DEFINE d == instruction_decode(dmem, dpc)
  <2>1. dpc' = d.next /\ d.next <= dend /\ d.next > dpc
    BY <1>7 DEF sweep_instruction, decodes_here
  <2>2. d.next \in Word
    BY <1>1, <1>2, SweptMemory, DecodeType
  <2> QED
    BY <1>3, <1>4, <1>5, <2>1, <2>2
<1> QED
  BY <1>6, <1>7

LEMMA DisShapeStep ==
  ASSUME DisShape, DisNext
  PROVE  DisShape'
<1>1. /\ IsImage(given) /\ given' = given
      /\ text \in Seq(TokenSet) /\ dpc \in Word
  <2>1. IsImage(given) /\ text \in Seq(TokenSet) /\ dpc \in Word
    BY DEF DisShape
  <2>2. check_image => given' = given
    BY DEF check_image
  <2>3. sweep_instruction => given' = given
    BY DEF sweep_instruction
  <2>4. sweep_byte => given' = given
    BY DEF sweep_byte
  <2>5. print_data => given' = given
    BY Zenon DEF print_data
  <2> QED
    BY <2>1, <2>2, <2>3, <2>4, <2>5 DEF DisNext
<1>2. IsImage(given)' /\ (accepts_image' <=> accepts_image)
  BY <1>1 DEF IsImage, accepts_image
<1>3. given.code_addr \in Word /\ given.code_addr \in Int /\ given.data_addr \in Int
  <2>1. given.code_addr \in Word /\ given.data_addr \in Word
    BY <1>1, Zenon DEF IsImage
  <2> QED
    BY <2>1 DEF Word
<1>4. CASE check_image
  <2>1. CASE accepts_image
    <3> DEFINE pre == <<NEWLINE, NEWLINE, NEWLINE>>
               org == IF given.code_addr # 0 THEN org_line(given.code_addr) ELSE <<>>
    <3>1. dstage' = "code" /\ dpc' = given.code_addr /\ text' = pre \o org
      BY <1>4, <2>1 DEF check_image
    <3>2. pre \in Seq(TokenSet) /\ org \in Seq(TokenSet)
      <4> DEFINE nl == NEWLINE
                 line == org_line(given.code_addr)
      <4>1. nl \in TokenSet /\ line \in Seq(TokenSet)
        BY <1>3, TokenType, LineType
      <4> HIDE DEF nl, line
      <4>2. <<nl, nl, nl>> \in Seq(TokenSet)
        BY <4>1
      <4>3. pre \in Seq(TokenSet)
        BY <4>2 DEF nl
      <4>4. (IF given.code_addr # 0 THEN line ELSE <<>>) \in Seq(TokenSet)
        BY <4>1
      <4> QED
        BY <4>3, <4>4 DEF line
    <3> HIDE DEF pre, org
    <3>3. text' \in Seq(TokenSet)
      BY <3>1, <3>2
    <3>4. SweepStaysInCode'
      BY <1>1, <3>1 DEF SweepStaysInCode
    <3> QED
      BY <1>1, <1>2, <1>3, <2>1, <3>1, <3>3, <3>4 DEF DisShape
  <2>2. CASE ~accepts_image
    <3>1. dstage' = "error" /\ dpc' = dpc /\ text' = text
      BY <1>4, <2>2 DEF check_image
    <3> QED
      BY <1>1, <1>2, <3>1 DEF DisShape
  <2> QED
    BY <2>1, <2>2
<1>5. CASE sweep_instruction \/ sweep_byte
  <2>1. /\ dpc \in Nat /\ dpc' \in Word /\ dpc < dpc' /\ dpc' <= dend
        /\ dend = code_end(given) /\ given.code_addr \in Nat
        /\ given.code_addr <= dpc /\ dend \in Word
    BY <1>5, SweepMoves
  <2>2. dstage' = "code" /\ dstage = "code" /\ accepts_image
    BY <1>5 DEF sweep_instruction, sweep_byte, DisShape
  <2>3. code_end(given)' = code_end(given)
    BY <1>1 DEF code_end
  <2>4. SweepStaysInCode'
    BY <1>1, <2>1, <2>3 DEF SweepStaysInCode, Word
  <2>5. IsMemory(dmem)
    BY <1>1, <2>2, SweptMemory
  <2>6. text' \in Seq(TokenSet)
    <3>1. CASE sweep_byte
      <4>1. mem_read8(dmem, dpc) \in Int
        BY <2>5, Read8Type DEF Byte
      <4>2. byte_line(mem_read8(dmem, dpc)) \in Seq(TokenSet)
        BY <4>1, LineType
      <4>3. text' = text \o byte_line(mem_read8(dmem, dpc))
        BY <3>1 DEF sweep_byte
      <4> QED
        BY <1>1, <4>2, <4>3
    <3>2. CASE sweep_instruction
      <4> DEFINE f == format_instruction(instruction_decode(dmem, dpc))
      <4>1. /\ instruction_decode(dmem, dpc).result = "VM_OK"
            /\ text' = text \o Append(f, NEWLINE)
        BY <3>2 DEF sweep_instruction, decodes_here
      <4>2. f \in Seq(TokenSet) /\ NEWLINE \in TokenSet
        BY <1>1, <2>5, <4>1, FormatInstructionType, TokenType
      <4> HIDE DEF f
      <4>3. Append(f, NEWLINE) \in Seq(TokenSet)
        BY <4>2
      <4> QED
        BY <1>1, <4>1, <4>3
    <3> QED
      BY <1>5, <3>1, <3>2
  <2> QED
    BY <1>1, <1>2, <2>1, <2>2, <2>4, <2>6 DEF DisShape
<1>6. CASE print_data
  <2>1. dstage = "code" /\ dstage' = "ok" /\ dpc' = dpc /\ accepts_image
    BY <1>6 DEF print_data, DisShape
  <2> DEFINE bytes == data_bytes(given)
             line(i) == byte_line(bytes[(i + 2) \div 3])[((i - 1) % 3) + 1]
             lines == [i \in 1 .. 3 * Len(bytes) |-> line(i)]
             head == <<NEWLINE, Directive("data"), NEWLINE>>
             org == IF given.data_addr # dend THEN org_line(given.data_addr) ELSE <<>>
             data == IF given.data_size = 0 THEN <<>> ELSE head \o org \o lines
  <2>2. text' = text \o data \o <<EOF>>
    BY <1>6 DEF print_data
  <2>3. bytes \in Seq(Byte)
    <3> DEFINE body == given.body
               cs == given.code_size
               ds == given.data_size
    <3>1. /\ body \in Seq(Byte) /\ cs \in Word /\ ds \in Word
          /\ given.size >= BVM_HEADER_SIZE => Len(body) = given.size - BVM_HEADER_SIZE
      BY <1>1, Zenon DEF IsImage
    <3>2. /\ given.size \in Nat /\ given.size >= BVM_HEADER_SIZE
          /\ given.size >= BVM_HEADER_SIZE + cs + ds
      BY <1>1, <2>1 DEF IsImage, accepts_image
    <3>3. bytes = SubSeq(body, cs + 1, cs + ds)
      BY DEF data_bytes
    <3> HIDE DEF body, cs, ds
    <3>4. cs \in Nat /\ ds \in Nat /\ cs + ds <= Len(body)
      BY <3>1, <3>2 DEF BVM_HEADER_SIZE, Word
    <3> QED
      BY <3>1, <3>3, <3>4
  <2> HIDE DEF bytes
  <2>4. lines \in Seq(TokenSet)
    <3>1. ASSUME NEW i \in 1 .. 3 * Len(bytes) PROVE line(i) \in TokenSet
      <4> DEFINE j == (i + 2) \div 3
                 k == ((i - 1) % 3) + 1
      <4>1. j \in 1 .. Len(bytes) /\ k \in 1 .. 3
        BY <2>3
      <4> HIDE DEF j, k
      <4>2. bytes[j] \in Int
        BY <2>3, <4>1 DEF Byte
      <4>3. byte_line(bytes[j])[k] \in TokenSet
        BY <4>1, <4>2, LineType
      <4> QED
        BY <4>3 DEF j, k
    <3>2. 3 * Len(bytes) \in Nat
      BY <2>3
    <3> HIDE DEF line
    <3> QED
      BY <3>1, <3>2
  <2>5. head \in Seq(TokenSet) /\ org \in Seq(TokenSet)
    <3>1. "data" \in Words
      BY DEF Words
    <3> DEFINE nl == NEWLINE
               dir == Directive("data")
               line_ == org_line(given.data_addr)
    <3>2. nl \in TokenSet /\ dir \in TokenSet /\ line_ \in Seq(TokenSet)
      BY <1>3, <3>1, TokenType, LineType
    <3> HIDE DEF nl, dir, line_
    <3>3. <<nl, dir, nl>> \in Seq(TokenSet)
      BY <3>2
    <3>4. head \in Seq(TokenSet)
      BY <3>3 DEF nl, dir
    <3>5. (IF given.data_addr # dend THEN line_ ELSE <<>>) \in Seq(TokenSet)
      BY <3>2
    <3> QED
      BY <3>4, <3>5 DEF line_
  <2> HIDE DEF lines, head, org
  <2>6. data \in Seq(TokenSet)
    BY <2>4, <2>5
  <2> HIDE DEF data
  <2>7. EOF \in TokenSet /\ EOF.type = "TOK_EOF"
    BY TokenType DEF EOF, Simple, Token
  <2> DEFINE before_eof == text \o data
  <2>8. before_eof \in Seq(TokenSet)
    BY <1>1, <2>6
  <2> HIDE DEF before_eof
  <2>9. text' = before_eof \o <<EOF>>
    BY <2>2 DEF before_eof
  <2>10. IsTokenList(before_eof \o <<EOF>>)
    BY <2>7, <2>8 DEF IsTokenList
  <2>11. IsTokenList(text') /\ text' \in Seq(TokenSet)
    BY <2>9, <2>10 DEF IsTokenList
  <2> QED
    BY <1>1, <1>2, <2>1, <2>11 DEF DisShape, IsTokenList
<1> QED
  BY <1>4, <1>5, <1>6 DEF DisNext

-----------------------------------------------------------------------------
\* The two calls composed.

RTInv ==
  /\ AsmShape /\ Layout /\ ImageMade /\ DisShape
  /\ turn \in {"assemble", "disassemble", "reassemble"}

LEMMA EmptyImage == IsImage(NoImage)
<1>1. /\ NoImage.size = 0 /\ NoImage.magic = FALSE /\ NoImage.version = 0
      /\ NoImage.reserved = 0 /\ NoImage.entry_point = 0
      /\ NoImage.code_size = 0 /\ NoImage.code_addr = 0
      /\ NoImage.data_size = 0 /\ NoImage.data_addr = 0
      /\ NoImage.body = <<>>
  BY DEF NoImage
<1>2. /\ 0 \in Nat /\ 0 \in Byte /\ 0 \in Word /\ <<>> \in Seq(Byte)
      /\ FALSE \in BOOLEAN /\ ~(0 >= BVM_HEADER_SIZE)
  BY DEF Byte, Word, BVM_HEADER_SIZE
<1> QED
  BY <1>1, <1>2, Zenon DEF IsImage

LEMMA EmptyMemory == IsMemory(mem_init)
  BY DEF mem_init, IsMemory

LEMMA EmptySeq == IsSeq(<<>>) /\ Len(<<>>) = 0 /\ DOMAIN <<>> = {}
  BY DEF IsSeq

LEMMA EndOnly == IsTokenList(<<EOF>>)
<1>1. EOF \in TokenSet /\ EOF.type = "TOK_EOF"
  BY TokenType DEF EOF, Simple, Token
<1> QED
  BY <1>1 DEF IsTokenList

\* assemble() starts from a good state, whatever the source.
LEMMA StartShape ==
  ASSUME NEW src, IsTokenList(src), AsmStart(src)
  PROVE  AsmShape /\ Layout /\ ImageMade
<1>1. /\ tokens = src /\ pos = 1 /\ stage = "line" /\ stmts = <<>>
      /\ symtab = [n \in {} |-> 0] /\ section = "code"
      /\ cursor = [s \in Section |-> 0]
      /\ started = [s \in Section |-> FALSE]
      /\ start_addr = [s \in Section |-> 0]
      /\ next = 1 /\ buffer = [s \in Section |-> mem_init]
      /\ image = NoImage /\ extent = 0
  BY DEF AsmStart
<1>2. pos \in DOMAIN tokens /\ IsTokenList(tokens)
  BY <1>1, TokenListType
<1>3. Len(stmts) = 0 /\ IsSeq(stmts) /\ DOMAIN stmts = {}
  BY <1>1, EmptySeq
<1>4. /\ cursor \in [Section -> Word] /\ start_addr \in [Section -> Word]
      /\ started \in [Section -> BOOLEAN] /\ section \in Section
  BY <1>1 DEF Word, Section
<1>5. /\ buffer = [s \in Section |-> buffer[s]]
      /\ \A s \in Section : IsMemory(buffer[s])
  BY <1>1, EmptyMemory
<1>6. /\ extent \in Nat /\ extent <= Overrun
      /\ next \in Nat /\ next >= 1 /\ next <= Len(stmts) + 1
  BY <1>1, <1>3 DEF Overrun
<1>7. AsmShape
  BY <1>1, <1>2, <1>3, <1>4, <1>5, <1>6, EmptyImage DEF AsmShape
<1>8. /\ cursor["code"] = 0 /\ start_addr["code"] = 0 /\ start_addr["data"] = 0
      /\ ~started["code"] /\ ~started["data"]
  BY <1>1, Zenon DEF Section
<1>9. Counters
  BY <1>1, <1>8 DEF Counters, code_extent
<1>10. Layout
  BY <1>1, <1>3, <1>8, <1>9
     DEF Layout, StatementsPlaced, StatementsInOrder, Section
<1> QED
  BY <1>1, <1>7, <1>10 DEF ImageMade

LEMMA RestartShape ==
  ASSUME NEW src, IsTokenList(src), AsmRestart(src)
  PROVE  AsmShape' /\ Layout' /\ ImageMade'
<1>1. /\ tokens' = src /\ pos' = 1 /\ stage' = "line" /\ stmts' = <<>>
      /\ symtab' = [n \in {} |-> 0] /\ section' = "code"
      /\ cursor' = [s \in Section |-> 0]
      /\ started' = [s \in Section |-> FALSE]
      /\ start_addr' = [s \in Section |-> 0]
      /\ next' = 1 /\ buffer' = [s \in Section |-> mem_init]
      /\ image' = NoImage /\ extent' = 0
  BY DEF AsmRestart
<1>2. pos' \in DOMAIN tokens' /\ IsTokenList(tokens')
  BY <1>1, TokenListType
<1>3. Len(stmts') = 0 /\ IsSeq(stmts') /\ DOMAIN stmts' = {}
  BY <1>1, EmptySeq
<1>4. /\ cursor' \in [Section -> Word] /\ start_addr' \in [Section -> Word]
      /\ started' \in [Section -> BOOLEAN] /\ section' \in Section
  BY <1>1 DEF Word, Section
<1>5. /\ buffer' = [s \in Section |-> buffer'[s]]
      /\ \A s \in Section : IsMemory(buffer'[s])
  BY <1>1, EmptyMemory
<1>6. /\ extent' \in Nat /\ extent' <= Overrun
      /\ next' \in Nat /\ next' >= 1 /\ next' <= Len(stmts') + 1
  BY <1>1, <1>3 DEF Overrun
<1>7. IsImage(image')
  BY <1>1, EmptyImage
<1>8. AsmShape'
  BY <1>1, <1>2, <1>3, <1>4, <1>5, <1>6, <1>7
     DEF AsmShape, IsTokenList, IsImage, IsMemory
<1>9. /\ cursor'["code"] = 0 /\ start_addr'["code"] = 0
      /\ start_addr'["data"] = 0 /\ ~started'["code"] /\ ~started'["data"]
  BY <1>1, Zenon DEF Section
<1>10. Counters'
  BY <1>1, <1>9 DEF Counters, code_extent
<1>11. Layout'
  BY <1>1, <1>3, <1>9, <1>10
     DEF Layout, StatementsPlaced, StatementsInOrder, Section
<1> QED
  BY <1>1, <1>8, <1>11 DEF ImageMade

LEMMA AsmSame ==
  ASSUME AsmShape, Layout, ImageMade, UNCHANGED asmVars
  PROVE  AsmShape' /\ Layout' /\ ImageMade'
<1>1. UNCHANGED <<tokens, pos, stage, stmts, symtab, section, cursor, started,
                  start_addr, next, buffer, image, extent>>
  BY DEF asmVars, parser
<1>2. AsmShape'
  BY <1>1 DEF AsmShape, IsTokenList, IsImage, IsMemory
<1>3. Layout'
  BY <1>1 DEF Layout, Fits, Counters, code_extent, StatementsPlaced,
              InSection, StatementsInOrder, occupies
<1>4. ASSUME stage = "ok" PROVE \E b \in PastBuffer : image' = make_image(b)'
  <2>1. PICK b \in PastBuffer : image = make_image(b)
    BY <1>4 DEF ImageMade
  <2>2. section_size("code")' = section_size("code")
    BY <1>1 DEF section_size
  <2>3. section_size("data")' = section_size("data")
    BY <1>1 DEF section_size
  <2>4. slice("code", b)' = slice("code", b)
    BY <1>1, <2>2 DEF slice, section_size
  <2>5. slice("data", b)' = slice("data", b)
    BY <1>1, <2>3 DEF slice, section_size
  <2>6. make_image(b)' = make_image(b)
    BY <1>1, <2>2, <2>3, <2>4, <2>5 DEF make_image
  <2> QED
    BY <1>1, <2>1, <2>6
<1>5. ImageMade'
  BY <1>1, <1>4 DEF ImageMade
<1> QED
  BY <1>2, <1>3, <1>5

LEMMA DisSame ==
  ASSUME DisShape, UNCHANGED disVars
  PROVE  DisShape'
<1>1. UNCHANGED <<given, dstage, dpc, text>>
  BY DEF disVars
<1> QED
  BY <1>1 DEF DisShape, IsImage, accepts_image, SweepStaysInCode, code_end,
              IsTokenList

LEMMA RTInvInit == RTInit => RTInv
<1> SUFFICES ASSUME RTInit PROVE RTInv
  OBVIOUS
<1>1. dpc = 0 /\ text = <<>> /\ 0 \in Word /\ <<>> \in Seq(TokenSet)
  BY DEF RTInit, Word
<1>2. CASE AssembleFirst
  <2>1. PICK src \in Sources : AsmStart(src)
    BY <1>2 DEF AssembleFirst, AsmInit
  <2>2. AsmShape /\ Layout /\ ImageMade
    BY <2>1, SourcesAssumption, StartShape
  <2>3. given = NoImage /\ dstage = "idle" /\ turn = "assemble"
    BY <1>2 DEF AssembleFirst
  <2>4. DisShape
    BY <1>1, <2>3, EmptyImage DEF DisShape
  <2> QED
    BY <2>2, <2>3, <2>4 DEF RTInv
<1>3. CASE DisassembleFirst
  <2>1. AsmStart(<<EOF>>) /\ turn = "disassemble" /\ dstage = "check"
    BY <1>3 DEF DisassembleFirst
  <2>2. AsmShape /\ Layout /\ ImageMade
    BY <2>1, EndOnly, StartShape
  <2>3. IsImage(given)
    BY <1>3, ImagesAssumption DEF DisassembleFirst
  <2>4. DisShape
    BY <1>1, <2>1, <2>3 DEF DisShape
  <2> QED
    BY <2>1, <2>2, <2>4 DEF RTInv
<1> QED
  BY <1>2, <1>3 DEF RTInit

LEMMA RTInvStep == RTInv /\ [RTNext]_rtVars => RTInv'
<1> SUFFICES ASSUME RTInv, [RTNext]_rtVars PROVE RTInv'
  OBVIOUS
<1>1. /\ AsmShape /\ Layout /\ ImageMade /\ DisShape
      /\ turn \in {"assemble", "disassemble", "reassemble"}
  BY DEF RTInv
<1>2. CASE Assembling
  <2>1. AsmNext /\ UNCHANGED disVars /\ turn' = turn
    BY <1>2 DEF Assembling, disVars
  <2>2. AsmShape' /\ Layout' /\ ImageMade'
    BY <1>1, <2>1, AsmShapeStep, LayoutStep, ImageMadeStep
  <2>3. DisShape'
    BY <1>1, <2>1, DisSame
  <2> QED
    BY <1>1, <2>1, <2>2, <2>3 DEF RTInv
<1>3. CASE Disassembling
  <2>1. DisNext /\ UNCHANGED asmVars /\ turn' = turn
    BY <1>3 DEF Disassembling
  <2>2. AsmShape' /\ Layout' /\ ImageMade'
    BY <1>1, <2>1, AsmSame
  <2>3. DisShape'
    BY <1>1, <2>1, DisShapeStep
  <2> QED
    BY <1>1, <2>1, <2>2, <2>3 DEF RTInv
<1>4. CASE HandOver
  <2>1. /\ UNCHANGED asmVars /\ turn' = "disassemble" /\ given' = image
        /\ dstage' = "check" /\ dpc' = dpc /\ text' = text
    BY <1>4 DEF HandOver
  <2>2. AsmShape' /\ Layout' /\ ImageMade'
    BY <1>1, <2>1, AsmSame
  <2>3. IsImage(given') /\ dpc \in Word /\ text \in Seq(TokenSet)
    BY <1>1, <2>1 DEF AsmShape, DisShape
  <2>4. DisShape'
    BY <2>1, <2>3 DEF DisShape, IsImage
  <2> QED
    BY <2>1, <2>2, <2>4 DEF RTInv
<1>5. CASE HandBack
  <2>1. /\ UNCHANGED disVars /\ turn' = "reassemble" /\ AsmRestart(text)
        /\ dstage = "ok"
    BY <1>5 DEF HandBack
  <2>2. IsTokenList(text)
    BY <1>1, <2>1 DEF DisShape
  <2>3. AsmShape' /\ Layout' /\ ImageMade'
    BY <2>1, <2>2, RestartShape
  <2>4. DisShape'
    BY <1>1, <2>1, DisSame
  <2> QED
    BY <2>1, <2>3, <2>4 DEF RTInv
<1>6. CASE UNCHANGED rtVars
  <2>1. UNCHANGED asmVars /\ UNCHANGED disVars /\ turn' = turn
    BY <1>6 DEF rtVars
  <2> QED
    BY <1>1, <2>1, AsmSame, DisSame DEF RTInv
<1> QED
  BY <1>2, <1>3, <1>4, <1>5, <1>6 DEF RTNext

-----------------------------------------------------------------------------
\* Whatever the source or the image, every state of assemble() and of
\* disassemble(), alone or fed with the other's result, keeps RTInv.
THEOREM RoundTripSafe == RTSpec => []RTInv
  BY RTInvInit, RTInvStep, PTL DEF RTSpec

\* The assembler's state is well formed on every source, the text printed
\* by the disassembler included: counters, addresses and labels stay 16 bits
\* wide, the parser never reads behind the last token (parser.c: advance),
\* and both buffers and the image hold bytes (emit_statement, assemble).
THEOREM AssemblerTyped == RTSpec => []AsmTypeOK
<1>1. RTInv => AsmTypeOK
  BY ShapeIsType DEF RTInv
<1> QED
  BY <1>1, RoundTripSafe, PTL

\* Pass one lays out every program that fits in the order of its source and
\* without overlap, data behind code (parser.c: SectionState).
THEOREM LayoutInOrder == RTSpec => []StatementsInOrder
<1>1. RTInv => StatementsInOrder
  BY DEF RTInv, Layout
<1> QED
  BY <1>1, RoundTripSafe, PTL

\* Every program that fits and has a size the header can express becomes an
\* image that the loader accepts (assembler.c against loader.c).
THEOREM AssembledLoads == RTSpec => []ImageLoads
<1>1. RTInv => ImageLoads
  BY LoadsIfFits DEF RTInv
<1> QED
  BY <1>1, RoundTripSafe, PTL

\* Such a program's image is one for which disassembler.h promises an exact
\* round trip, unless its code ends at the top of memory.
THEOREM AssembledReproducible == RTSpec => []AssembledIsReproducible
<1>1. RTInv => AssembledIsReproducible
  BY ReproducibleIfFits DEF RTInv
<1> QED
  BY <1>1, RoundTripSafe, PTL

\* The linear sweep never leaves the code region, on any image that
\* disassemble() accepts, damaged or not (disassembler.c: next > end and
\* next <= pc).
THEOREM SweepBounded == RTSpec => []SweepStaysInCode
<1>1. RTInv => SweepStaysInCode
  BY DEF RTInv, DisShape, SweepStaysInCode
<1> QED
  BY <1>1, RoundTripSafe, PTL

-----------------------------------------------------------------------------
\* Every step of a call brings it nearer to its return.

LEMMA Below ==
  ASSUME NEW x \in Int, NEW y \in Int, 0 <= x, x < y
  PROVE  x \in 0 .. y - 1
  OBVIOUS

LEMMA DisStepAdvances ==
  ASSUME DisShape, DisNext
  PROVE  DisLeft' \in 0 .. DisLeft - 1
<1>1. CASE check_image
  <2>1. DisLeft = 65538
    BY <1>1 DEF check_image, DisLeft
  <2>2. CASE accepts_image
    <3>1. dstage' = "code" /\ dpc' = given.code_addr
      BY <1>1, <2>2 DEF check_image
    <3>2. given.code_addr \in Word
      BY SweepEnd DEF DisShape
    <3>3. DisLeft' = 65537 - given.code_addr
      BY <3>1 DEF DisLeft
    <3>4. /\ DisLeft \in Int /\ DisLeft' \in Int
          /\ 0 <= DisLeft' /\ DisLeft' < DisLeft
      BY <2>1, <3>2, <3>3 DEF Word
    <3> QED
      BY <3>4, Below
  <2>3. CASE ~accepts_image
    <3>1. dstage' = "error"
      BY <1>1, <2>3 DEF check_image
    <3>2. DisLeft' = 0
      BY <3>1 DEF DisLeft
    <3> QED
      BY <2>1, <3>2
  <2> QED
    BY <2>2, <2>3
<1>2. CASE sweep_instruction \/ sweep_byte
  <2>1. dpc \in Nat /\ dpc' \in Word /\ dpc < dpc'
    BY <1>2, SweepMoves
  <2>2. dstage = "code" /\ dstage' = "code"
    BY <1>2 DEF sweep_instruction, sweep_byte
  <2>3. DisLeft = 65537 - dpc /\ DisLeft' = 65537 - dpc'
    BY <2>2 DEF DisLeft
  <2> DEFINE a == dpc
             b == dpc'
             v == DisLeft
             w == DisLeft'
  <2>4. /\ a \in Nat /\ b \in Nat /\ b < 65536 /\ a < b
        /\ v = 65537 - a /\ w = 65537 - b
    BY <2>1, <2>3 DEF Word
  <2> HIDE DEF a, b, v, w
  <2>5. v \in Int /\ w \in Int /\ 0 <= w /\ w < v
    BY <2>4
  <2>6. w \in 0 .. v - 1
    BY <2>5, Below
  <2> QED
    BY <2>6 DEF v, w
<1>3. CASE print_data
  <2>1. dstage = "code" /\ dstage' = "ok"
    BY <1>3, Zenon DEF print_data
  <2>2. DisLeft = 65537 - dpc /\ DisLeft' = 0 /\ dpc \in Word
    BY <2>1 DEF DisLeft, DisShape
  <2> QED
    BY <2>2 DEF Word
<1> QED
  BY <1>1, <1>2, <1>3 DEF DisNext

\* What is left of a line in pass one, as a number.
LeftNow ==
  /\ Len(stmts) \in Nat /\ Len(tokens) \in Nat
  /\ pos \in Nat /\ pos <= Len(tokens)
  /\ stage \in {"line", "rest"} =>
       AsmLeft = Len(stmts) + 3 + 3 * (Len(tokens) - pos)
  /\ stage = "eol" =>
       AsmLeft = Len(stmts) + 4 + 3 * (Len(tokens) - pos)
  /\ stage = "emit" => AsmLeft = Len(stmts) + 2 - next
  /\ stage \in {"ok", "error"} => AsmLeft = 0

LEMMA LeftIsNow == AsmShape => LeftNow
<1> SUFFICES ASSUME AsmShape PROVE LeftNow
  OBVIOUS
<1>1. Len(stmts) \in Nat
  BY AppendSeq DEF AsmShape
<1>2. Len(tokens) \in Nat /\ pos \in 1 .. Len(tokens)
  BY TokenListType DEF AsmShape
<1>3. stage \in {"line", "rest"} =>
        AsmLeft = Len(stmts) + 3 + 3 * (Len(tokens) - pos)
  BY <1>1, <1>2 DEF AsmLeft
<1>4. stage = "eol" => AsmLeft = Len(stmts) + 4 + 3 * (Len(tokens) - pos)
  BY <1>1, <1>2 DEF AsmLeft
<1>5. stage = "emit" => AsmLeft = Len(stmts) + 2 - next
  BY DEF AsmLeft
<1>6. stage \in {"ok", "error"} => AsmLeft = 0
  BY DEF AsmLeft
<1> QED
  BY <1>1, <1>2, <1>3, <1>4, <1>5, <1>6 DEF LeftNow

LEMMA LeftInPassOne ==
  ASSUME AsmShape
  PROVE  /\ Len(stmts) \in Nat /\ Len(tokens) \in Nat
         /\ pos \in Nat /\ pos <= Len(tokens)
         /\ stage \in {"line", "rest"} =>
              AsmLeft = Len(stmts) + 3 + 3 * (Len(tokens) - pos)
         /\ stage = "eol" =>
              AsmLeft = Len(stmts) + 4 + 3 * (Len(tokens) - pos)
         /\ stage = "emit" => AsmLeft = Len(stmts) + 2 - next
         /\ stage \in {"ok", "error"} => AsmLeft = 0
  BY LeftIsNow DEF LeftNow

LEMMA LeftAfter ==
  ASSUME AsmShape'
  PROVE  /\ Len(stmts') \in Nat /\ Len(tokens') \in Nat
         /\ pos' \in Nat /\ pos' <= Len(tokens')
         /\ stage' \in {"line", "rest"} =>
              AsmLeft' = Len(stmts') + 3 + 3 * (Len(tokens') - pos')
         /\ stage' = "eol" =>
              AsmLeft' = Len(stmts') + 4 + 3 * (Len(tokens') - pos')
         /\ stage' = "emit" => AsmLeft' = Len(stmts') + 2 - next'
         /\ stage' \in {"ok", "error"} => AsmLeft' = 0
<1>1. LeftNow'
  BY LeftIsNow, PTL
<1> QED
  BY <1>1 DEF LeftNow

\* A step that takes a token and appends at most one statement.
LEMMA TokenStep ==
  ASSUME AsmShape, AsmShape', stage \in {"line", "rest"},
         stage' \in {"line", "rest", "eol"}, tokens' = tokens,
         \/ stmts' = stmts
         \/ \E st : stmts' = Append(stmts, st),
         pos' > pos
  PROVE  AsmLeft' \in 0 .. AsmLeft - 1
<1>1. /\ Len(stmts) \in Nat /\ Len(tokens) \in Nat
      /\ pos \in Nat /\ pos <= Len(tokens)
      /\ AsmLeft = Len(stmts) + 3 + 3 * (Len(tokens) - pos)
  BY LeftInPassOne
<1>2. /\ pos' \in Nat /\ pos' <= Len(tokens)
      /\ \/ AsmLeft' = Len(stmts') + 3 + 3 * (Len(tokens) - pos')
         \/ AsmLeft' = Len(stmts') + 4 + 3 * (Len(tokens) - pos')
  BY LeftAfter
<1>3. Len(stmts') = Len(stmts) \/ Len(stmts') = Len(stmts) + 1
  BY AppendSeq DEF AsmShape
<1> DEFINE l == AsmLeft
           k == AsmLeft'
<1> HIDE DEF l, k
<1> DEFINE n == Len(stmts)
           n1 == Len(stmts')
           r == Len(tokens) - pos
           r1 == Len(tokens) - pos'
<1>4. l \in Nat /\ k \in Nat /\ k < l
  <2>1. /\ n \in Nat /\ r \in Nat /\ r1 \in Nat /\ r1 < r
    BY <1>1, <1>2
  <2>2. /\ l = n + 3 + 3 * r /\ (n1 = n \/ n1 = n + 1)
        /\ k = n1 + 3 + 3 * r1 \/ k = n1 + 4 + 3 * r1
    BY <1>1, <1>2, <1>3 DEF l, k
  <2> HIDE DEF n, n1, r, r1
  <2> QED
    BY <2>1, <2>2
<1>5. k \in 0 .. l - 1
  BY <1>4
<1> QED
  BY <1>5 DEF l, k

LEMMA AsmStepAdvances ==
  ASSUME AsmShape, AsmNext
  PROVE  AsmLeft' \in 0 .. AsmLeft - 1
<1>1. AsmShape'
  BY AsmShapeStep
<1>2. ASSUME stage' \in {"ok", "error"}, stage \notin {"ok", "error"}
      PROVE  AsmLeft' \in 0 .. AsmLeft - 1
  <2>1. AsmLeft' = 0
    BY <1>1, <1>2, LeftAfter
  <2>2. AsmLeft \in Nat /\ AsmLeft > 0
    <3>1. CASE stage = "emit"
      BY <3>1, LeftInPassOne DEF AsmShape
    <3>2. CASE stage = "eol"
      BY <3>2, LeftInPassOne
    <3>3. CASE stage \in {"line", "rest"}
      BY <3>3, LeftInPassOne
    <3> QED
      BY <1>2, <3>1, <3>2, <3>3 DEF AsmShape
  <2> QED
    BY <2>1, <2>2
<1>3. CASE skip_newline
  <2>1. /\ stage = "line" /\ stage' = "line" /\ tokens' = tokens
        /\ stmts' = stmts /\ pos' = advance(pos)
    BY <1>3 DEF skip_newline
  <2>2. here.type # "TOK_EOF"
    BY <1>3 DEF skip_newline
  <2>3. pos' > pos
    BY <2>1, <2>2, Places
  <2> QED
    BY <1>1, <2>1, <2>3, TokenStep
<1>4. CASE define_label
  <2>1. /\ stage = "line" /\ stage' \in {"line", "rest", "eol"}
        /\ tokens' = tokens /\ pos' = advance(advance(pos))
        /\ stmts' = Append(stmts, LabelStatement(here.text, cursor[section]))
    BY <1>4 DEF define_label, LabelStatement
  <2>2. here.type # "TOK_EOF"
    BY <1>4 DEF define_label, starts_label
  <2>3. pos' > pos
    BY <2>1, <2>2, Places
  <2> QED
    BY <1>1, <2>1, <2>3, TokenStep
<1>5. CASE \/ parse_instruction_statement \/ parse_string
           \/ parse_word \/ parse_byte
  <2>1. PICK st, p : PlacesStatement(st, p)
    BY <1>5, PlacingSteps
  <2>2. /\ stage \in {"line", "rest"} /\ stage' = "eol" /\ tokens' = tokens
        /\ pos' > pos /\ stmts' = Append(stmts, Placed(st))
    BY <2>1 DEF PlacesStatement, place, Placed
  <2> QED
    BY <1>1, <2>2, TokenStep
<1>6. CASE parse_org
  <2>1. /\ stage \in {"line", "rest"} /\ stage' = "eol" /\ tokens' = tokens
        /\ stmts' = Append(stmts, Statement("STMT_ORG", 0))
    BY <1>6 DEF parse_org, at_statement
  <2>2. pos' > pos
    BY <1>6, OrgMoves
  <2> QED
    BY <1>1, <2>1, <2>2, TokenStep
<1>7. CASE parse_data
  <2>1. /\ stage \in {"line", "rest"} /\ stage' = "eol" /\ tokens' = tokens
        /\ stmts' = Append(stmts, Statement("STMT_DATA_SECTION", 0))
        /\ pos' = advance(pos)
    BY <1>7 DEF parse_data, at_statement
  <2>2. here.type # "TOK_EOF"
    BY <1>7 DEF parse_data, accepts_data, is_directive
  <2>3. pos' > pos
    BY <2>1, <2>2, Places
  <2> QED
    BY <1>1, <2>1, <2>3, TokenStep
<1>8. CASE duplicate_label \/ parse_fails
  <2>1. stage \in {"line", "rest"} /\ stage' = "error"
    BY <1>8 DEF duplicate_label, parse_fails, at_statement, fail
  <2> QED
    BY <1>2, <2>1
<1>9. CASE end_of_line
  <2>1. CASE fail
    <3>1. stage = "eol" /\ stage' = "error"
      BY <1>9, <2>1 DEF end_of_line, fail
    <3> QED
      BY <1>2, <3>1
  <2>2. CASE ~fail
    <3>1. /\ stage = "eol" /\ stage' = "line" /\ tokens' = tokens
          /\ stmts' = stmts
          /\ pos' = IF here.type = "TOK_NEWLINE" THEN advance(pos) ELSE pos
      BY <1>9, <2>2 DEF end_of_line
    <3>2. pos' >= pos
      BY <3>1, Places
    <3>3. AsmLeft = Len(stmts) + 4 + 3 * (Len(tokens) - pos)
      BY <3>1, LeftInPassOne
    <3>4. AsmLeft' = Len(stmts) + 3 + 3 * (Len(tokens) - pos')
      BY <1>1, <3>1, LeftAfter
    <3>5. /\ Len(stmts) \in Nat /\ Len(tokens) \in Nat /\ pos \in Nat
          /\ pos' \in Nat /\ pos' <= Len(tokens)
      BY <1>1, <3>1, LeftInPassOne, LeftAfter
    <3> QED
      BY <3>2, <3>3, <3>4, <3>5
  <2> QED
    BY <2>1, <2>2
<1>10. CASE end_of_source
  <2>1. stage = "line" /\ stage' \in {"emit", "error"}
    BY <1>10 DEF end_of_source
  <2>2. CASE stage' = "emit"
    <3>1. /\ AsmLeft = Len(stmts) + 3 + 3 * (Len(tokens) - pos)
          /\ Len(stmts) \in Nat /\ Len(tokens) \in Nat
          /\ pos \in Nat /\ pos <= Len(tokens)
      BY <2>1, LeftInPassOne
    <3>2. AsmLeft' = Len(stmts') + 2 - next'
      BY <1>1, <2>2, LeftAfter
    <3>3. Len(stmts') = Len(stmts) /\ next' = 1
      BY <1>10, <2>1 DEF end_of_source, AsmShape
    <3> QED
      BY <3>1, <3>2, <3>3
  <2> QED
    BY <1>2, <2>1, <2>2
<1>11. CASE emit_statement
  <2>1. CASE fail
    <3>1. stage = "emit" /\ stage' = "error"
      BY <1>11, <2>1 DEF emit_statement, fail
    <3> QED
      BY <1>2, <3>1
  <2>2. CASE ~fail
    <3>1. /\ stage = "emit" /\ next <= Len(stmts) /\ next' = next + 1
          /\ stage' = stage /\ stmts' = stmts
      BY <1>11, <2>2 DEF emit_statement, parser
    <3>2. AsmLeft = Len(stmts) + 2 - next /\ Len(stmts) \in Nat
      BY <3>1, LeftInPassOne
    <3>3. AsmLeft' = Len(stmts') + 2 - next'
      BY <1>1, <3>1, LeftAfter
    <3>4. next \in Nat
      BY DEF AsmShape
    <3> QED
      BY <3>1, <3>2, <3>3, <3>4
  <2> QED
    BY <2>1, <2>2
<1>12. CASE make_result
  <2>1. stage = "emit" /\ stage' = "ok"
    BY <1>12 DEF make_result
  <2> QED
    BY <1>2, <2>1
<1> QED
  BY <1>3, <1>4, <1>5, <1>6, <1>7, <1>8, <1>9, <1>10, <1>11, <1>12
     DEF AsmNext, PassOne

\* assemble() and disassemble() return on every input: each step of theirs
\* brings a natural number down (parser.c: build_statements; disassembler.c:
\* the sweep).
THEOREM CallsReturn == RTSpec => CallsAdvance
<1> DEFINE A == \/ turn' # turn
                \/ turn = "disassemble" /\ DisLeft' \in 0 .. DisLeft - 1
                \/ turn # "disassemble" /\ AsmLeft' \in 0 .. AsmLeft - 1
<1>1. ASSUME RTInv, RTNext PROVE A
  <2>1. CASE Assembling
    <3>1. turn # "disassemble" /\ AsmNext /\ AsmShape
      BY <1>1, <2>1 DEF Assembling, RTInv
    <3> QED
      BY <3>1, AsmStepAdvances
  <2>2. CASE Disassembling
    <3>1. turn = "disassemble" /\ DisNext /\ DisShape
      BY <1>1, <2>2 DEF Disassembling, RTInv
    <3> QED
      BY <3>1, DisStepAdvances
  <2>3. CASE HandOver \/ HandBack
    BY <2>3 DEF HandOver, HandBack
  <2> QED
    BY <1>1, <2>1, <2>2, <2>3 DEF RTNext
<1>2. RTInv /\ [RTNext]_rtVars => [A]_rtVars
  BY <1>1
<1> QED
  BY <1>2, RoundTripSafe, PTL DEF RTSpec, CallsAdvance

-----------------------------------------------------------------------------
\* An instruction is its own bytes: decoding depends on nothing else.

LEMMA OperandNext ==
  ASSUME NEW m, NEW a \in Word, NEW mode \in 0 .. 5
  PROVE  decode_operand(m, a, mode).next = (a + mode_byte_size(mode)) % 65536
<1> USE DEF MODE_NONE, MODE_REG, MODE_IMM16, MODE_MEM_DIRECT,
            MODE_REG_INDIRECT, MODE_IMM8
<1>1. CASE mode = MODE_NONE
  BY <1>1 DEF decode_operand, mode_byte_size, Word
<1>2. CASE mode \in {MODE_REG, MODE_REG_INDIRECT}
  BY <1>2 DEF decode_operand, mode_byte_size
<1>3. CASE mode = MODE_IMM8
  BY <1>3 DEF decode_operand, mode_byte_size
<1>4. CASE mode \in {MODE_IMM16, MODE_MEM_DIRECT}
  BY <1>4 DEF decode_operand, mode_byte_size
<1> QED
  BY <1>1, <1>2, <1>3, <1>4

LEMMA OperandAgrees ==
  ASSUME NEW m, NEW n, NEW a \in Word, NEW mode \in 0 .. 5,
         mode_byte_size(mode) >= 1 => mem_read8(n, a) = mem_read8(m, a),
         mode_byte_size(mode) = 2 =>
           mem_read8(n, (a + 1) % 65536) = mem_read8(m, (a + 1) % 65536)
  PROVE  decode_operand(n, a, mode) = decode_operand(m, a, mode)
<1> USE DEF MODE_NONE, MODE_REG, MODE_IMM16, MODE_MEM_DIRECT,
            MODE_REG_INDIRECT, MODE_IMM8
<1>1. CASE mode = MODE_NONE
  BY <1>1 DEF decode_operand
<1>2. CASE mode \in {MODE_REG, MODE_REG_INDIRECT}
  <2>1. mem_read8(n, a) = mem_read8(m, a)
    BY <1>2 DEF mode_byte_size
  <2> QED
    BY <1>2, <2>1 DEF decode_operand
<1>3. CASE mode = MODE_IMM8
  <2>1. mem_read8(n, a) = mem_read8(m, a)
    BY <1>3 DEF mode_byte_size
  <2> QED
    BY <1>3, <2>1 DEF decode_operand
<1>4. CASE mode \in {MODE_IMM16, MODE_MEM_DIRECT}
  <2>1. mode_byte_size(mode) = 2
    BY <1>4 DEF mode_byte_size
  <2>2. mem_read16(n, a) = mem_read16(m, a)
    BY <2>1 DEF mem_read16
  <2> QED
    BY <1>4, <2>2 DEF decode_operand
<1> QED
  BY <1>1, <1>2, <1>3, <1>4

\* The parts of a decode, and when it succeeds.
Mode1(m, x) == mem_read8(m, (x + 1) % 65536) \div 16
Mode2(m, x) == mem_read8(m, (x + 1) % 65536) % 16
First(m, x) == decode_operand(m, (x + 2) % 65536, Mode1(m, x))
Second(m, x) == decode_operand(m, First(m, x).next, Mode2(m, x))
Decodable(m, x) ==
  /\ mem_read8(m, x) \in Opcode
  /\ Mode1(m, x) \in op1_modes(mem_read8(m, x))
  /\ Mode2(m, x) \in op2_modes(mem_read8(m, x))
  /\ First(m, x).result = "VM_OK" /\ Second(m, x).result = "VM_OK"
Decoded(m, x) ==
  [result |-> "VM_OK", opcode |-> mem_read8(m, x),
   op1 |-> First(m, x).operand, op2 |-> Second(m, x).operand,
   next |-> Second(m, x).next]

LEMMA DecodeParts ==
  ASSUME NEW m, NEW x
  PROVE  /\ Decodable(m, x) => instruction_decode(m, x) = Decoded(m, x)
         /\ instruction_decode(m, x).result = "VM_OK" => Decodable(m, x)
<1> DEFINE op    == mem_read8(m, x)
           mode1 == Mode1(m, x)
           mode2 == Mode2(m, x)
           d1    == First(m, x)
           d2    == Second(m, x)
           i     == instruction_decode(m, x)
<1>1. i = IF op \notin Opcode
          THEN decode_failed("VM_ERR_INVALID_OPCODE", x)
          ELSE IF mode1 \notin op1_modes(op) \/ mode2 \notin op2_modes(op)
          THEN decode_failed("VM_ERR_INVALID_MODE", x)
          ELSE IF d1.result # "VM_OK" \/ d2.result # "VM_OK"
          THEN decode_failed("VM_ERR_INVALID_MODE", x)
          ELSE Decoded(m, x)
  BY DEF instruction_decode, Mode1, Mode2, First, Second, Decoded
<1>2. /\ decode_failed("VM_ERR_INVALID_OPCODE", x).result # "VM_OK"
      /\ decode_failed("VM_ERR_INVALID_MODE", x).result # "VM_OK"
  BY DEF decode_failed
<1> HIDE DEF op, mode1, mode2, d1, d2, i
<1>3. Decodable(m, x) <=>
        /\ op \in Opcode /\ mode1 \in op1_modes(op) /\ mode2 \in op2_modes(op)
        /\ d1.result = "VM_OK" /\ d2.result = "VM_OK"
  BY Zenon DEF Decodable, op, mode1, mode2, d1, d2
<1>4. /\ Decodable(m, x) => i = Decoded(m, x)
      /\ i.result = "VM_OK" => Decodable(m, x)
  BY <1>1, <1>2, <1>3
<1> QED
  BY <1>4 DEF i

LEMMA DecodeAgrees ==
  ASSUME NEW m, IsMemory(m), NEW n, IsMemory(n), NEW x \in Word,
         instruction_decode(m, x).result = "VM_OK",
         instruction_decode(m, x).next > x,
         \A y \in x .. instruction_decode(m, x).next - 1 :
           mem_read8(n, y) = mem_read8(m, y)
  PROVE  instruction_decode(n, x) = instruction_decode(m, x)
<1> DEFINE d  == instruction_decode(m, x)
           x1 == (x + 1) % 65536
           x2 == (x + 2) % 65536
           m1 == Mode1(m, x)
           m2 == Mode2(m, x)
           o1 == First(m, x)
           o2 == Second(m, x)
           s1 == mode_byte_size(m1)
           s2 == mode_byte_size(m2)
           op == mem_read8(m, x)
<1>1. /\ op \in Opcode /\ m1 \in op1_modes(op) /\ m2 \in op2_modes(op)
      /\ o1.result = "VM_OK" /\ o2.result = "VM_OK"
      /\ d = [result |-> "VM_OK", opcode |-> op, op1 |-> o1.operand,
              op2 |-> o2.operand, next |-> o2.next]
  BY DecodeParts DEF Decodable, Decoded
<1>2. m1 \in 0 .. 5 /\ m2 \in 0 .. 5
  BY <1>1, LegalModes
<1>3. x1 \in Word /\ x2 \in Word
  BY WrapIsWord DEF Word
<1>4. s1 \in {0, 1, 2} /\ s2 \in {0, 1, 2}
  BY ModeSize
<1> HIDE DEF op, m1, m2, s1, s2
<1>5. o1.next = (x2 + s1) % 65536
  BY <1>2, <1>3, OperandNext DEF s1, First, m1
<1> DEFINE a2 == o1.next
<1>6. a2 \in Word
  BY <1>3, <1>4, <1>5, WrapIsWord DEF Word
<1>7. o2.next = (a2 + s2) % 65536
  BY <1>2, <1>6, OperandNext DEF s2, Second, m2
<1>8. d.next = o2.next
  BY <1>1
<1> HIDE DEF o1, o2, d
<1>9. /\ x1 = x + 1 /\ x2 = x + 2 /\ a2 = x + 2 + s1
      /\ d.next = x + 2 + s1 + s2 /\ d.next <= 65535
  <2>1. x1 = (x + 1) % 65536 /\ x2 = (x + 2) % 65536
    OBVIOUS
  <2>2. a2 = (x2 + s1) % 65536 /\ d.next = (a2 + s2) % 65536 /\ d.next > x
    BY <1>5, <1>7, <1>8 DEF d
  <2> HIDE DEF x1, x2, a2
  <2> QED
    BY <1>4, <2>1, <2>2 DEF Word
<1>10. \A y \in x .. d.next - 1 : mem_read8(n, y) = mem_read8(m, y)
  BY DEF d
<1>11. mem_read8(n, x) = op /\ mem_read8(n, x1) = mem_read8(m, x1)
  BY <1>4, <1>9, <1>10 DEF Word, op
<1>12. mem_read8(n, x) = op /\ Mode1(n, x) = m1 /\ Mode2(n, x) = m2
  BY <1>11 DEF Mode1, Mode2, m1, m2
<1>13. First(n, x) = o1
  <2>1. s1 >= 1 => mem_read8(n, x2) = mem_read8(m, x2)
    BY <1>4, <1>9, <1>10 DEF Word
  <2>2. s1 = 2 => mem_read8(n, (x2 + 1) % 65536) = mem_read8(m, (x2 + 1) % 65536)
    <3> SUFFICES ASSUME s1 = 2
                 PROVE  mem_read8(n, (x2 + 1) % 65536)
                          = mem_read8(m, (x2 + 1) % 65536)
      OBVIOUS
    <3>1. (x2 + 1) % 65536 = x + 3 /\ x + 3 \in x .. d.next - 1
      BY <1>4, <1>9 DEF Word
    <3> QED
      BY <1>10, <3>1
  <2>3. decode_operand(n, x2, m1) = decode_operand(m, x2, m1)
    BY <1>2, <1>3, <2>1, <2>2, OperandAgrees DEF s1
  <2>4. o1 = decode_operand(m, x2, m1)
    BY DEF o1, m1, First
  <2>5. First(n, x) = decode_operand(n, x2, m1)
    BY <1>12 DEF First
  <2> QED
    BY <2>3, <2>4, <2>5
<1>14. Second(n, x) = o2
  <2>1. s2 >= 1 => mem_read8(n, a2) = mem_read8(m, a2)
    BY <1>4, <1>9, <1>10 DEF Word
  <2>2. s2 = 2 => mem_read8(n, (a2 + 1) % 65536) = mem_read8(m, (a2 + 1) % 65536)
    <3> SUFFICES ASSUME s2 = 2
                 PROVE  mem_read8(n, (a2 + 1) % 65536)
                          = mem_read8(m, (a2 + 1) % 65536)
      OBVIOUS
    <3>1. (a2 + 1) % 65536 = a2 + 1 /\ a2 + 1 \in x .. d.next - 1
      BY <1>4, <1>9 DEF Word
    <3> QED
      BY <1>10, <3>1
  <2>3. decode_operand(n, a2, m2) = decode_operand(m, a2, m2)
    BY <1>2, <1>6, <2>1, <2>2, OperandAgrees DEF s2
  <2>4. o2 = decode_operand(m, a2, m2)
    BY DEF o2, o1, m2, Second
  <2>5. Second(n, x) = decode_operand(n, a2, m2)
    BY <1>12, <1>13 DEF Second
  <2> QED
    BY <2>3, <2>4, <2>5
<1>15. Decodable(n, x)
  BY <1>1, <1>12, <1>13, <1>14 DEF Decodable
<1>16. instruction_decode(n, x) = Decoded(n, x)
  BY <1>15, DecodeParts
<1>17. instruction_decode(n, x) = d
  BY <1>1, <1>12, <1>13, <1>14, <1>16 DEF Decoded
<1> QED
  BY <1>17 DEF d

\* Where dis prints an instruction the debugger shows the same: the bytes it
\* was decoded from are in the code region, which the loader copied.
LEMMA SameShown ==
  ASSUME DisShape
  PROVE  DebuggerShowsSame
<1> SUFFICES ASSUME dstage = "code", dpc < dend, decodes_here, header_ok(given)
             PROVE  disassemble_one(loaded_memory(given), dpc) =
                      [ok |-> TRUE,
                       line |-> format_instruction(instruction_decode(dmem, dpc)),
                       next_addr |-> instruction_decode(dmem, dpc).next]
  BY DEF DebuggerShowsSame
<1> DEFINE d == instruction_decode(dmem, dpc)
           ca == given.code_addr
           cs == given.code_size
           m == loaded_memory(given)
<1>1. IsImage(given) /\ accepts_image /\ SweepStaysInCode /\ dpc \in Word
  BY DEF DisShape
<1>2. d.result = "VM_OK" /\ d.next <= dend /\ d.next > dpc
  BY DEF decodes_here
<1>3. IsMemory(dmem) /\ IsMemory(m)
  BY <1>1, SweptMemory, LoadedMemoryType
<1>4. d.next \in Word
  BY <1>1, <1>3, DecodeType
<1>5. /\ ca \in Word /\ cs \in Nat /\ ca + cs <= 65536
      /\ dend = (ca + cs) % 65536
  BY <1>1, AcceptedShape DEF dend, code_end
<1>6. ca <= dpc
  BY <1>1, <1>5 DEF SweepStaysInCode, Word
<1> HIDE DEF d, m
<1>7. ASSUME NEW y \in dpc .. d.next - 1
      PROVE  mem_read8(m, y) = mem_read8(dmem, y)
  <2> DEFINE k == y - ca + 1
  <2>1. k \in 1 .. cs /\ ca + k - 1 = y /\ k - 1 \in 0 .. cs - 1
        /\ (ca + (k - 1)) % 65536 = y /\ (k - 1) + 1 = k
    <3> HIDE DEF ca, cs
    <3> QED
      BY <1>1, <1>2, <1>4, <1>5, <1>6 DEF Word
  <2> HIDE DEF k
  <2>2. mem_read8(m, ca + k - 1) = given.body[k]
    BY <1>1, <2>1, LoadedContents DEF m
  <2>3. mem_read8(dmem, (ca + (k - 1)) % 65536) = given.body[(k - 1) + 1]
    BY <1>1, <2>1, SweptMemory
  <2> QED
    BY <2>1, <2>2, <2>3
<1>8. instruction_decode(m, dpc) = d
  BY <1>1, <1>2, <1>3, <1>7, DecodeAgrees DEF d
<1>9. disassemble_one(m, dpc) =
        [ok |-> TRUE, line |-> format_instruction(d), next_addr |-> d.next]
  BY <1>2, <1>8 DEF disassemble_one
<1> QED
  BY <1>9 DEF d, m

\* disassemble_one on the loaded machine agrees with disassemble() on the
\* file, instruction by instruction, for every image.
THEOREM DebuggerAgrees == RTSpec => []DebuggerShowsSame
<1>1. RTInv => DebuggerShowsSame
  BY SameShown DEF RTInv
<1> QED
  BY <1>1, RoundTripSafe, PTL

-----------------------------------------------------------------------------
\* Labels (symtab.c): the table holds the address at which the line of a
\* label was reached, which is the address of the statement after it.

LabelsEntered ==
  \A i \in 1 .. Len(stmts) :
    stmts[i].kind = "STMT_LABEL" =>
      /\ stmts[i].label \in DOMAIN symtab
      /\ symtab[stmts[i].label] = stmts[i].address

LastLabel ==
  Len(stmts) > 0 /\ stmts[Len(stmts)].kind = "STMT_LABEL" =>
    stmts[Len(stmts)].address = cursor[section]

LabelsAdjacent ==
  \A i \in 1 .. Len(stmts) - 1 :
    stmts[i].kind = "STMT_LABEL" /\ occupies(stmts[i + 1]) =>
      stmts[i].address = stmts[i + 1].address

Labels == LabelsEntered /\ LastLabel /\ LabelsAdjacent

LEMMA AppendLabels ==
  ASSUME AsmShape, Labels, NEW st, stmts' = Append(stmts, st),
         \A n \in DOMAIN symtab : n \in DOMAIN symtab' /\ symtab'[n] = symtab[n],
         st.kind = "STMT_LABEL" => /\ st.label \in DOMAIN symtab'
                                   /\ symtab'[st.label] = st.address
                                   /\ st.address = cursor'[section'],
         st.encoded_size > 0 => st.address = cursor[section]
  PROVE  Labels'
<1>1. /\ Len(stmts) \in Nat /\ Len(stmts') = Len(stmts) + 1
      /\ \A i \in 1 .. Len(stmts) : stmts'[i] = stmts[i]
      /\ stmts'[Len(stmts) + 1] = st
  BY AppendSeq DEF AsmShape
<1>2. LabelsEntered'
  <2> SUFFICES ASSUME NEW i \in 1 .. Len(stmts'), stmts'[i].kind = "STMT_LABEL"
               PROVE  /\ stmts'[i].label \in DOMAIN symtab'
                      /\ symtab'[stmts'[i].label] = stmts'[i].address
    BY DEF LabelsEntered
  <2>1. CASE i = Len(stmts) + 1
    BY <1>1, <2>1
  <2>2. CASE i # Len(stmts) + 1
    <3>1. i \in 1 .. Len(stmts) /\ stmts'[i] = stmts[i]
      BY <1>1, <2>2
    <3> QED
      BY <3>1 DEF Labels, LabelsEntered
  <2> QED
    BY <2>1, <2>2
<1>3. LastLabel'
  BY <1>1 DEF LastLabel
<1>4. LabelsAdjacent'
  <2> SUFFICES ASSUME NEW i \in 1 .. Len(stmts') - 1,
                      stmts'[i].kind = "STMT_LABEL",
                      stmts'[i + 1].encoded_size > 0
               PROVE  stmts'[i].address = stmts'[i + 1].address
    BY DEF LabelsAdjacent, occupies
  <2>1. i \in 1 .. Len(stmts) /\ stmts'[i] = stmts[i]
    BY <1>1
  <2>2. CASE i = Len(stmts)
    <3>1. stmts'[i + 1] = st /\ Len(stmts) > 0
      BY <1>1, <2>1, <2>2
    <3> QED
      BY <2>1, <2>2, <3>1 DEF Labels, LastLabel
  <2>3. CASE i # Len(stmts)
    <3>1. i \in 1 .. Len(stmts) - 1 /\ stmts'[i + 1] = stmts[i + 1]
      BY <1>1, <2>1, <2>3
    <3> QED
      BY <2>1, <3>1 DEF Labels, LabelsAdjacent, occupies
  <2> QED
    BY <2>2, <2>3
<1> QED
  BY <1>2, <1>3, <1>4 DEF Labels

LEMMA SameLabels ==
  ASSUME Labels, UNCHANGED <<stmts, symtab, section, cursor>>
  PROVE  Labels'
  BY DEF Labels, LabelsEntered, LastLabel, LabelsAdjacent, occupies

LEMMA LabelsStep ==
  ASSUME AsmShape, Labels, AsmNext
  PROVE  Labels'
<1>1. CASE fail
  BY <1>1, SameLabels DEF fail
<1>2. CASE skip_newline \/ end_of_source \/ make_result
  BY <1>2, SameLabels DEF skip_newline, end_of_source, make_result
<1>3. CASE end_of_line /\ ~fail
  BY <1>3, SameLabels DEF end_of_line
<1>4. CASE emit_statement /\ ~fail
  BY <1>4, SameLabels DEF emit_statement, parser
<1>5. CASE \/ parse_instruction_statement \/ parse_string
           \/ parse_word \/ parse_byte
  <2>1. PICK st, p : PlacesStatement(st, p)
    BY <1>5, PlacingSteps
  <2>2. /\ stmts' = Append(stmts, Placed(st)) /\ symtab' = symtab
        /\ IsBody(st) /\ st.kind # "STMT_LABEL"
    BY <2>1 DEF PlacesStatement, place, Placed
  <2>3. /\ Placed(st).kind # "STMT_LABEL"
        /\ Placed(st).address = cursor[section]
    BY <2>2, PlacedType DEF AsmShape
  <2> QED
    BY <2>2, <2>3, AppendLabels
<1>6. CASE parse_org
  <2>1. stmts' = Append(stmts, Statement("STMT_ORG", 0)) /\ symtab' = symtab
    BY <1>6 DEF parse_org
  <2>2. /\ Statement("STMT_ORG", 0).kind # "STMT_LABEL"
        /\ Statement("STMT_ORG", 0).encoded_size = 0
    BY DEF Statement
  <2> QED
    BY <2>1, <2>2, AppendLabels
<1>7. CASE parse_data
  <2>1. /\ stmts' = Append(stmts, Statement("STMT_DATA_SECTION", 0))
        /\ symtab' = symtab
    BY <1>7 DEF parse_data
  <2>2. /\ Statement("STMT_DATA_SECTION", 0).kind # "STMT_LABEL"
        /\ Statement("STMT_DATA_SECTION", 0).encoded_size = 0
    BY DEF Statement
  <2> QED
    BY <2>1, <2>2, AppendLabels
<1>8. CASE define_label
  <2> DEFINE addr == cursor[section]
             st == LabelStatement(here.text, addr)
  <2>1. addr \in Word
    BY DEF AsmShape
  <2>2. /\ symtab' = symtab_put(here.text, addr)
        /\ stmts' = Append(stmts, st)
        /\ here.text \notin DOMAIN symtab
        /\ UNCHANGED <<section, cursor>>
    BY <1>8 DEF define_label, LabelStatement
  <2>3. st.encoded_size = 0 /\ st.address = addr /\ st.label = here.text
    BY <2>1, LabelType
  <2> HIDE DEF st
  <2>4. /\ \A n \in DOMAIN symtab : n \in DOMAIN symtab' /\ symtab'[n] = symtab[n]
        /\ here.text \in DOMAIN symtab' /\ symtab'[here.text] = addr
    BY <2>2 DEF symtab_put
  <2>5. addr = cursor'[section']
    BY <2>2
  <2> QED
    BY <2>2, <2>3, <2>4, <2>5, AppendLabels
<1> QED
  BY <1>1, <1>2, <1>3, <1>4, <1>5, <1>6, <1>7, <1>8
     DEF AsmNext, PassOne, duplicate_label, parse_fails

-----------------------------------------------------------------------------
\* The bytes of a statement, and what emit_statement does to the buffer.

Encoding(st) ==
  head_bytes(st) \o operand_bytes(st.op1_mode, st.op1)
    \o operand_bytes(st.op2_mode, st.op2)

Extent(st) == st.address .. (st.address + st.encoded_size) - 1

Written(m, a, bytes) ==
  \A k \in 1 .. Len(bytes) : mem_read8(m, a + (k - 1)) = bytes[k]

LEMMA TwoParts ==
  ASSUME NEW S, NEW c \in Seq(S), NEW d \in Seq(S)
  PROVE  /\ c \o d \in Seq(S) /\ Len(c \o d) = Len(c) + Len(d)
         /\ \A k \in 1 .. Len(c) : (c \o d)[k] = c[k]
         /\ \A k \in 1 .. Len(d) : (c \o d)[Len(c) + k] = d[k]
  OBVIOUS

LEMMA ThreeParts ==
  ASSUME NEW S, NEW h \in Seq(S), NEW b1 \in Seq(S), NEW b2 \in Seq(S)
  PROVE  /\ h \o b1 \o b2 \in Seq(S)
         /\ Len(h \o b1 \o b2) = Len(h) + Len(b1) + Len(b2)
         /\ \A k \in 1 .. Len(h) : (h \o b1 \o b2)[k] = h[k]
         /\ \A k \in 1 .. Len(b1) : (h \o b1 \o b2)[Len(h) + k] = b1[k]
         /\ \A k \in 1 .. Len(b2) :
              (h \o b1 \o b2)[Len(h) + Len(b1) + k] = b2[k]
<1> DEFINE c == h \o b1
<1>1. /\ c \in Seq(S) /\ Len(c) = Len(h) + Len(b1)
      /\ \A k \in 1 .. Len(h) : c[k] = h[k]
      /\ \A k \in 1 .. Len(b1) : c[Len(h) + k] = b1[k]
  BY TwoParts
<1> HIDE DEF c
<1> DEFINE e == c \o b2
<1>2. /\ e \in Seq(S) /\ Len(e) = Len(c) + Len(b2)
      /\ \A k \in 1 .. Len(c) : e[k] = c[k]
      /\ \A k \in 1 .. Len(b2) : e[Len(c) + k] = b2[k]
  <2>1. c \in Seq(S)
    BY <1>1
  <2> QED
    BY <2>1, TwoParts
<1> HIDE DEF e
<1>3. ASSUME NEW k \in 1 .. Len(h) PROVE e[k] = h[k]
  <2>1. k \in 1 .. Len(c)
    BY <1>1
  <2> QED
    BY <1>1, <1>2, <2>1
<1>4. ASSUME NEW k \in 1 .. Len(b1) PROVE e[Len(h) + k] = b1[k]
  <2>1. Len(h) + k \in 1 .. Len(c)
    BY <1>1
  <2> QED
    BY <1>1, <1>2, <2>1
<1>5. e = h \o b1 \o b2
  BY DEF e, c
<1> QED
  BY <1>1, <1>2, <1>3, <1>4, <1>5

\* The parts of a statement that passes the checks.
LEMMA StatementParts ==
  ASSUME NEW st, IsStatement(st), emits(st),
         \A n \in DOMAIN symtab : symtab[n] \in Word
  PROVE  LET h  == head_bytes(st)
             b1 == operand_bytes(st.op1_mode, st.op1)
             b2 == operand_bytes(st.op2_mode, st.op2)
         IN  /\ h \in Seq(Byte) /\ b1 \in Seq(Byte) /\ b2 \in Seq(Byte)
             /\ st.address \in Word /\ st.encoded_size \in Nat
             /\ Len(h) + Len(b1) + Len(b2) = st.encoded_size
             /\ Len(b1) = mode_byte_size(st.op1_mode)
             /\ Len(b2) = mode_byte_size(st.op2_mode)
             /\ Len(b1) > 0 \/ Len(b2) > 0 => Len(h) = 2
<1> DEFINE h  == head_bytes(st)
           b1 == operand_bytes(st.op1_mode, st.op1)
           b2 == operand_bytes(st.op2_mode, st.op2)
<1>1. IsBody(st) /\ st.address \in Word
  BY DEF IsStatement
<1>2. /\ h \in Seq(Byte)
      /\ st.kind = "STMT_INSTRUCTION" => Len(h) = 2
      /\ st.kind # "STMT_INSTRUCTION" => Len(h) = st.encoded_size
  BY <1>1, HeadBytesType
<1>3. /\ b1 \in Seq(Byte) /\ Len(b1) = mode_byte_size(st.op1_mode)
      /\ b2 \in Seq(Byte) /\ Len(b2) = mode_byte_size(st.op2_mode)
  BY <1>1, OperandsEmitted
<1>4. st.encoded_size \in Nat
  BY <1>1 DEF IsBody
<1>5. st.kind = "STMT_INSTRUCTION" =>
        st.encoded_size = 2 + mode_byte_size(st.op1_mode)
                            + mode_byte_size(st.op2_mode)
  BY <1>1 DEF IsBody
<1>6. st.kind # "STMT_INSTRUCTION" =>
        mode_byte_size(st.op1_mode) = 0 /\ mode_byte_size(st.op2_mode) = 0
  <2>1. st.kind # "STMT_INSTRUCTION" =>
          st.op1_mode = MODE_NONE /\ st.op2_mode = MODE_NONE
    BY <1>1 DEF IsBody
  <2> QED
    BY <2>1 DEF mode_byte_size, MODE_NONE, MODE_REG, MODE_REG_INDIRECT,
                MODE_IMM8
<1> HIDE DEF h, b1, b2
<1>7. /\ Len(h) + Len(b1) + Len(b2) = st.encoded_size
      /\ Len(b1) > 0 \/ Len(b2) > 0 => Len(h) = 2
  <2>1. CASE st.kind = "STMT_INSTRUCTION"
    BY <1>2, <1>3, <1>4, <1>5, <2>1
  <2>2. CASE st.kind # "STMT_INSTRUCTION"
    BY <1>2, <1>3, <1>4, <1>6, <2>2
  <2> QED
    BY <2>1, <2>2
<1> QED
  BY <1>1, <1>2, <1>3, <1>4, <1>7 DEF h, b1, b2

LEMMA EncodingType ==
  ASSUME NEW st, IsStatement(st), emits(st),
         \A n \in DOMAIN symtab : symtab[n] \in Word
  PROVE  Encoding(st) \in Seq(Byte) /\ Len(Encoding(st)) = st.encoded_size
  BY StatementParts, ThreeParts DEF Encoding

\* Memory n is m with the bytes at x.
Holds(n, m, x, bytes) ==
  /\ \A y \in Int : mem_read8(n, y) = IF y \in x .. x + Len(bytes) - 1
                                      THEN bytes[y - x + 1]
                                      ELSE mem_read8(m, y)
  /\ DOMAIN n \subseteq DOMAIN m \cup (x .. x + Len(bytes) - 1)

\* A store that ends inside the buffer.
LEMMA StoreReads ==
  ASSUME NEW m, NEW x \in Nat, NEW bytes \in Seq(Byte),
         x + Len(bytes) <= 65536
  PROVE  Holds(store(m, x, bytes), m, x, bytes)
<1>1. store(m, x, bytes) = write_block(m, x, bytes)
  BY DEF store
<1> QED
  BY <1>1, Read8WriteBlock, WriteBlockDomain DEF Holds

LEMMA StoredReads ==
  ASSUME NEW m, NEW st, IsStatement(st), emits(st),
         \A n \in DOMAIN symtab : symtab[n] \in Word,
         st.address + st.encoded_size <= 65536
  PROVE  /\ Written(stored(m, st), st.address, Encoding(st))
         /\ \A y \in Int : y \notin Extent(st) =>
              mem_read8(stored(m, st), y) = mem_read8(m, y)
         /\ DOMAIN stored(m, st) \subseteq DOMAIN m \cup Extent(st)
<1> DEFINE h  == head_bytes(st)
           b1 == operand_bytes(st.op1_mode, st.op1)
           b2 == operand_bytes(st.op2_mode, st.op2)
           A  == st.address
           a1 == (A + 2) % 65536
           a2 == (a1 + Len(b1)) % 65536
           m1 == store(m, A, h)
           m2 == store(m1, a1, b1)
           m3 == store(m2, a2, b2)
           e  == Encoding(st)
           n  == st.encoded_size
<1>1. stored(m, st) = m3
  BY DEF stored
<1>2. /\ h \in Seq(Byte) /\ b1 \in Seq(Byte) /\ b2 \in Seq(Byte)
      /\ A \in Word /\ n \in Nat /\ Len(h) + Len(b1) + Len(b2) = n
      /\ Len(b1) > 0 \/ Len(b2) > 0 => Len(h) = 2
  BY StatementParts
<1>3. /\ Len(e) = n
      /\ \A k \in 1 .. Len(h) : e[k] = h[k]
      /\ \A k \in 1 .. Len(b1) : e[Len(h) + k] = b1[k]
      /\ \A k \in 1 .. Len(b2) : e[Len(h) + Len(b1) + k] = b2[k]
  BY <1>2, ThreeParts DEF Encoding
<1>4. A + n <= 65536
  OBVIOUS
<1> HIDE DEF h, b1, b2, A, e, n
<1> DEFINE l0 == Len(h)
           l1 == Len(b1)
           l2 == Len(b2)
<1>5. /\ l0 \in Nat /\ l1 \in Nat /\ l2 \in Nat /\ l0 + l1 + l2 = n
      /\ A \in Nat /\ A < 65536 /\ A + l0 + l1 + l2 <= 65536
      /\ l1 > 0 \/ l2 > 0 => l0 = 2
  BY <1>2, <1>4 DEF Word
<1> HIDE DEF l0, l1, l2
<1>6. /\ a1 \in Nat /\ a1 + l1 <= 65536
      /\ l1 > 0 => a1 = A + l0
      /\ a2 \in Nat /\ a2 + l2 <= 65536
      /\ l2 > 0 => a2 = A + l0 + l1
  <2>1. a1 = (A + 2) % 65536 /\ a2 = (a1 + l1) % 65536
    BY DEF l1
  <2> HIDE DEF a1, a2
  <2>2. a1 \in Nat /\ a1 < 65536 /\ a2 \in Nat /\ a2 < 65536
    BY <1>5, <2>1
  <2>3. CASE l1 > 0
    BY <1>5, <2>1, <2>2, <2>3
  <2>4. CASE l1 = 0 /\ l2 > 0
    BY <1>5, <2>1, <2>2, <2>4
  <2>5. CASE l1 = 0 /\ l2 = 0
    BY <1>5, <2>1, <2>2, <2>5
  <2> QED
    BY <1>5, <2>3, <2>4, <2>5
<1> HIDE DEF a1, a2
<1> DEFINE R0 == A .. A + l0 - 1
           R1 == a1 .. a1 + l1 - 1
           R2 == a2 .. a2 + l2 - 1
           R == A .. (A + n) - 1
<1>7. /\ \A y \in Int : mem_read8(m1, y) = IF y \in R0 THEN h[y - A + 1]
                                                     ELSE mem_read8(m, y)
      /\ DOMAIN m1 \subseteq DOMAIN m \cup R0
  <2>1. h \in Seq(Byte) /\ A \in Nat /\ A + Len(h) <= 65536
    BY <1>2, <1>5 DEF l0
  <2>2. Holds(m1, m, A, h)
    BY <2>1, StoreReads
  <2> HIDE DEF m1
  <2> QED
    BY <2>2 DEF Holds, l0
<1> HIDE DEF m1
<1>8. /\ \A y \in Int : mem_read8(m2, y) = IF y \in R1 THEN b1[y - a1 + 1]
                                                     ELSE mem_read8(m1, y)
      /\ DOMAIN m2 \subseteq DOMAIN m1 \cup R1
  <2>1. b1 \in Seq(Byte) /\ a1 \in Nat /\ a1 + Len(b1) <= 65536
    BY <1>2, <1>6 DEF l1
  <2>2. Holds(m2, m1, a1, b1)
    BY <2>1, StoreReads
  <2> HIDE DEF m2
  <2> QED
    BY <2>2 DEF Holds, l1
<1> HIDE DEF m2
<1>9. /\ \A y \in Int : mem_read8(m3, y) = IF y \in R2 THEN b2[y - a2 + 1]
                                                     ELSE mem_read8(m2, y)
      /\ DOMAIN m3 \subseteq DOMAIN m2 \cup R2
  <2>1. b2 \in Seq(Byte) /\ a2 \in Nat /\ a2 + Len(b2) <= 65536
    BY <1>2, <1>6 DEF l2
  <2>2. Holds(m3, m2, a2, b2)
    BY <2>1, StoreReads
  <2> HIDE DEF m3
  <2> QED
    BY <2>2 DEF Holds, l2
<1> HIDE DEF m3
<1>10. R0 \subseteq R /\ R1 \subseteq R /\ R2 \subseteq R
  <2>1. R0 \subseteq R
    BY <1>5
  <2>2. R1 \subseteq R
    <3>1. CASE l1 = 0
      BY <1>6, <3>1
    <3>2. CASE l1 > 0
      BY <1>5, <1>6, <3>2
    <3> QED
      BY <1>5, <3>1, <3>2
  <2>3. R2 \subseteq R
    <3>1. CASE l2 = 0
      BY <1>6, <3>1
    <3>2. CASE l2 > 0
      BY <1>5, <1>6, <3>2
    <3> QED
      BY <1>5, <3>1, <3>2
  <2> QED
    BY <2>1, <2>2, <2>3
<1>11. DOMAIN m3 \subseteq DOMAIN m \cup R
  <2> HIDE DEF R0, R1, R2, R
  <2> QED
    BY <1>7, <1>8, <1>9, <1>10
<1>12. ASSUME NEW y \in Int, y \notin R
       PROVE  mem_read8(m3, y) = mem_read8(m, y)
  <2> HIDE DEF R0, R1, R2, R
  <2> QED
    BY <1>7, <1>8, <1>9, <1>10, <1>12
<1>13. ASSUME NEW k \in 1 .. n PROVE mem_read8(m3, A + (k - 1)) = e[k]
  <2> DEFINE y == A + (k - 1)
  <2>1. y \in Int
    BY <1>5
  <2>2. CASE k <= l0
    <3>1. y \in R0 /\ y - A + 1 = k
      BY <1>5, <2>2
    <3>2. y \notin R1
      BY <1>5, <1>6, <2>2
    <3>3. y \notin R2
      BY <1>5, <1>6, <2>2
    <3>4. e[k] = h[k]
      BY <1>3, <2>2 DEF l0
    <3> HIDE DEF y, R0, R1, R2
    <3>5. mem_read8(m3, y) = h[k]
      BY <1>7, <1>8, <1>9, <2>1, <3>1, <3>2, <3>3
    <3> QED
      BY <3>4, <3>5 DEF y
  <2>3. CASE k > l0 /\ k <= l0 + l1
    <3> DEFINE j == k - l0
    <3>1. /\ l1 > 0 /\ j \in 1 .. l1 /\ y \in R1 /\ y - a1 + 1 = j
          /\ l0 + j = k
      BY <1>5, <1>6, <2>3
    <3>2. y \notin R2
      BY <1>5, <1>6, <2>3
    <3> HIDE DEF j
    <3>3. e[l0 + j] = b1[j]
      BY <1>3, <3>1 DEF l0, l1
    <3> HIDE DEF y, R0, R1, R2
    <3>4. mem_read8(m3, y) = b1[j]
      BY <1>8, <1>9, <2>1, <3>1, <3>2
    <3> QED
      BY <3>1, <3>3, <3>4 DEF y
  <2>4. CASE k > l0 + l1
    <3> DEFINE j == k - (l0 + l1)
    <3>1. /\ l2 > 0 /\ j \in 1 .. l2 /\ y \in R2 /\ y - a2 + 1 = j
          /\ l0 + l1 + j = k
      BY <1>5, <1>6, <2>4
    <3> HIDE DEF j
    <3>2. e[l0 + l1 + j] = b2[j]
      BY <1>3, <3>1 DEF l0, l1, l2
    <3> HIDE DEF y, R0, R1, R2
    <3>3. mem_read8(m3, y) = b2[j]
      BY <1>9, <2>1, <3>1
    <3> QED
      BY <3>1, <3>2, <3>3 DEF y
  <2> QED
    BY <1>5, <2>2, <2>3, <2>4
<1>14. Written(m3, A, e)
  BY <1>3, <1>13 DEF Written
<1>15. R = Extent(st)
  BY DEF Extent, A, n
<1> HIDE DEF R
<1> QED
  BY <1>1, <1>11, <1>12, <1>14, <1>15 DEF A, e

-----------------------------------------------------------------------------
\* The buffers of pass two: what is emitted stays as it was written.

Code == [i \in 1 .. Len(stmts) |-> Encoding(stmts[i])]
Passed == {i \in 1 .. Len(stmts) : emits(stmts[i])}

\* The first n statements are in the buffers, and nothing else is.
Emitted(n, buf, sts, code, passed) ==
  /\ \A i \in 1 .. n : /\ i \in passed
                       /\ Written(buf[sts[i].section], sts[i].address, code[i])
  /\ \A s \in Section : \A a \in DOMAIN buf[s] :
       \E i \in 1 .. n : sts[i].section = s /\ a \in Extent(sts[i])

Buffers ==
  /\ stage \in {"line", "rest", "eol"} =>
       \A s \in Section : DOMAIN buffer[s] = {}
  /\ Fits /\ stage \in {"emit", "ok"} =>
       Emitted(next - 1, buffer, stmts, Code, Passed)
  /\ stage = "ok" => next = Len(stmts) + 1

LEMMA SameCode ==
  ASSUME stmts' = stmts, symtab' = symtab
  PROVE  Code' = Code /\ Passed' = Passed
<1>1. Code' = Code
  BY DEF Code, Encoding, head_bytes, operand_bytes, word_bytes, resolve_value
<1>2. Passed' = Passed
  BY DEF Passed, emits, resolves, resolve_value, range_check
<1> QED
  BY <1>1, <1>2

LEMMA KeepsWritten ==
  ASSUME NEW m, NEW n, NEW st, st.address \in Nat, st.encoded_size \in Nat,
         \A y \in Int : y \notin Extent(st) =>
           mem_read8(n, y) = mem_read8(m, y),
         NEW a \in Nat, NEW bytes \in Seq(Byte), Written(m, a, bytes),
         Len(bytes) > 0 /\ st.encoded_size > 0 => a + Len(bytes) <= st.address
  PROVE  Written(n, a, bytes)
<1> SUFFICES ASSUME NEW k \in 1 .. Len(bytes)
             PROVE  mem_read8(n, a + (k - 1)) = bytes[k]
  BY DEF Written
<1> DEFINE y == a + (k - 1)
<1>1. y \in Int /\ y \notin Extent(st)
  <2>1. CASE st.encoded_size = 0
    BY <2>1 DEF Extent
  <2>2. CASE st.encoded_size > 0
    BY <2>2 DEF Extent
  <2> QED
    BY <2>1, <2>2
<1>2. mem_read8(m, y) = bytes[k]
  BY DEF Written
<1> HIDE DEF y
<1> QED
  BY <1>1, <1>2 DEF y

LEMMA EmptyEmitted ==
  ASSUME NEW buf, NEW sts, NEW code, NEW passed,
         \A s \in Section : DOMAIN buf[s] = {}
  PROVE  Emitted(0, buf, sts, code, passed)
  BY DEF Emitted

LEMMA EmittedNext ==
  ASSUME AsmShape, Layout, Fits, next <= Len(stmts), emits(stmts[next]),
         Emitted(next - 1, buffer, stmts, Code, Passed),
         NEW buf,
         buf = [buffer EXCEPT ![stmts[next].section] =
                                stored(@, stmts[next])]
  PROVE  Emitted(next, buf, stmts, Code, Passed)
<1> DEFINE st == stmts[next]
           s0 == st.section
           m  == buffer[s0]
           n  == stored(m, st)
<1>1. /\ next \in Nat /\ next >= 1 /\ Len(stmts) \in Nat
      /\ DOMAIN stmts = 1 .. Len(stmts)
      /\ \A i \in 1 .. Len(stmts) : IsStatement(stmts[i])
      /\ \A x \in DOMAIN symtab : symtab[x] \in Word
      /\ buffer = [s \in Section |-> buffer[s]]
      /\ extent \in Nat
  BY AppendSeq DEF AsmShape
<1>2. next \in 1 .. Len(stmts)
  BY <1>1
<1>3. /\ IsStatement(st) /\ s0 \in Section /\ st.address \in Word
      /\ st.address \in Nat /\ st.encoded_size \in Nat
  BY <1>1, <1>2 DEF IsStatement, IsBody, Word
<1>4. st.address + st.encoded_size <= 65536
  <2>1. CASE st.encoded_size = 0
    BY <1>3, <2>1 DEF Word
  <2>2. CASE st.encoded_size > 0
    <3>1. Counters /\ InSection(st, started, start_addr, extent, code_extent)
      BY <1>2, <2>2 DEF Layout, StatementsPlaced, occupies
    <3>2. extent <= 65536 /\ st.address + st.encoded_size <= extent
      BY <3>1 DEF Counters, InSection
    <3> QED
      BY <1>1, <1>3, <3>2
  <2> QED
    BY <1>3, <2>1, <2>2
<1>5. /\ Written(n, st.address, Encoding(st))
      /\ \A y \in Int : y \notin Extent(st) => mem_read8(n, y) = mem_read8(m, y)
      /\ DOMAIN n \subseteq DOMAIN m \cup Extent(st)
  BY <1>1, <1>3, <1>4, StoredReads
<1>6. /\ Code[next] = Encoding(st) /\ next \in Passed
      /\ \A i \in 1 .. Len(stmts) : Code[i] = Encoding(stmts[i])
      /\ \A i \in Passed : emits(stmts[i])
  BY <1>2 DEF Code, Passed
<1>7. buf[s0] = n /\ \A s \in Section : s # s0 => buf[s] = buffer[s]
  BY <1>1, <1>3
<1> HIDE DEF n, m
<1>8. ASSUME NEW i \in 1 .. next
      PROVE  /\ i \in Passed
             /\ Written(buf[stmts[i].section], stmts[i].address, Code[i])
  <2>1. CASE i = next
    BY <1>5, <1>6, <1>7, <2>1
  <2>2. CASE i # next
    <3>1. i \in 1 .. next - 1 /\ i \in 1 .. Len(stmts) /\ i < next
      BY <1>1, <2>2
    <3>2. /\ i \in Passed
          /\ Written(buffer[stmts[i].section], stmts[i].address, Code[i])
      BY <3>1 DEF Emitted
    <3>3. /\ IsStatement(stmts[i]) /\ stmts[i].address \in Nat
          /\ stmts[i].encoded_size \in Nat /\ stmts[i].section \in Section
      BY <1>1, <3>1 DEF IsStatement, IsBody, Word
    <3>4. Code[i] \in Seq(Byte) /\ Len(Code[i]) = stmts[i].encoded_size
      BY <1>1, <1>6, <3>1, <3>2, <3>3, EncodingType
    <3>5. stmts[i].encoded_size > 0 /\ st.encoded_size > 0 =>
            stmts[i].address + stmts[i].encoded_size <= st.address
      BY <1>1, <1>2, <3>1 DEF Layout, StatementsInOrder, occupies
    <3>6. CASE stmts[i].section # s0
      BY <1>7, <3>2, <3>3, <3>6
    <3>7. CASE stmts[i].section = s0
      <4>1. Written(m, stmts[i].address, Code[i])
        BY <3>2, <3>7 DEF m
      <4>2. Written(n, stmts[i].address, Code[i])
        <5> DEFINE a == stmts[i].address
                   bytes == Code[i]
        <5>1. /\ a \in Nat /\ bytes \in Seq(Byte) /\ Written(m, a, bytes)
              /\ Len(bytes) > 0 /\ st.encoded_size > 0 =>
                   a + Len(bytes) <= st.address
          BY <3>3, <3>4, <3>5, <4>1
        <5> HIDE DEF a, bytes, st
        <5>2. Written(n, a, bytes)
          BY <1>3, <1>5, <5>1, KeepsWritten
        <5> QED
          BY <5>2 DEF a, bytes
      <4> QED
        BY <1>7, <3>2, <3>7, <4>2
    <3> QED
      BY <3>6, <3>7
  <2> QED
    BY <2>1, <2>2
<1>9. ASSUME NEW s \in Section, NEW a \in DOMAIN buf[s]
      PROVE  \E i \in 1 .. next :
               stmts[i].section = s /\ a \in Extent(stmts[i])
  <2>1. next \in 1 .. next /\ 1 .. next - 1 \subseteq 1 .. next
    BY <1>1
  <2>2. CASE a \in DOMAIN buffer[s]
    <3>1. \E i \in 1 .. next - 1 :
            stmts[i].section = s /\ a \in Extent(stmts[i])
      BY <2>2, Zenon DEF Emitted
    <3> QED
      BY <2>1, <3>1
  <2>3. CASE a \notin DOMAIN buffer[s]
    <3>1. s = s0 /\ a \in DOMAIN n
      BY <1>7, <1>9, <2>3
    <3>2. a \in Extent(st)
      BY <1>5, <2>3, <3>1 DEF m
    <3> QED
      BY <2>1, <3>1, <3>2
  <2> QED
    BY <2>2, <2>3
<1> QED
  BY <1>8, <1>9 DEF Emitted

LEMMA PassOneKeeps ==
  ASSUME AsmShape, PassOne
  PROVE  /\ stage \in {"line", "rest", "eol"} /\ stage' # "ok"
         /\ UNCHANGED <<next, buffer>>
<1>1. CASE fail /\ stage \in {"line", "rest", "eol"}
  BY <1>1 DEF fail
<1>2. CASE \/ parse_instruction_statement \/ parse_string
           \/ parse_word \/ parse_byte
  <2>1. PICK st, p : PlacesStatement(st, p)
    BY <1>2, PlacingSteps
  <2>2. UNCHANGED <<next, buffer>> /\ stage' = "eol"
    BY <2>1 DEF PlacesStatement, place
  <2>3. at_statement
    BY <1>2 DEF parse_instruction_statement, parse_string, parse_word,
                parse_byte
  <2> QED
    BY <2>2, <2>3 DEF at_statement
<1>3. CASE define_label
  BY <1>3 DEF define_label
<1>4. CASE skip_newline \/ end_of_source \/ (end_of_line /\ ~fail)
  BY <1>4 DEF skip_newline, end_of_source, end_of_line
<1>5. CASE parse_org \/ parse_data
  BY <1>5 DEF parse_org, parse_data, at_statement
<1>6. duplicate_label \/ parse_fails \/ (end_of_line /\ fail) =>
        fail /\ stage \in {"line", "rest", "eol"}
  BY DEF duplicate_label, parse_fails, end_of_line, at_statement
<1> QED
  BY <1>1, <1>2, <1>3, <1>4, <1>5, <1>6 DEF PassOne

LEMMA BuffersStep ==
  ASSUME AsmShape, Layout, Buffers, AsmNext
  PROVE  Buffers'
<1>1. CASE PassOne
  <2>1. /\ stage \in {"line", "rest", "eol"} /\ stage' # "ok"
        /\ next' = next /\ buffer' = buffer /\ next = 1
    BY <1>1, PassOneKeeps DEF AsmShape
  <2>2. \A s \in Section : DOMAIN buffer'[s] = {}
    BY <2>1 DEF Buffers
  <2>3. Emitted(0, buffer', stmts', Code', Passed')
    BY <2>2, EmptyEmitted
  <2>4. next' - 1 = 0
    BY <2>1
  <2>5. Emitted(next - 1, buffer, stmts, Code, Passed)'
    BY <2>3, <2>4 DEF Emitted, Written, mem_read8, Extent
  <2> QED
    BY <2>1, <2>2, <2>5 DEF Buffers
<1>2. CASE emit_statement /\ ~fail
  <2>1. /\ stage = "emit" /\ next <= Len(stmts) /\ emits(stmts[next])
        /\ buffer' = [buffer EXCEPT ![stmts[next].section] =
                                      stored(@, stmts[next])]
        /\ next' = next + 1 /\ stage' = stage /\ stmts' = stmts
        /\ symtab' = symtab /\ extent' = extent
    BY <1>2 DEF emit_statement, parser
  <2>2. ASSUME Fits PROVE Emitted(next - 1, buffer, stmts, Code, Passed)'
    <3>1. Emitted(next - 1, buffer, stmts, Code, Passed)
      BY <2>1, <2>2 DEF Buffers
    <3>2. Emitted(next, buffer', stmts, Code, Passed)
      BY <2>1, <2>2, <3>1, EmittedNext
    <3>3. Code' = Code /\ Passed' = Passed
      BY <2>1, SameCode
    <3>4. next' - 1 = next
      BY <2>1 DEF AsmShape
    <3> QED
      BY <2>1, <3>2, <3>3, <3>4 DEF Emitted, Written, mem_read8, Extent
  <2>3. Fits' <=> Fits
    BY <2>1 DEF Fits
  <2> QED
    BY <2>1, <2>2, <2>3 DEF Buffers
<1>3. CASE make_result
  <2>1. /\ stage = "emit" /\ next > Len(stmts) /\ stage' = "ok"
        /\ UNCHANGED <<stmts, symtab, next, buffer, extent>>
    BY <1>3 DEF make_result
  <2>2. next = Len(stmts) + 1
    BY <2>1, AppendSeq DEF AsmShape
  <2>3. ASSUME Fits PROVE Emitted(next - 1, buffer, stmts, Code, Passed)'
    <3>1. Emitted(next - 1, buffer, stmts, Code, Passed)
      BY <2>1, <2>3 DEF Buffers
    <3>2. Code' = Code /\ Passed' = Passed
      BY <2>1, SameCode
    <3> QED
      BY <2>1, <3>1, <3>2 DEF Emitted, Written, mem_read8, Extent
  <2>4. Fits' <=> Fits
    BY <2>1 DEF Fits
  <2> QED
    BY <2>1, <2>2, <2>3, <2>4 DEF Buffers
<1>4. CASE fail
  <2>1. stage' = "error"
    BY <1>4 DEF fail
  <2> QED
    BY <2>1 DEF Buffers
<1> QED
  BY <1>1, <1>2, <1>3, <1>4 DEF AsmNext

LEMMA StartProgram ==
  ASSUME stage = "line", stmts = <<>>, buffer = [s \in Section |-> mem_init]
  PROVE  Labels /\ Buffers
<1>1. Len(stmts) = 0
  BY EmptySeq
<1>2. Labels
  BY <1>1 DEF Labels, LabelsEntered, LastLabel, LabelsAdjacent
<1>3. Buffers
  BY DEF Buffers, mem_init
<1> QED
  BY <1>2, <1>3

LEMMA RestartProgram ==
  ASSUME stage' = "line", stmts' = <<>>,
         buffer' = [s \in Section |-> mem_init]
  PROVE  Labels' /\ Buffers'
<1>1. Len(stmts') = 0
  BY EmptySeq
<1>2. Labels'
  BY <1>1 DEF Labels, LabelsEntered, LastLabel, LabelsAdjacent
<1>3. Buffers'
  BY DEF Buffers, mem_init
<1> QED
  BY <1>2, <1>3

LEMMA SameProgram ==
  ASSUME Labels, Buffers, UNCHANGED asmVars
  PROVE  Labels' /\ Buffers'
<1>1. UNCHANGED <<stage, stmts, symtab, section, cursor, next, buffer, extent>>
  BY DEF asmVars, parser
<1>2. Labels'
  BY <1>1, SameLabels
<1>3. Code' = Code /\ Passed' = Passed
  BY <1>1, SameCode
<1>4. Buffers'
  BY <1>1, <1>3 DEF Buffers, Fits, Emitted, Written, mem_read8, Extent
<1> QED
  BY <1>2, <1>4

ProgramInv == RTInv /\ Labels /\ Buffers

LEMMA ProgramInvInit == RTInit => ProgramInv
<1> SUFFICES ASSUME RTInit PROVE ProgramInv
  OBVIOUS
<1>1. \E src : AsmStart(src)
  BY DEF RTInit, AssembleFirst, AsmInit, DisassembleFirst
<1>2. Labels /\ Buffers
  BY <1>1, StartProgram DEF AsmStart
<1> QED
  BY <1>2, RTInvInit DEF ProgramInv

LEMMA ProgramInvStep == ProgramInv /\ [RTNext]_rtVars => ProgramInv'
<1> SUFFICES ASSUME ProgramInv, [RTNext]_rtVars PROVE ProgramInv'
  OBVIOUS
<1>1. RTInv /\ Labels /\ Buffers /\ AsmShape /\ Layout /\ RTInv'
  BY RTInvStep DEF ProgramInv, RTInv
<1>2. CASE Assembling
  <2>1. AsmNext
    BY <1>2 DEF Assembling
  <2> QED
    BY <1>1, <2>1, LabelsStep, BuffersStep DEF ProgramInv
<1>3. CASE HandBack
  <2>1. AsmRestart(text)
    BY <1>3 DEF HandBack
  <2>2. Labels' /\ Buffers'
    BY <2>1, RestartProgram DEF AsmRestart
  <2> QED
    BY <1>1, <2>2 DEF ProgramInv
<1>4. CASE UNCHANGED asmVars
  BY <1>1, <1>4, SameProgram DEF ProgramInv
<1> QED
  BY <1>2, <1>3, <1>4 DEF RTNext, Disassembling, HandOver, rtVars

-----------------------------------------------------------------------------
\* The loaded image shows what is in the buffers.

\* Memory m is made of the regions that the two buffers hold.
Shows(m) ==
  /\ \A y \in start_addr["code"] .. code_extent - 1 :
       mem_read8(m, y) = mem_read8(buffer["code"], y)
  /\ started["data"] =>
       \A y \in start_addr["data"] .. extent - 1 :
         mem_read8(m, y) = mem_read8(buffer["data"], y)
  /\ \A y \in DOMAIN m :
       \/ y \in start_addr["code"] .. code_extent - 1
       \/ started["data"] /\ y \in start_addr["data"] .. extent - 1

LEMMA SliceReads ==
  ASSUME AsmShape, NEW s \in Section, NEW b,
         start_addr[s] + section_size(s) <= 65536
  PROVE  \A k \in 1 .. section_size(s) :
           slice(s, b)[k] = mem_read8(buffer[s], start_addr[s] + k - 1)
<1>1. section_size(s) \in Nat /\ start_addr[s] \in Nat
  BY SectionSizeType DEF AsmShape, Word
<1>2. ASSUME NEW k \in 1 .. section_size(s)
      PROVE  slice(s, b)[k] = mem_read8(buffer[s], start_addr[s] + k - 1)
  <2>1. start_addr[s] + k - 1 < 65536
    BY <1>1
  <2> QED
    BY <2>1 DEF slice
<1> QED
  BY <1>2

LEMMA LoadedShows ==
  ASSUME AsmShape, Layout, ImageMade, stage = "ok", Fits, Describable
  PROVE  Shows(loaded_memory(image)) /\ IsMemory(loaded_memory(image))
<1> DEFINE ca == start_addr["code"]
           cs == section_size("code")
           da == start_addr["data"]
           ds == section_size("data")
           m  == loaded_memory(image)
<1>1. PICK b \in PastBuffer : image = make_image(b)
  BY DEF ImageMade
<1>2. b \in Byte
  BY PastBufferAssumption
<1>3. header_ok(image) /\ IsImage(image)
  BY LoadsIfFits DEF ImageLoads, AsmShape
<1>4. /\ image.code_size = cs /\ image.code_addr = ca
      /\ image.data_size = ds /\ image.data_addr = da
  BY ImageHeader
<1>5. /\ ca \in Nat /\ cs \in Nat /\ ca + cs = code_extent
      /\ code_extent \in Nat /\ code_extent <= extent /\ extent <= 65536
  BY CodeEnds DEF Word
<1>6. /\ da \in Nat /\ ds \in Nat
      /\ started["data"] => da + ds = extent
      /\ ~started["data"] => ds = 0 /\ da = 0
  BY DataEnds DEF Word
<1>7. extent \in Nat /\ "code" \in Section /\ "data" \in Section
  BY DEF AsmShape, Section
<1>8. ca + cs <= 65536 /\ da + ds <= 65536
  <2>1. CASE started["data"]
    BY <1>5, <1>6, <1>7, <2>1
  <2>2. CASE ~started["data"]
    BY <1>5, <1>6, <1>7, <2>2
  <2> QED
    BY <2>1, <2>2
<1> DEFINE c == slice("code", b)
           d == slice("data", b)
<1>9. /\ c \in Seq(Byte) /\ Len(c) = cs /\ d \in Seq(Byte) /\ Len(d) = ds
  BY <1>2, <1>7, SliceType
<1>10. /\ \A k \in 1 .. cs : c[k] = mem_read8(buffer["code"], ca + k - 1)
       /\ \A k \in 1 .. ds : d[k] = mem_read8(buffer["data"], da + k - 1)
  BY <1>7, <1>8, SliceReads
<1>11. image.body = c \o d
  BY <1>1 DEF make_image
<1> HIDE DEF c, d
<1>12. /\ \A k \in 1 .. cs : image.body[k] = c[k]
       /\ \A k \in 1 .. ds : image.body[cs + k] = d[k]
  BY <1>9, <1>11, TwoParts
<1>13. /\ \A k \in 1 .. cs : mem_read8(m, ca + k - 1) = image.body[k]
       /\ \A k \in 1 .. ds : mem_read8(m, da + k - 1) = image.body[cs + k]
       /\ DOMAIN m \subseteq (ca .. code_end(image) - 1)
                               \cup (da .. data_end(image) - 1)
  BY <1>3, <1>4, LoadedContents
<1>14. code_end(image) = ca + cs /\ data_end(image) = da + ds
  BY <1>4 DEF code_end, data_end
<1> HIDE DEF ca, cs, da, ds, m
<1>15. ASSUME NEW y \in ca .. code_extent - 1
       PROVE  mem_read8(m, y) = mem_read8(buffer["code"], y)
  <2> DEFINE k == y - ca + 1
  <2>1. k \in 1 .. cs /\ ca + k - 1 = y
    BY <1>5
  <2> HIDE DEF k
  <2> QED
    BY <1>10, <1>12, <1>13, <2>1
<1>16. ASSUME started["data"], NEW y \in da .. extent - 1
       PROVE  mem_read8(m, y) = mem_read8(buffer["data"], y)
  <2> DEFINE k == y - da + 1
  <2>1. k \in 1 .. ds /\ da + k - 1 = y
    BY <1>6, <1>7, <1>16
  <2> HIDE DEF k
  <2> QED
    BY <1>10, <1>12, <1>13, <2>1
<1>17. ASSUME NEW y \in DOMAIN m
       PROVE  \/ y \in ca .. code_extent - 1
              \/ started["data"] /\ y \in da .. extent - 1
  <2>1. y \in ca .. code_extent - 1 \/ y \in da .. (da + ds) - 1
    BY <1>5, <1>13, <1>14
  <2>2. CASE started["data"]
    BY <1>6, <2>1, <2>2
  <2>3. CASE ~started["data"]
    BY <1>6, <2>1, <2>3
  <2> QED
    BY <2>2, <2>3
<1>18. IsMemory(m)
  BY <1>3, LoadedMemoryType DEF m
<1> QED
  BY <1>15, <1>16, <1>17, <1>18 DEF Shows, ca, da, m

LEMMA InRegion ==
  ASSUME NEW from \in Nat, NEW end \in Nat, NEW x \in Nat, NEW n \in Nat,
         from <= x, x + n <= end, NEW k \in Nat, k >= 1, k <= n
  PROVE  x + (k - 1) \in from .. end - 1
  OBVIOUS

\* So every statement is in memory, and nothing else is.
LEMMA StatementsLoaded ==
  ASSUME AsmShape, Layout, ImageMade, Buffers,
         stage = "ok", Fits, Describable
  PROVE  LET m == loaded_memory(image) IN
         /\ \A i \in 1 .. Len(stmts) :
              /\ emits(stmts[i])
              /\ Written(m, stmts[i].address, Encoding(stmts[i]))
         /\ \A a \in DOMAIN m : \E i \in 1 .. Len(stmts) : a \in Extent(stmts[i])
<1> DEFINE m == loaded_memory(image)
<1>1. Shows(m) /\ IsMemory(m)
  BY LoadedShows
<1> HIDE DEF m
<1>2. /\ Len(stmts) \in Nat
      /\ \A i \in 1 .. Len(stmts) : IsStatement(stmts[i])
      /\ \A x \in DOMAIN symtab : symtab[x] \in Word
      /\ extent \in Nat /\ start_addr \in [Section -> Word]
  BY AppendSeq DEF AsmShape
<1>3. next - 1 = Len(stmts)
  BY <1>2 DEF Buffers
<1>4. Emitted(Len(stmts), buffer, stmts, Code, Passed)
  BY <1>3 DEF Buffers
<1>5. code_extent \in Nat /\ code_extent <= extent
  BY CodeEnds
<1>6. /\ start_addr["code"] \in Nat /\ start_addr["data"] \in Nat
  BY <1>2 DEF Section, Word
<1>7. ASSUME NEW i \in 1 .. Len(stmts)
      PROVE  /\ emits(stmts[i])
             /\ Written(m, stmts[i].address, Encoding(stmts[i]))
  <2> DEFINE st == stmts[i]
             e  == Encoding(st)
  <2>1. /\ i \in Passed
        /\ Written(buffer[st.section], st.address, Code[i])
    BY <1>4 DEF Emitted
  <2>2. emits(st) /\ Code[i] = e
    BY <2>1 DEF Passed, Code
  <2>3. /\ IsStatement(st) /\ st.address \in Nat /\ st.encoded_size \in Nat
        /\ st.section \in {"code", "data"}
    BY <1>2 DEF IsStatement, IsBody, Word, Section
  <2>4. e \in Seq(Byte) /\ Len(e) = st.encoded_size
    BY <1>2, <2>2, <2>3, EncodingType
  <2>5. Written(buffer[st.section], st.address, e)
    BY <2>1, <2>2
  <2>6. st.encoded_size > 0 =>
          InSection(st, started, start_addr, extent, code_extent)
    BY DEF Layout, StatementsPlaced, occupies
  <2> HIDE DEF st, e
  <2>7. ASSUME NEW k \in 1 .. Len(e)
        PROVE  mem_read8(m, st.address + (k - 1)) = e[k]
    <3> DEFINE y == st.address + (k - 1)
    <3>0. k \in Nat /\ k >= 1 /\ k <= st.encoded_size
      BY <2>4
    <3>1. mem_read8(buffer[st.section], y) = e[k]
      BY <2>5 DEF Written
    <3>2. /\ started[st.section] /\ start_addr[st.section] <= st.address
          /\ st.address + st.encoded_size <= extent
          /\ st.section = "code" => st.address + st.encoded_size <= code_extent
      BY <2>3, <2>4, <2>6 DEF InSection
    <3>3. CASE st.section = "code"
      <4>1. y \in start_addr["code"] .. code_extent - 1
        <5>1. /\ start_addr["code"] <= st.address
              /\ st.address + st.encoded_size <= code_extent
          BY <3>2, <3>3
        <5> QED
          BY <1>5, <1>6, <2>3, <3>0, <5>1, InRegion
      <4> HIDE DEF y
      <4>2. mem_read8(m, y) = mem_read8(buffer["code"], y)
        BY <1>1, <4>1 DEF Shows
      <4> QED
        BY <3>1, <3>3, <4>2 DEF y
    <3>4. CASE st.section = "data"
      <4>1. y \in start_addr["data"] .. extent - 1 /\ started["data"]
        <5>1. /\ started["data"] /\ start_addr["data"] <= st.address
              /\ st.address + st.encoded_size <= extent
          BY <3>2, <3>4
        <5> QED
          BY <1>2, <1>6, <2>3, <3>0, <5>1, InRegion
      <4> HIDE DEF y
      <4>2. mem_read8(m, y) = mem_read8(buffer["data"], y)
        BY <1>1, <4>1 DEF Shows
      <4> QED
        BY <3>1, <3>4, <4>2 DEF y
    <3> QED
      BY <2>3, <3>3, <3>4
  <2>8. Written(m, st.address, e)
    BY <2>7 DEF Written
  <2> QED
    BY <2>2, <2>8 DEF st, e
<1>8. ASSUME NEW a \in DOMAIN m
      PROVE  \E i \in 1 .. Len(stmts) : a \in Extent(stmts[i])
  <2>1. mem_read8(m, a) # 0
    BY <1>1 DEF IsMemory, mem_read8
  <2>2. \E s \in Section : mem_read8(buffer[s], a) # 0
    BY <1>1, <2>1 DEF Shows, Section
  <2>3. PICK s \in Section : a \in DOMAIN buffer[s]
    BY <2>2 DEF mem_read8
  <2> QED
    BY <1>4, <2>3, Zenon DEF Emitted
<1> QED
  BY <1>7, <1>8 DEF m

-----------------------------------------------------------------------------
\* A statement in memory is what its line says.

\* The two bytes of a word (emit_u16) hold its value modulo 2^16.
LEMMA WordValue ==
  ASSUME NEW v \in Int
  PROVE  (v % 256) + 256 * ((v \div 256) % 256) = v % 65536
<1> DEFINE lo == v % 256
           q  == v \div 256
           hi == q % 256
           t  == q \div 256
<1>1. /\ lo \in Nat /\ lo < 256 /\ q \in Int /\ v = 256 * q + lo
  OBVIOUS
<1> HIDE DEF lo, q
<1>2. /\ hi \in Nat /\ hi < 256 /\ t \in Int /\ q = 256 * t + hi
  BY <1>1
<1> HIDE DEF hi, t
<1>3. /\ v = 65536 * t + (lo + 256 * hi)
      /\ lo + 256 * hi \in Nat /\ lo + 256 * hi < 65536
  BY <1>1, <1>2
<1>4. v % 65536 = lo + 256 * hi
  BY <1>1, <1>2, <1>3
<1> QED
  BY <1>4 DEF lo, q, hi

\* The value that stands for an operand: a label's is where its line was
\* reached.
LEMMA ResolvedDenotes ==
  ASSUME AsmShape, Labels, NEW op, resolves(op)
  PROVE  Denotes(op, resolve_value(op) % 65536)
<1>1. DOMAIN stmts = 1 .. Len(stmts)
  BY AppendSeq DEF AsmShape
<1>2. CASE op.kind = "LABEL"
  <2>1. resolve_value(op) = symtab[op.label] /\ symtab[op.label] \in Word
    BY <1>2 DEF resolves, resolve_value, AsmShape
  <2>2. resolve_value(op) % 65536 = symtab[op.label]
    BY <2>1 DEF Word
  <2> QED
    BY <1>1, <1>2, <2>2 DEF Denotes, Labels, LabelsEntered
<1>3. CASE op.kind # "LABEL"
  BY <1>3 DEF Denotes, resolve_value
<1> QED
  BY <1>2, <1>3

\* An operand decodes to the mode it was emitted with and to its value.
LEMMA OperandDecodes ==
  ASSUME NEW m, NEW a \in Word, NEW opcode, NEW op, NEW mode \in 0 .. 5,
         IsOperandOf(opcode, op, mode), resolve_value(op) \in Int,
         range_check(mode, resolve_value(op)),
         a + mode_byte_size(mode) <= 65536,
         Written(m, a, operand_bytes(mode, op))
  PROVE  LET d == decode_operand(m, a, mode) IN
         /\ d.result = "VM_OK" /\ d.operand.mode = mode
         /\ d.operand.value = resolve_value(op) % 65536
<1> DEFINE v == resolve_value(op)
           d == decode_operand(m, a, mode)
<1> USE DEF MODE_NONE, MODE_REG, MODE_IMM16, MODE_MEM_DIRECT,
            MODE_REG_INDIRECT, MODE_IMM8
<1>1. CASE mode = MODE_NONE
  <2>1. v = 0
    BY <1>1 DEF IsOperandOf, resolve_value
  <2>2. d.result = "VM_OK" /\ d.operand.mode = mode /\ d.operand.value = 0
    BY <1>1 DEF decode_operand, NoOperand
  <2> QED
    BY <2>1, <2>2
<1>2. CASE mode \in {MODE_REG, MODE_REG_INDIRECT, MODE_IMM8}
  <2>1. v \in Nat /\ v < 256 /\ (mode # MODE_IMM8 => v <= 7)
    <3>1. CASE mode = MODE_IMM8
      BY <3>1 DEF range_check
    <3>2. CASE mode # MODE_IMM8
      BY <1>2, <3>2 DEF IsOperandOf, resolve_value
    <3> QED
      BY <3>1, <3>2
  <2>2. mode_byte_size(mode) = 1
    BY <1>2 DEF mode_byte_size
  <2>3. operand_bytes(mode, op) = <<v % 256>>
    BY <2>2 DEF operand_bytes
  <2> HIDE DEF v
  <2>4. v % 256 = v /\ v % 65536 = v
    BY <2>1
  <2>5. operand_bytes(mode, op) = <<v>>
    BY <2>3, <2>4
  <2>6. mem_read8(m, a + (1 - 1)) = v
    BY <2>5 DEF Written
  <2>7. mem_read8(m, a) = v
    BY <2>6 DEF Word
  <2>8. d.result = "VM_OK" /\ d.operand.mode = mode /\ d.operand.value = v
    BY <1>2, <2>1, <2>7 DEF decode_operand
  <2> QED
    BY <2>4, <2>8 DEF v
<1>3. CASE mode \in {MODE_IMM16, MODE_MEM_DIRECT}
  <2>1. mode_byte_size(mode) = 2
    BY <1>3 DEF mode_byte_size
  <2>2. operand_bytes(mode, op) = word_bytes(v) /\ v \in Int
    BY <2>1 DEF operand_bytes
  <2> HIDE DEF v
  <2>3. /\ Len(word_bytes(v)) = 2 /\ word_bytes(v)[1] = v % 256
        /\ word_bytes(v)[2] = (v \div 256) % 256
    BY WordBytes
  <2>4. /\ mem_read8(m, a + (1 - 1)) = v % 256
        /\ mem_read8(m, a + (2 - 1)) = (v \div 256) % 256
    BY <2>2, <2>3 DEF Written
  <2>5. a + (1 - 1) = a /\ a + (2 - 1) = (a + 1) % 65536
    BY <2>1 DEF Word
  <2>6. mem_read16(m, a) = v % 65536
    BY <2>2, <2>4, <2>5, WordValue DEF mem_read16
  <2>7. d = [result |-> "VM_OK",
             operand |-> [mode |-> mode, value |-> mem_read16(m, a)],
             next |-> (a + 2) % 65536]
    BY <1>3 DEF decode_operand
  <2> QED
    BY <2>6, <2>7 DEF v
<1> QED
  BY <1>1, <1>2, <1>3

\* The parts of a statement lie one behind the other.
LEMMA PartsWritten ==
  ASSUME NEW st, IsStatement(st), emits(st),
         \A n \in DOMAIN symtab : symtab[n] \in Word,
         NEW m, Written(m, st.address, Encoding(st))
  PROVE  LET h  == head_bytes(st)
             b1 == operand_bytes(st.op1_mode, st.op1)
             b2 == operand_bytes(st.op2_mode, st.op2)
         IN  /\ Written(m, st.address, h)
             /\ Written(m, st.address + Len(h), b1)
             /\ Written(m, st.address + Len(h) + Len(b1), b2)
<1> DEFINE h  == head_bytes(st)
           b1 == operand_bytes(st.op1_mode, st.op1)
           b2 == operand_bytes(st.op2_mode, st.op2)
           e  == Encoding(st)
           A  == st.address
<1>1. /\ h \in Seq(Byte) /\ b1 \in Seq(Byte) /\ b2 \in Seq(Byte)
      /\ A \in Word
  BY StatementParts
<1>2. /\ Len(e) = Len(h) + Len(b1) + Len(b2)
      /\ \A k \in 1 .. Len(h) : e[k] = h[k]
      /\ \A k \in 1 .. Len(b1) : e[Len(h) + k] = b1[k]
      /\ \A k \in 1 .. Len(b2) : e[Len(h) + Len(b1) + k] = b2[k]
  BY <1>1, ThreeParts DEF Encoding
<1>3. \A k \in 1 .. Len(e) : mem_read8(m, A + (k - 1)) = e[k]
  BY DEF Written
<1> HIDE DEF h, b1, b2, e, A
<1>4. Len(h) \in Nat /\ Len(b1) \in Nat /\ Len(b2) \in Nat /\ A \in Nat
  BY <1>1 DEF Word
<1>5. ASSUME NEW k \in 1 .. Len(h) PROVE mem_read8(m, A + (k - 1)) = h[k]
  <2>1. k \in 1 .. Len(e)
    BY <1>2, <1>4
  <2> QED
    BY <1>2, <1>3, <2>1
<1>6. ASSUME NEW k \in 1 .. Len(b1)
      PROVE  mem_read8(m, A + Len(h) + (k - 1)) = b1[k]
  <2> DEFINE j == Len(h) + k
  <2>1. j \in 1 .. Len(e) /\ A + (j - 1) = A + Len(h) + (k - 1)
    BY <1>2, <1>4
  <2>2. e[j] = b1[k]
    BY <1>2
  <2> HIDE DEF j
  <2> QED
    BY <1>3, <2>1, <2>2
<1>7. ASSUME NEW k \in 1 .. Len(b2)
      PROVE  mem_read8(m, A + Len(h) + Len(b1) + (k - 1)) = b2[k]
  <2> DEFINE j == Len(h) + Len(b1) + k
  <2>1. j \in 1 .. Len(e) /\ A + (j - 1) = A + Len(h) + Len(b1) + (k - 1)
    BY <1>2, <1>4
  <2>2. e[j] = b2[k]
    BY <1>2
  <2> HIDE DEF j
  <2> QED
    BY <1>3, <2>1, <2>2
<1>8. /\ Written(m, A, h) /\ Written(m, A + Len(h), b1)
      /\ Written(m, A + Len(h) + Len(b1), b2)
  BY <1>5, <1>6, <1>7 DEF Written
<1> QED
  BY <1>8 DEF h, b1, b2, A

LEMMA InstructionHeld ==
  ASSUME AsmShape, Labels, NEW st, IsStatement(st), emits(st),
         st.kind = "STMT_INSTRUCTION",
         st.address + st.encoded_size <= 65536,
         NEW m, Written(m, st.address, Encoding(st))
  PROVE  Held(m, st)
<1> DEFINE h  == head_bytes(st)
           b1 == operand_bytes(st.op1_mode, st.op1)
           b2 == operand_bytes(st.op2_mode, st.op2)
           A  == st.address
           m1 == st.op1_mode
           m2 == st.op2_mode
           v1 == resolve_value(st.op1)
           v2 == resolve_value(st.op2)
           s1 == mode_byte_size(m1)
           s2 == mode_byte_size(m2)
           op == st.opcode
<1>1. \A n \in DOMAIN symtab : symtab[n] \in Word
  BY DEF AsmShape
<1>2. /\ IsBody(st) /\ A \in Word /\ m1 \in 0 .. 5 /\ m2 \in 0 .. 5
      /\ op \in Opcode /\ m1 \in op1_modes(op) /\ m2 \in op2_modes(op)
      /\ IsOperandOf(op, st.op1, m1) /\ IsOperandOf(op, st.op2, m2)
      /\ st.encoded_size = 2 + s1 + s2
      /\ st.op1.value \in Int /\ st.op2.value \in Int
  BY DEF IsStatement, IsBody
<1>3. /\ resolves(st.op1) /\ range_check(m1, v1)
      /\ resolves(st.op2) /\ range_check(m2, v2)
  BY DEF emits
<1>4. v1 \in Int /\ v2 \in Int
  BY <1>1, <1>2, <1>3, ResolvedType
<1>5. h = <<op, 16 * m1 + m2>>
  BY DEF head_bytes
<1>6. Len(b1) = s1 /\ Len(b2) = s2
  BY <1>1, StatementParts
<1>7. /\ Written(m, A, h) /\ Written(m, A + Len(h), b1)
      /\ Written(m, A + Len(h) + Len(b1), b2)
  BY <1>1, PartsWritten
<1>8. s1 \in {0, 1, 2} /\ s2 \in {0, 1, 2}
  BY ModeSize
<1>9. Meant(op, st.op1, m1) /\ Meant(op, st.op2, m2)
  BY <1>2 DEF IsOperandOf
<1>10. Denotes(st.op1, v1 % 65536) /\ Denotes(st.op2, v2 % 65536)
  BY <1>3, ResolvedDenotes
<1>11. A + 2 + s1 + s2 <= 65536 /\ A \in Nat
  BY <1>2, <1>8 DEF Word
<1> HIDE DEF h, b1, b2, A, m1, m2, s1, s2, op, v1, v2
<1>12. mem_read8(m, A) = op /\ mem_read8(m, (A + 1) % 65536) = 16 * m1 + m2
  <2>1. mem_read8(m, A + (1 - 1)) = op
    BY <1>5, <1>7 DEF Written
  <2>2. mem_read8(m, A + (2 - 1)) = 16 * m1 + m2
    BY <1>5, <1>7 DEF Written
  <2>3. A + (1 - 1) = A /\ A + (2 - 1) = (A + 1) % 65536
    BY <1>8, <1>11
  <2> QED
    BY <2>1, <2>2, <2>3
<1>13. Mode1(m, A) = m1 /\ Mode2(m, A) = m2
  <2>1. (16 * m1 + m2) \div 16 = m1 /\ (16 * m1 + m2) % 16 = m2
    BY <1>2
  <2> QED
    BY <1>12, <2>1 DEF Mode1, Mode2
<1> DEFINE a1 == (A + 2) % 65536
           a2 == (a1 + s1) % 65536
           d1 == decode_operand(m, a1, m1)
           d2 == decode_operand(m, a2, m2)
<1>14. /\ a1 \in Word /\ a1 + s1 <= 65536
       /\ s1 > 0 => a1 = A + 2
       /\ a2 \in Word /\ a2 + s2 <= 65536
       /\ s2 > 0 => a2 = A + 2 + s1
       /\ (a2 + s2) % 65536 = (A + (2 + s1 + s2)) % 65536
  <2>1. a1 = (A + 2) % 65536 /\ a2 = (a1 + s1) % 65536
    OBVIOUS
  <2> HIDE DEF a1, a2
  <2>2. CASE A + 2 < 65536 /\ A + 2 + s1 < 65536
    BY <1>8, <1>11, <2>1, <2>2 DEF Word
  <2>3. CASE A + 2 < 65536 /\ A + 2 + s1 = 65536
    BY <1>8, <1>11, <2>1, <2>3 DEF Word
  <2>4. CASE A + 2 = 65536
    BY <1>8, <1>11, <2>1, <2>4 DEF Word
  <2> QED
    BY <1>8, <1>11, <2>2, <2>3, <2>4
<1>15. Written(m, a1, b1) /\ Written(m, a2, b2)
  <2>1. Len(h) = 2
    BY <1>5
  <2>2. Written(m, a1, b1)
    <3>1. CASE s1 = 0
      BY <1>6, <3>1 DEF Written
    <3>2. CASE s1 > 0
      <4>1. a1 = A + Len(h)
        BY <1>14, <2>1, <3>2
      <4> QED
        BY <1>7, <4>1
    <3> QED
      BY <1>8, <3>1, <3>2
  <2>3. Written(m, a2, b2)
    <3>1. CASE s2 = 0
      BY <1>6, <3>1 DEF Written
    <3>2. CASE s2 > 0
      <4>1. a2 = A + Len(h) + Len(b1)
        BY <1>6, <1>14, <2>1, <3>2
      <4> QED
        BY <1>7, <4>1
    <3> QED
      BY <1>8, <3>1, <3>2
  <2> QED
    BY <2>2, <2>3
<1> HIDE DEF a1, a2
<1>16. /\ d1.result = "VM_OK" /\ d1.operand.mode = m1
       /\ d1.operand.value = v1 % 65536
  <2>1. /\ IsOperandOf(op, st.op1, m1) /\ resolve_value(st.op1) \in Int
        /\ range_check(m1, resolve_value(st.op1))
        /\ a1 + mode_byte_size(m1) <= 65536
        /\ Written(m, a1, operand_bytes(m1, st.op1))
    BY <1>2, <1>3, <1>4, <1>14, <1>15 DEF v1, s1, m1, b1
  <2> QED
    BY <1>2, <1>14, <2>1, OperandDecodes DEF v1
<1>17. /\ d2.result = "VM_OK" /\ d2.operand.mode = m2
       /\ d2.operand.value = v2 % 65536
  <2>1. /\ IsOperandOf(op, st.op2, m2) /\ resolve_value(st.op2) \in Int
        /\ range_check(m2, resolve_value(st.op2))
        /\ a2 + mode_byte_size(m2) <= 65536
        /\ Written(m, a2, operand_bytes(m2, st.op2))
    BY <1>2, <1>3, <1>4, <1>14, <1>15 DEF v2, s2, m2, b2
  <2> QED
    BY <1>2, <1>14, <2>1, OperandDecodes DEF v2
<1>18. First(m, A) = d1
  BY <1>13 DEF First, a1
<1>19. d1.next = a2
  BY <1>2, <1>14, OperandNext DEF a2, s1
<1>20. Second(m, A) = d2
  BY <1>13, <1>18, <1>19 DEF Second
<1>21. d2.next = (A + st.encoded_size) % 65536
  <2>1. d2.next = (a2 + s2) % 65536
    BY <1>2, <1>14, OperandNext DEF s2
  <2> QED
    BY <1>2, <1>14, <2>1
<1> HIDE DEF d1, d2
<1>22. Decodable(m, A)
  BY <1>2, <1>12, <1>13, <1>16, <1>17, <1>18, <1>20 DEF Decodable
<1>23. instruction_decode(m, A) = Decoded(m, A)
  BY <1>22, DecodeParts
<1>24. Decoded(m, A) = [result |-> "VM_OK", opcode |-> op,
                        op1 |-> d1.operand, op2 |-> d2.operand,
                        next |-> d2.next]
  BY <1>12, <1>18, <1>20 DEF Decoded
<1>25. LET d == instruction_decode(m, A) IN
       /\ d.result = "VM_OK" /\ d.opcode = op
       /\ d.op1.mode = m1 /\ d.op1.value = v1 % 65536
       /\ d.op2.mode = m2 /\ d.op2.value = v2 % 65536
       /\ d.next = (A + st.encoded_size) % 65536
  BY <1>16, <1>17, <1>21, <1>23, <1>24
<1>26. Held(m, st) <=>
         LET d == instruction_decode(m, st.address) IN
         /\ d.result = "VM_OK" /\ d.opcode = st.opcode
         /\ Meant(st.opcode, st.op1, d.op1.mode)
         /\ Denotes(st.op1, d.op1.value)
         /\ Meant(st.opcode, st.op2, d.op2.mode)
         /\ Denotes(st.op2, d.op2.value)
         /\ d.next = (st.address + st.encoded_size) % 65536
  BY DEF Held
<1> QED
  BY <1>9, <1>10, <1>25, <1>26 DEF A, op

\* Data in memory.
LEMMA DataHeld ==
  ASSUME AsmShape, Labels, NEW st, IsStatement(st), emits(st),
         st.kind # "STMT_INSTRUCTION",
         st.address + st.encoded_size <= 65536,
         NEW m, Written(m, st.address, Encoding(st))
  PROVE  Held(m, st)
<1> DEFINE h == head_bytes(st)
           A == st.address
<1>1. \A n \in DOMAIN symtab : symtab[n] \in Word
  BY DEF AsmShape
<1>2. IsBody(st) /\ A \in Word /\ st.op1.value \in Int
  BY DEF IsStatement, IsBody
<1>3. Written(m, A, h)
  BY <1>1, PartsWritten
<1>4. CASE st.kind = "STMT_WORD"
  <2> DEFINE v == resolve_value(st.op1)
  <2>1. resolves(st.op1) /\ h = word_bytes(v)
    BY <1>4 DEF emits, head_bytes
  <2>2. v \in Int
    BY <1>1, <1>2, <2>1, ResolvedType
  <2>3. st.encoded_size = 2
    BY <1>2, <1>4 DEF IsBody
  <2>4. Denotes(st.op1, v % 65536)
    BY <2>1, ResolvedDenotes
  <2> HIDE DEF h, v
  <2>5. /\ Len(h) = 2 /\ h[1] = v % 256 /\ h[2] = (v \div 256) % 256
    BY <2>1, WordBytes
  <2>6. mem_read8(m, A + (1 - 1)) = v % 256
    BY <1>3, <2>5 DEF Written
  <2>7. mem_read8(m, A + (2 - 1)) = (v \div 256) % 256
    BY <1>3, <2>5 DEF Written
  <2>8. A + (1 - 1) = A /\ A + (2 - 1) = (A + 1) % 65536
    BY <1>2, <2>3 DEF Word
  <2>9. mem_read16(m, A) = v % 65536
    <3> HIDE DEF A
    <3>1. /\ mem_read8(m, A) = v % 256
          /\ mem_read8(m, (A + 1) % 65536) = (v \div 256) % 256
      BY <2>6, <2>7, <2>8
    <3>2. (v % 256) + 256 * ((v \div 256) % 256) = v % 65536
      BY <2>2, WordValue
    <3> QED
      BY <3>1, <3>2 DEF mem_read16
  <2> QED
    BY <1>4, <2>4, <2>9 DEF Held
<1>5. CASE st.kind = "STMT_BYTE"
  <2>1. h = <<st.op1.value>>
    BY <1>5 DEF head_bytes
  <2> HIDE DEF h
  <2>2. mem_read8(m, A + (1 - 1)) = st.op1.value
    BY <1>3, <2>1 DEF Written
  <2>3. A + (1 - 1) = A
    BY <1>2 DEF Word
  <2> QED
    BY <1>5, <2>2, <2>3 DEF Held
<1>6. CASE st.kind = "STMT_STRING"
  <2>1. h = st.string_bytes
    BY <1>6 DEF head_bytes
  <2>2. \A i \in 1 .. Len(st.string_bytes) :
          mem_read8(m, st.address + i - 1) = st.string_bytes[i]
    BY <1>3, <2>1 DEF Written
  <2> QED
    BY <1>6, <2>2 DEF Held
<1>7. CASE st.kind \in {"STMT_LABEL", "STMT_ORG", "STMT_DATA_SECTION"}
  BY <1>7 DEF Held
<1> QED
  BY <1>2, <1>4, <1>5, <1>6, <1>7 DEF IsBody

LEMMA ProgramHeld ==
  ASSUME ProgramInv
  PROVE  ImageHoldsProgram
<1> SUFFICES ASSUME stage = "ok", Fits, Describable
             PROVE  LET m == loaded_memory(image) IN
    /\ \A i \in DOMAIN stmts : Held(m, stmts[i])
    /\ \A i \in 1 .. Len(stmts) - 1 :
         stmts[i].kind = "STMT_LABEL" /\ occupies(stmts[i + 1]) =>
           stmts[i].address = stmts[i + 1].address
    /\ \A a \in DOMAIN m : \E i \in DOMAIN stmts :
         a \in stmts[i].address .. stmts[i].address + stmts[i].encoded_size - 1
  BY DEF ImageHoldsProgram
<1> DEFINE m == loaded_memory(image)
<1>1. AsmShape /\ Layout /\ ImageMade /\ Labels /\ Buffers
  BY DEF ProgramInv, RTInv
<1>2. /\ \A i \in 1 .. Len(stmts) :
           /\ emits(stmts[i])
           /\ Written(m, stmts[i].address, Encoding(stmts[i]))
      /\ \A a \in DOMAIN m : \E i \in 1 .. Len(stmts) : a \in Extent(stmts[i])
  BY <1>1, StatementsLoaded
<1>3. /\ DOMAIN stmts = 1 .. Len(stmts)
      /\ \A i \in 1 .. Len(stmts) : IsStatement(stmts[i])
      /\ extent \in Nat
  BY <1>1, AppendSeq DEF AsmShape
<1> HIDE DEF m
<1>4. ASSUME NEW i \in DOMAIN stmts
      PROVE  /\ stmts[i].address \in Nat /\ stmts[i].encoded_size \in Nat
             /\ stmts[i].address + stmts[i].encoded_size <= 65536
  <2> DEFINE st == stmts[i]
  <2>1. st.address \in Word /\ st.encoded_size \in Nat
    BY <1>3 DEF IsStatement, IsBody
  <2>2. st.encoded_size > 0 =>
          Counters /\ InSection(st, started, start_addr, extent, code_extent)
    BY <1>1, <1>3 DEF Layout, StatementsPlaced, occupies
  <2>3. st.encoded_size > 0 =>
          extent <= 65536 /\ st.address + st.encoded_size <= extent
    BY <2>2 DEF Counters, InSection
  <2> HIDE DEF st
  <2>4. /\ st.address \in Nat /\ st.encoded_size \in Nat
        /\ st.address + st.encoded_size <= 65536
    BY <1>3, <2>1, <2>3 DEF Word
  <2> QED
    BY <2>4 DEF st
<1>5. ASSUME NEW i \in DOMAIN stmts PROVE Held(m, stmts[i])
  <2>1. CASE stmts[i].kind = "STMT_INSTRUCTION"
    BY <1>1, <1>2, <1>3, <1>4, <2>1, InstructionHeld
  <2>2. CASE stmts[i].kind # "STMT_INSTRUCTION"
    BY <1>1, <1>2, <1>3, <1>4, <2>2, DataHeld
  <2> QED
    BY <2>1, <2>2
<1>6. \A i \in 1 .. Len(stmts) - 1 :
        stmts[i].kind = "STMT_LABEL" /\ occupies(stmts[i + 1]) =>
          stmts[i].address = stmts[i + 1].address
  BY <1>1 DEF Labels, LabelsAdjacent
<1>7. ASSUME NEW a \in DOMAIN m
      PROVE  \E i \in DOMAIN stmts :
               a \in stmts[i].address
                       .. stmts[i].address + stmts[i].encoded_size - 1
  <2>1. PICK i \in DOMAIN stmts : a \in Extent(stmts[i])
    BY <1>2, <1>3
  <2>2. a \in stmts[i].address
                .. stmts[i].address + stmts[i].encoded_size - 1
    BY <1>4, <2>1 DEF Extent
  <2> QED
    BY <2>2
<1> QED
  BY <1>5, <1>6, <1>7 DEF m

\* The two passes agree with each other and with the decoder: the loaded
\* image of every program that fits holds each statement where pass one put
\* it, with every label resolved, and nothing else (parser.c: both passes;
\* assembler.c; loader.c; instruction.c: instruction_decode).
THEOREM ProgramExact == RTSpec => []ImageHoldsProgram
<1>1. RTSpec => []ProgramInv
  BY ProgramInvInit, ProgramInvStep, PTL DEF RTSpec
<1>2. ProgramInv => ImageHoldsProgram
  BY ProgramHeld
<1> QED
  BY <1>1, <1>2, PTL
=============================================================================
