------------------------------ MODULE Assembler ------------------------------
(***************************************************************************)
(* The two-pass assembler (assembler.c, parser.c, symtab.c) from the token *)
(* list on.  Pass one parses a statement at a time, gives it an address    *)
(* from the 16-bit counter of its section and enters labels in the symbol  *)
(* table; pass two resolves the operands and writes each statement into    *)
(* the 64 KB scratch buffer of its section, from which the image is cut.   *)
(*                                                                         *)
(* Every failure of the parser ends in the one stage "error": the message  *)
(* and the line it names are left out, as is running out of memory.        *)
(***************************************************************************)
EXTENDS Instruction, Image, Tokens

CONSTANTS
  Sources,       \* the token lists to assemble
  Names,         \* the names in them that are no words of the language
  PastBuffer     \* bytes that may lie behind a scratch buffer

ASSUME PastBufferAssumption == PastBuffer # {} /\ PastBuffer \subseteq Byte

VARIABLES
  tokens, pos,   \* the token list and the parser's place in it
  stage,         \* pass one: at the start of a "line", at the "rest" of a
                 \* line after its label, at its "eol"; pass two: "emit";
                 \* then "ok" or "error"
  stmts,         \* the statements parsed
  symtab,        \* label |-> address
  section,       \* the active section, "code" or "data"
  cursor,        \* the address counter of each section
  started,       \* has the section any bytes, and where do they start
  start_addr,
  next,          \* pass two: the statement to emit
  buffer,        \* the scratch buffer of each section
  image,         \* the result
  extent         \* history: how far the section's counter has really got,
                 \* Overrun once it lost its 17th bit

parser == <<pos, stage, stmts, symtab, section, cursor, started, start_addr>>
asmVars == <<tokens, parser, next, buffer, image, extent>>

Section == {"code", "data"}

-----------------------------------------------------------------------------
\* The tables of mnemonics, registers and system calls.
MNEMONICS ==
  [NOP  |-> OP_NOP,  MOV  |-> OP_MOV,  ADD  |-> OP_ADD,  SUB   |-> OP_SUB,
   MUL  |-> OP_MUL,  DIV  |-> OP_DIV,  MOD  |-> OP_MOD,  AND   |-> OP_AND,
   OR   |-> OP_OR,   XOR  |-> OP_XOR,  NOT  |-> OP_NOT,  SHL   |-> OP_SHL,
   SHR  |-> OP_SHR,  LOAD |-> OP_LOAD, STORE |-> OP_STORE, PUSH |-> OP_PUSH,
   POP  |-> OP_POP,  CMP  |-> OP_CMP,  JMP  |-> OP_JMP,  JZ    |-> OP_JZ,
   JNZ  |-> OP_JNZ,  JG   |-> OP_JG,   JGE  |-> OP_JGE,  JL    |-> OP_JL,
   JLE  |-> OP_JLE,  JB   |-> OP_JB,   JAE  |-> OP_JAE,  JA    |-> OP_JA,
   JBE  |-> OP_JBE,  CALL |-> OP_CALL, RET  |-> OP_RET,  SYS   |-> OP_SYS,
   HALT |-> OP_HALT]

SYSCALLS == [PRINT_INT |-> 1, PRINT_CHAR |-> 2, READ_INT |-> 3, EXIT |-> 4]

\* try_parse_register takes R and any number up to four digits; R10000
\* is a label.
REGISTERS ==
  [R0 |-> 0, R1 |-> 1, R2 |-> 2, R3 |-> 3, R4 |-> 4, R5 |-> 5, R6 |-> 6,
   R7 |-> 7, R8 |-> 8, R10 |-> 10, R1000 |-> 1000]

\* What the lexer hands over: tokens, the last of them TOK_EOF.  Their text
\* is a word of the language or another name.
Words == DOMAIN MNEMONICS \cup DOMAIN SYSCALLS \cup DOMAIN REGISTERS
           \cup {"org", "data", "string", "word", "byte", NoText}
TokenSet == [type : TokenTypes, text : Words \cup Names, num_value : Int,
             str_value : Seq(Byte)]
IsTokenList(s) ==
  s \in Seq(TokenSet) /\ Len(s) > 0 /\ s[Len(s)].type = "TOK_EOF"

ASSUME SourcesAssumption == \A s \in Sources : IsTokenList(s)

-----------------------------------------------------------------------------
\* Operands.  OPKIND_REG, _NUMBER and _LABEL with mem = FALSE are the bare
\* forms, with mem = TRUE the bracketed ones (OPKIND_REG_INDIRECT,
\* OPKIND_MEM_NUMBER, OPKIND_MEM_LABEL).
ParsedOperand(kind, mem, value, label) ==
  [kind |-> kind, mem |-> mem, value |-> value, label |-> label]
OPKIND_NONE == ParsedOperand("NONE", FALSE, 0, NoText)

advance(p) == IF p < Len(tokens) THEN p + 1 ELSE p

\* The operand at p, whether it is well formed, and the place after it.
parse_operand(p, context_opcode) ==
  LET mem   == tokens[p].type = "TOK_LBRACKET"
      q     == IF mem THEN advance(p) ELSE p
      t     == tokens[q]
      after == advance(q)
      named == t.type = "TOK_IDENT"
      op == CASE named /\ t.text \in DOMAIN REGISTERS ->
                   ParsedOperand("REG", mem, REGISTERS[t.text], NoText)
              [] /\ named /\ t.text \notin DOMAIN REGISTERS
                 /\ ~mem /\ context_opcode = OP_SYS
                 /\ t.text \in DOMAIN SYSCALLS ->
                   ParsedOperand("NUMBER", mem, SYSCALLS[t.text], NoText)
              [] t.type = "TOK_NUMBER" ->
                   ParsedOperand("NUMBER", mem, t.num_value, NoText)
              [] OTHER ->
                   IF named THEN ParsedOperand("LABEL", mem, 0, t.text)
                            ELSE OPKIND_NONE
  IN  [ok      |-> /\ op # OPKIND_NONE
                   /\ mem => tokens[after].type = "TOK_RBRACKET",
       operand |-> op,
       next    |-> IF mem THEN advance(after) ELSE after]

NoMode == -1     \* the operand fits no legal mode

\* The mode follows from the syntax and the opcode, never from a value; a
\* bare number or label is no operand where only memory modes are legal.
resolve_operand_mode(op, legal) ==
  LET mode == CASE op.kind = "REG" ->
                     IF op.mem THEN MODE_REG_INDIRECT ELSE MODE_REG
                [] op.kind # "REG" /\ op.mem -> MODE_MEM_DIRECT
                [] op.kind # "REG" /\ ~op.mem /\ legal = MODES_MEM -> NoMode
                [] OTHER ->
                     IF MODE_IMM16 \in legal THEN MODE_IMM16
                     ELSE IF MODE_MEM_DIRECT \in legal THEN MODE_MEM_DIRECT
                     ELSE MODE_IMM8
  IN  IF mode \in legal /\ (op.kind = "REG" => op.value \in 0 .. 7)
      THEN mode ELSE NoMode

mode_byte_size(mode) ==
  CASE mode = MODE_NONE                                      -> 0
    [] mode \in {MODE_REG, MODE_REG_INDIRECT, MODE_IMM8}     -> 1
    [] OTHER                                                 -> 2

-----------------------------------------------------------------------------
\* Statements.
Statement(kind, size) ==
  [kind |-> kind, section |-> "code", address |-> 0, encoded_size |-> size,
   label |-> NoText, opcode |-> OP_NOP, op1 |-> OPKIND_NONE,
   op2 |-> OPKIND_NONE, op1_mode |-> MODE_NONE, op2_mode |-> MODE_NONE,
   string_bytes |-> <<>>]

\* The instruction whose operands start at p, whether it is legal, and the
\* place after it.
parse_instruction(opcode, p) ==
  LET none == tokens[p].type \in EndOfLine
      a    == parse_operand(p, opcode)
      two  == ~none /\ a.ok /\ tokens[a.next].type = "TOK_COMMA"
      b    == parse_operand(advance(a.next), opcode)
      count == IF none THEN 0 ELSE IF two THEN 2 ELSE 1
      expected == IF op1_modes(opcode) = {MODE_NONE} THEN 0
                  ELSE IF op2_modes(opcode) = {MODE_NONE} THEN 1 ELSE 2
      m1 == IF expected >= 1 /\ a.ok
            THEN resolve_operand_mode(a.operand, op1_modes(opcode))
            ELSE MODE_NONE
      m2 == IF expected = 2 /\ two /\ b.ok
            THEN resolve_operand_mode(b.operand, op2_modes(opcode))
            ELSE MODE_NONE
      size == 2 + mode_byte_size(m1) + mode_byte_size(m2)
  IN  [ok   |-> /\ none \/ a.ok
                /\ two => b.ok
                /\ count = expected
                /\ m1 # NoMode /\ m2 # NoMode,
       stmt |-> [Statement("STMT_INSTRUCTION", size) EXCEPT
                   !.opcode = opcode, !.op1_mode = m1, !.op2_mode = m2,
                   !.op1 = IF count >= 1 THEN a.operand ELSE OPKIND_NONE,
                   !.op2 = IF count = 2 THEN b.operand ELSE OPKIND_NONE],
       next |-> IF none THEN p ELSE IF two THEN b.next ELSE a.next]

-----------------------------------------------------------------------------
\* Pass one.
Overrun == 65537
grown(e, n) == IF e + n > 65536 THEN Overrun ELSE e + n

here == tokens[pos]
argument == tokens[advance(pos)]     \* the token after a directive

starts_label ==
  here.type = "TOK_IDENT" /\ argument.type = "TOK_COLON"

at_statement ==
  \/ stage = "rest"
  \/ stage = "line" /\ here.type \notin EndOfLine /\ ~starts_label

\* What the branches of parse_line and parse_directive_statement accept.
is_directive(name) == here.type = "TOK_DIRECTIVE" /\ here.text = name

accepts_instruction ==
  /\ here.type = "TOK_IDENT" /\ here.text \in DOMAIN MNEMONICS
  /\ parse_instruction(MNEMONICS[here.text], advance(pos)).ok

\* Mutant: .org may move the counter anywhere.
accepts_org_anywhere ==
  /\ is_directive("org")
  /\ argument.type = "TOK_NUMBER" /\ argument.num_value \in Word

accepts_org ==
  /\ is_directive("org")
  /\ argument.type = "TOK_NUMBER" /\ argument.num_value \in Word
  /\ argument.num_value >= cursor[section]

accepts_data == is_directive("data") /\ section # "data"

accepts_string == is_directive("string") /\ argument.type = "TOK_STRING"

accepts_word ==
  /\ is_directive("word")
  /\ LET a == parse_operand(advance(pos), OP_NOP) IN
     a.ok /\ ~a.operand.mem /\ a.operand.kind \in {"NUMBER", "LABEL"}

accepts_byte ==
  /\ is_directive("byte")
  /\ LET a == parse_operand(advance(pos), OP_NOP) IN
     a.ok /\ ~a.operand.mem /\ a.operand.kind = "NUMBER"

fail ==
  /\ stage' = "error"
  /\ UNCHANGED <<tokens, pos, stmts, symtab, section, cursor, started,
                 start_addr, next, buffer, image, extent>>

\* Mutant: the counter keeps its 17th bit.
place_unwrapped(st, p) ==
  /\ stmts' = Append(stmts, [st EXCEPT !.section = section,
                                       !.address = cursor[section]])
  /\ start_addr' = IF started[section] THEN start_addr
                   ELSE [start_addr EXCEPT ![section] = cursor[section]]
  /\ started' = [started EXCEPT ![section] = TRUE]
  /\ cursor' = [cursor EXCEPT ![section] = @ + st.encoded_size]
  /\ extent' = grown(extent, st.encoded_size)
  /\ pos' = p
  /\ stage' = "eol"
  /\ UNCHANGED <<tokens, symtab, section, next, buffer, image>>

\* A statement that occupies bytes: it gets the counter's value as its
\* address (note_section_start if it is the section's first) and moves the
\* 16-bit counter on.
place(st, p) ==
  /\ stmts' = Append(stmts, [st EXCEPT !.section = section,
                                       !.address = cursor[section]])
  /\ start_addr' = IF started[section] THEN start_addr
                   ELSE [start_addr EXCEPT ![section] = cursor[section]]
  /\ started' = [started EXCEPT ![section] = TRUE]
  /\ cursor' = [cursor EXCEPT ![section] = (@ + st.encoded_size) % 65536]
  /\ extent' = grown(extent, st.encoded_size)
  /\ pos' = p
  /\ stage' = "eol"
  /\ UNCHANGED <<tokens, symtab, section, next, buffer, image>>

skip_newline ==
  /\ stage = "line" /\ here.type = "TOK_NEWLINE"
  /\ pos' = advance(pos)
  /\ UNCHANGED <<tokens, stage, stmts, symtab, section, cursor, started,
                 start_addr, next, buffer, image, extent>>

symtab_put(name, addr) ==
  [n \in DOMAIN symtab \cup {name} |-> IF n = name THEN addr ELSE symtab[n]]

\* Mutant: a second definition replaces the first.
redefine_label ==
  LET p == advance(advance(pos))
      addr == cursor[section]
  IN  /\ stage = "line" /\ starts_label
      /\ symtab' = symtab_put(here.text, addr)
      /\ stmts' = Append(stmts, [Statement("STMT_LABEL", 0) EXCEPT
                                   !.label = here.text, !.address = addr])
      /\ pos' = p
      /\ stage' = IF tokens[p].type \in EndOfLine THEN "eol" ELSE "rest"
      /\ UNCHANGED <<tokens, section, cursor, started, start_addr, next,
                     buffer, image, extent>>

define_label ==
  LET p == advance(advance(pos))
      addr == cursor[section]
  IN  /\ stage = "line" /\ starts_label
      /\ here.text \notin DOMAIN symtab
      /\ symtab' = symtab_put(here.text, addr)
      /\ stmts' = Append(stmts, [Statement("STMT_LABEL", 0) EXCEPT
                                   !.label = here.text, !.address = addr])
      /\ pos' = p
      /\ stage' = IF tokens[p].type \in EndOfLine THEN "eol" ELSE "rest"
      /\ UNCHANGED <<tokens, section, cursor, started, start_addr, next,
                     buffer, image, extent>>

duplicate_label ==
  /\ stage = "line" /\ starts_label
  /\ here.text \in DOMAIN symtab
  /\ fail

parse_instruction_statement ==
  /\ at_statement /\ accepts_instruction
  /\ LET i == parse_instruction(MNEMONICS[here.text], advance(pos))
     IN  place(i.stmt, i.next)

parse_org ==
  /\ at_statement /\ accepts_org
  /\ cursor' = [cursor EXCEPT ![section] = argument.num_value]
  /\ extent' = IF extent >= 65536 THEN Overrun ELSE argument.num_value
  /\ stmts' = Append(stmts, Statement("STMT_ORG", 0))
  /\ pos' = advance(advance(pos))
  /\ stage' = "eol"
  /\ UNCHANGED <<tokens, symtab, section, started, start_addr, next, buffer,
                 image>>

\* Mutant: the data counter keeps its own start.
parse_data_at_zero ==
  /\ at_statement /\ accepts_data
  /\ section' = "data"
  /\ stmts' = Append(stmts, Statement("STMT_DATA_SECTION", 0))
  /\ pos' = advance(pos)
  /\ stage' = "eol"
  /\ UNCHANGED <<tokens, symtab, cursor, started, start_addr, next, buffer,
                 image, extent>>

\* Data follows the code unless an .org says otherwise.
parse_data ==
  /\ at_statement /\ accepts_data
  /\ section' = "data"
  /\ cursor' = [cursor EXCEPT !["data"] = cursor["code"]]
  /\ stmts' = Append(stmts, Statement("STMT_DATA_SECTION", 0))
  /\ pos' = advance(pos)
  /\ stage' = "eol"
  /\ UNCHANGED <<tokens, symtab, started, start_addr, next, buffer, image,
                 extent>>

parse_string ==
  /\ at_statement /\ accepts_string
  /\ LET bytes == Append(argument.str_value, 0)
     IN  place([Statement("STMT_STRING", Len(bytes)) EXCEPT
                  !.string_bytes = bytes],
               advance(advance(pos)))

parse_word ==
  /\ at_statement /\ accepts_word
  /\ LET a == parse_operand(advance(pos), OP_NOP)
     IN  place([Statement("STMT_WORD", 2) EXCEPT !.op1 = a.operand], a.next)

parse_byte ==
  /\ at_statement /\ accepts_byte
  /\ LET a == parse_operand(advance(pos), OP_NOP)
     IN  place([Statement("STMT_BYTE", 1) EXCEPT !.op1 = a.operand], a.next)

parse_fails ==
  /\ at_statement
  /\ ~(accepts_instruction \/ accepts_org \/ accepts_data
         \/ accepts_string \/ accepts_word \/ accepts_byte)
  /\ fail

end_of_line ==
  /\ stage = "eol"
  /\ \/ /\ here.type \in EndOfLine
        /\ pos' = IF here.type = "TOK_NEWLINE" THEN advance(pos) ELSE pos
        /\ stage' = "line"
        /\ UNCHANGED <<tokens, stmts, symtab, section, cursor, started,
                       start_addr, next, buffer, image, extent>>
     \/ /\ here.type \notin EndOfLine
        /\ fail

\* The end of pass one: a program has at least one byte of code.
end_of_source ==
  /\ stage = "line" /\ here.type = "TOK_EOF"
  /\ stage' = IF started["code"] THEN "emit" ELSE "error"
  /\ UNCHANGED <<tokens, pos, stmts, symtab, section, cursor, started,
                 start_addr, next, buffer, image, extent>>

-----------------------------------------------------------------------------
\* Pass two.
resolves(op) == op.kind = "LABEL" => op.label \in DOMAIN symtab

resolve_value(op) == IF op.kind = "LABEL" THEN symtab[op.label] ELSE op.value

range_check(mode, v) ==
  /\ mode \in {MODE_IMM16, MODE_MEM_DIRECT} => v >= -32768 /\ v <= 65535
  /\ mode = MODE_IMM8 => v \in 0 .. 255

\* The checks of emit_statement; those of a statement without bytes pass.
emits(st) ==
  CASE st.kind = "STMT_INSTRUCTION" ->
         /\ resolves(st.op1) /\ range_check(st.op1_mode, resolve_value(st.op1))
         /\ resolves(st.op2) /\ range_check(st.op2_mode, resolve_value(st.op2))
    [] st.kind = "STMT_WORD" -> resolves(st.op1)
    [] st.kind = "STMT_BYTE" -> st.op1.value \in 0 .. 255
    [] OTHER                 -> TRUE

word_bytes(v) == <<v % 256, (v \div 256) % 256>>

operand_bytes(mode, op) ==
  CASE mode_byte_size(mode) = 0 -> <<>>
    [] mode_byte_size(mode) = 1 -> <<resolve_value(op) % 256>>
    [] OTHER                    -> word_bytes(resolve_value(op))

\* What emit_statement stores at one go, and an instruction's operands.
head_bytes(st) ==
  CASE st.kind = "STMT_INSTRUCTION" ->
         <<st.opcode, 16 * st.op1_mode + st.op2_mode>>
    [] st.kind = "STMT_STRING" -> st.string_bytes
    [] st.kind = "STMT_WORD"   -> word_bytes(resolve_value(st.op1))
    [] st.kind = "STMT_BYTE"   -> <<st.op1.value>>
    [] OTHER                   -> <<>>

\* A store past the end of the buffer hits padding or a field that is set
\* afterwards.
store(m, addr, bytes) ==
  write_block(m, addr, IF addr + Len(bytes) <= 65536 THEN bytes
                       ELSE SubSeq(bytes, 1, 65536 - addr))

\* The address of each operand is a uint16_t again.
stored(m, st) ==
  LET b1 == operand_bytes(st.op1_mode, st.op1)
      b2 == operand_bytes(st.op2_mode, st.op2)
      h  == head_bytes(st)
      a1 == (st.address + 2) % 65536
      a2 == (a1 + Len(b1)) % 65536
  IN  store(store(store(m, st.address, h), a1, b1), a2, b2)

emit_statement ==
  /\ stage = "emit" /\ next <= Len(stmts)
  /\ LET st == stmts[next] IN
     \/ /\ emits(st)
        /\ buffer' = [buffer EXCEPT ![st.section] = stored(@, st)]
        /\ next' = next + 1
        /\ UNCHANGED <<tokens, parser, image, extent>>
     \/ /\ ~emits(st)
        /\ fail

section_size(s) ==
  IF started[s] THEN (cursor[s] - start_addr[s]) % 65536 ELSE 0

\* The bytes of a section; b is what lies behind the buffer.
slice(s, b) ==
  [i \in 1 .. section_size(s) |->
     LET a == start_addr[s] + i - 1
     IN  IF a < 65536 THEN mem_read8(buffer[s], a) ELSE b]

make_image(b) ==
  [size |-> BVM_HEADER_SIZE + section_size("code") + section_size("data"),
   magic |-> TRUE, version |-> 1, reserved |-> 0,
   entry_point |-> start_addr["code"],
   code_size |-> section_size("code"), code_addr |-> start_addr["code"],
   data_size |-> section_size("data"), data_addr |-> start_addr["data"],
   body |-> slice("code", b) \o slice("data", b)]

make_result ==
  /\ stage = "emit" /\ next > Len(stmts)
  /\ \E b \in PastBuffer : image' = make_image(b)
  /\ stage' = "ok"
  /\ UNCHANGED <<tokens, pos, stmts, symtab, section, cursor, started,
                 start_addr, next, buffer, extent>>

-----------------------------------------------------------------------------
NoImage ==
  [size |-> 0, magic |-> FALSE, version |-> 0, reserved |-> 0,
   entry_point |-> 0, code_size |-> 0, code_addr |-> 0, data_size |-> 0,
   data_addr |-> 0, body |-> <<>>]

\* assemble_tokens starts from zeroed state.
AsmStart(source) ==
  /\ tokens = source /\ pos = 1 /\ stage = "line"
  /\ stmts = <<>> /\ symtab = [n \in {} |-> 0]
  /\ section = "code"
  /\ cursor = [s \in Section |-> 0]
  /\ started = [s \in Section |-> FALSE]
  /\ start_addr = [s \in Section |-> 0]
  /\ next = 1
  /\ buffer = [s \in Section |-> mem_init]
  /\ image = NoImage
  /\ extent = 0

\* The same as a step: another call of assemble().
AsmRestart(source) ==
  /\ tokens' = source /\ pos' = 1 /\ stage' = "line"
  /\ stmts' = <<>> /\ symtab' = [n \in {} |-> 0]
  /\ section' = "code"
  /\ cursor' = [s \in Section |-> 0]
  /\ started' = [s \in Section |-> FALSE]
  /\ start_addr' = [s \in Section |-> 0]
  /\ next' = 1
  /\ buffer' = [s \in Section |-> mem_init]
  /\ image' = NoImage
  /\ extent' = 0

AsmInit == \E s \in Sources : AsmStart(s)

PassOne ==
  \/ skip_newline \/ define_label \/ duplicate_label
  \/ parse_instruction_statement \/ parse_org \/ parse_data
  \/ parse_string \/ parse_word \/ parse_byte \/ parse_fails
  \/ end_of_line \/ end_of_source

AsmNext == PassOne \/ emit_statement \/ make_result

AsmSpec == AsmInit /\ [][AsmNext]_asmVars

-----------------------------------------------------------------------------
\* Addresses, counters and labels stay 16 bits wide, the parser never looks
\* behind its last token, and the buffers and the image hold bytes.
AsmTypeOK ==
  /\ IsTokenList(tokens)
  /\ pos \in DOMAIN tokens
  /\ stage \in {"line", "rest", "eol", "emit", "ok", "error"}
  /\ \A i \in DOMAIN stmts : stmts[i].section \in Section
                               /\ stmts[i].address \in Word
                               /\ stmts[i].encoded_size \in Nat
  /\ \A n \in DOMAIN symtab : symtab[n] \in Word
  /\ section \in Section
  /\ cursor \in [Section -> Word] /\ start_addr \in [Section -> Word]
  /\ started \in [Section -> BOOLEAN]
  /\ next \in 1 .. Len(stmts) + 1
  /\ \A s \in Section : IsMemory(buffer[s])
  /\ IsImage(image)
  /\ extent \in Nat /\ extent <= Overrun

\* The counters never lost a bit: the program fits the address space.
Fits == extent # Overrun

\* What a header can describe: code_size is a uint16_t, so code that fills
\* all 64 KB has size 0.
Describable == section_size("code") > 0

occupies(st) == st.encoded_size > 0

\* Pass one lays the statements of a program that fits out in the order of
\* the source, none on top of another, data behind code (parser.c:
\* SectionState, .org and .data of parse_directive_statement).
StatementsInOrder ==
  Fits => \A i, j \in DOMAIN stmts :
            i < j /\ occupies(stmts[i]) /\ occupies(stmts[j]) =>
              stmts[i].address + stmts[i].encoded_size <= stmts[j].address

\* The image of a program that fits is one the loader accepts: entry point
\* in the code, regions inside memory and disjoint (assembler.c, the last
\* lines of assemble_tokens, against loader.c).
ImageLoads == stage = "ok" /\ Fits /\ Describable => header_ok(image)

\* The modes an operand's syntax may stand for (DESIGN.md section 11.1).
Meant(opcode, op, mode) ==
  CASE op.kind = "NONE" -> mode = MODE_NONE
    [] op.kind = "REG"  -> mode = IF op.mem THEN MODE_REG_INDIRECT ELSE MODE_REG
    [] OTHER -> \/ op.mem /\ mode = MODE_MEM_DIRECT
                \/ ~op.mem /\ mode \in {MODE_IMM16, MODE_IMM8}
                \/ ~op.mem /\ mode = MODE_MEM_DIRECT /\ opcode \in OP_JMP .. OP_CALL

\* The value v stands for op: a label's is the address at which its line
\* was reached.
Denotes(op, v) ==
  IF op.kind = "LABEL"
  THEN \A i \in DOMAIN stmts :
         stmts[i].kind = "STMT_LABEL" /\ stmts[i].label = op.label =>
           v = stmts[i].address
  ELSE v = op.value % 65536

\* Memory m holds the statement st where pass one put it.
Held(m, st) ==
  LET d == instruction_decode(m, st.address) IN
  CASE st.kind = "STMT_INSTRUCTION" ->
         /\ d.result = "VM_OK" /\ d.opcode = st.opcode
         /\ Meant(st.opcode, st.op1, d.op1.mode) /\ Denotes(st.op1, d.op1.value)
         /\ Meant(st.opcode, st.op2, d.op2.mode) /\ Denotes(st.op2, d.op2.value)
         /\ d.next = (st.address + st.encoded_size) % 65536
    [] st.kind = "STMT_WORD" -> Denotes(st.op1, mem_read16(m, st.address))
    [] st.kind = "STMT_BYTE" -> mem_read8(m, st.address) = st.op1.value
    [] st.kind = "STMT_STRING" ->
         \A i \in 1 .. Len(st.string_bytes) :
           mem_read8(m, st.address + i - 1) = st.string_bytes[i]
    [] OTHER -> TRUE

\* The two passes agree, and agree with the decoder: once a program that
\* fits is loaded, every statement is found at the address pass one gave
\* it, every instruction decodes to what its line says with each label
\* resolved, forward references included, a label names the statement
\* after it, and all other memory is zero.
ImageHoldsProgram ==
  stage = "ok" /\ Fits /\ Describable =>
    LET m == loaded_memory(image) IN
    /\ \A i \in DOMAIN stmts : Held(m, stmts[i])
    /\ \A i \in 1 .. Len(stmts) - 1 :
         stmts[i].kind = "STMT_LABEL" /\ occupies(stmts[i + 1]) =>
           stmts[i].address = stmts[i + 1].address
    /\ \A a \in DOMAIN m : \E i \in DOMAIN stmts :
         a \in stmts[i].address .. stmts[i].address + stmts[i].encoded_size - 1

\* The first bytes behind the .org at j are those of statement k.
begins_at(j, k) ==
  /\ stmts[j].kind = "STMT_ORG" /\ j < k /\ occupies(stmts[k])
  /\ \A m \in j + 1 .. k - 1 : ~occupies(stmts[m])

\* DESIGN.md section 11.2: an .org that would go back over bytes already
\* emitted in its section is an error, so in a source that assembles what
\* an .org places begins on no byte of an earlier statement (parser.c: the
\* comparison with the section's counter).
OrgKeepsClear ==
  stage = "ok" =>
    \A i, j, k \in DOMAIN stmts :
      i < j /\ begins_at(j, k) /\ stmts[i].section = stmts[k].section =>
        stmts[k].address
          \notin stmts[i].address .. stmts[i].address + stmts[i].encoded_size - 1
=============================================================================
