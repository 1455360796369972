----------------------------- MODULE MCMachine ------------------------------
(***************************************************************************)
(* Two families of programs, each loaded once and loaded again at any      *)
(* time, and one family of files.                                          *)
(*                                                                         *)
(* StackPrograms: up to four instructions drawn from the stack             *)
(* instructions, jumps back to the entry point, and STOREs into the code,  *)
(* into a stack slot and across two of them.  The code sits just below the *)
(* top of memory, so three to eleven words fit on the stack and loops of   *)
(* pushes and calls reach the limit.                                       *)
(*                                                                         *)
(* IsaPrograms: R0 and R1 are set, then two instructions are drawn from a  *)
(* pool that has each of the 33 opcodes, each addressing mode, and each    *)
(* way to fail: an unknown opcode, an illegal and an unknown mode, a       *)
(* register above R7, division by zero, an empty and a full stack, an      *)
(* unknown system call.  One word fits on the stack.                       *)
(*                                                                         *)
(* Swapped files, loaded over one another at any moment: all headers whose *)
(* regions lie at the bottom, around each other and at the top of memory,  *)
(* entry points at and just outside both ends of the code, files one byte  *)
(* too short and longer than needed, and each wrong fixed field.  The      *)
(* accepted ones set R0 and flags, push a word and exit.                   *)
(***************************************************************************)
EXTENDS Machine, Files, SequencesExt

CONSTANTS MaxLength,       \* of a stack program, in instructions
          OperandPairs     \* initial values of R0 and R1

Low == 65496
StackPool ==
  {PUSHi(Low), PUSHr(1), POPr(1), CALL(Low + 2), RET,
   Jump(OP_JMP, Low + 2), STOREm(65533, 1), STOREm(Low + 4, 1), HALT}

StackPrograms ==
  {ProgramAt(Low, FlattenSeq(s) \o HALT) :
     s \in UNION {[1 .. n -> StackPool] : n \in 1 .. MaxLength}}

\* Programs whose code ends exactly at 0x10000, 0xFFFF and 0xFFFE: the
\* clamped limit, and no room for a single word.
Edge(base) == ProgramAt(base, PUSHi(7) \o CALL(base) \o HALT)
EdgePrograms == {Edge(65524), Edge(65523), Edge(65522), Edge(65520)}

High == 65502
Arithmetic == OP_ADD .. OP_SHR \ {OP_NOT}
IsaPool ==
  {ALUrr(op, 0, 1) : op \in Arithmetic}
  \cup {ALUri(op, 0, 16) : op \in {OP_SHL, OP_SHR}}
  \cup {ALUri(op, 0, 0) : op \in {OP_DIV, OP_MOD}}
  \cup {Jump(op, High) : op \in OP_JMP .. OP_JBE}
  \cup {NOP, ALUrr(OP_MOV, 0, 1), NOTr(0), LOADm(0, 65535), LOADi(0, 1),
        STOREm(65535, 1), STOREi(1, 0), PUSHr(0), PUSHi(High), POPr(1),
        CMPrr(0, 1), CMPir(32768, 1), CALL(High + 12), RET, HALT}
  \cup {SYS(n) : n \in {1, 2, 3, 4, 5}}
  \cup {<<32, 0>>, <<OP_MOV, 17 * 2, 0>>, <<OP_NOT, 16 * 6>>,
        <<OP_POP, 16, 8>>, <<OP_LOAD, 20, 0, 200>>}

Fill(code) == code \o SubSeq(<<255, 0, 255, 0, 255, 0, 255, 0,
                               255, 0, 255, 0, 255, 0, 255, 0>>, 1,
                             18 - Len(code))

IsaPrograms ==
  {ProgramAt(High, MOVri(0, p[1]) \o MOVri(1, p[2]) \o Fill(c \o d)) :
     p \in OperandPairs, c \in IsaPool, d \in IsaPool}

-----------------------------------------------------------------------------
\* NOT R0 / PUSH R0 / SYS EXIT, then bytes for the data and for a tail.
Payload == NOTr(0) \o PUSHr(0) \o SYS(4) \o <<5, 6, 7>>

Header(entry, ca, cs, da, ds, extra) ==
  [size |-> 16 + cs + ds + extra, magic |-> TRUE, version |-> 1,
   reserved |-> 0, entry_point |-> entry,
   code_size |-> cs, code_addr |-> ca, data_size |-> ds, data_addr |-> da,
   body |-> SubSeq(Payload, 1, cs + ds + extra)]

Layouts ==
  {Header(ca, ca, cs, da, ds, 0) :
     ca \in {4, 65527, 65528}, cs \in {0, 9},
     da \in {2, 3, 8, 12, 13, 65534, 65535}, ds \in {0, 2}}

Good == Header(4, 4, 9, 20, 2, 0)

Entries == {Header(e, 4, 9, 20, 2, 0) : e \in {3, 5, 12, 13}}
Lengths == {Header(4, 4, 9, 20, 2, x) : x \in {-1, 1}}
ShortFile == [Good EXCEPT !.size = 15, !.body = <<>>]
WrongFields == {[Good EXCEPT !.magic = FALSE], [Good EXCEPT !.version = 2],
                [Good EXCEPT !.reserved = 1]}

MCSwapped == Layouts \cup Entries \cup Lengths \cup WrongFields
               \cup {Good, ShortFile}

-----------------------------------------------------------------------------
Programs == StackPrograms \cup EdgePrograms \cup IsaPrograms
MCImages == Programs \cup MCSwapped     \* TLC evaluates a constant once
MCOperandPairs == {<<65535, 1>>, <<32768, 65535>>, <<65300, 65300>>}
=============================================================================
