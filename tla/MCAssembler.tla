---------------------------- MODULE MCAssembler ----------------------------
(***************************************************************************)
(* Programs of up to four lines: the short ones combine every statement    *)
(* form, label use and error; some start or end at the top of memory,      *)
(* where the 16-bit counters wrap; some spell every legal instruction.     *)
(* Images whose code is any short string of bytes that begin, continue or  *)
(* break instructions, at the bottom of memory and just below its top,     *)
(* with data next to it, apart from it or ending at the top.               *)
(***************************************************************************)
EXTENDS RoundTrip, Files, SequencesExt

CONSTANTS MaxLines, CodeBytes, MaxCode

Org(n) == <<Directive("org"), Number(n)>>
Data == <<Directive("data")>>
Word16(t) == <<Directive("word"), t>>
Byte8(t) == <<Directive("byte"), t>>
Op0(m) == <<Ident(m)>>
Op1(m, a) == <<Ident(m)>> \o a
Op2(m, a, b) == <<Ident(m)>> \o a \o <<COMMA>> \o b
R(n) == <<Ident(n)>>
N(n) == <<Number(n)>>
L(n) == <<Ident(n)>>
Mem(a) == <<LBRACKET>> \o a \o <<RBRACKET>>
Label(n) == <<Ident(n), COLON>>

\* A line of every kind the parser accepts.
GoodLines ==
  {Op0("NOP"), Op2("MOV", R("R1"), N(-2)), Op2("LOAD", R("R2"), Mem(L("A"))),
   Op2("STORE", Mem(R("R3")), R("R4")), Op1("JMP", L("A")),
   Op2("CMP", L("B"), R("R7")), Op1("SYS", L("EXIT")), Op1("PUSH", N(65535)),
   Label("A"), Label("A") \o Op0("RET"), Label("B") \o Word16(Ident("A")),
   Org(5), Data, Label("A") \o Data,
   <<Directive("string"), String(<<72, 0>>)>>, Byte8(Number(200)), <<>>}

\* A line for every way a line can be wrong, in pass one and in pass two.
BadLines ==
  {Op1("MOV", R("R1")), Op2("MOV", R("R8"), N(1)), Op2("LOAD", R("R1"), N(4)),
   Op2("ADD", N(1), R("R1")), Op2("STORE", Mem(<<COMMA>>), R("R1")),
   Op2("LOAD", R("R1"), <<LBRACKET>> \o N(4)), Op1("JMP", Mem(R("R1"))),
   Op1("SYS", N(256)), Op1("SYS", Mem(L("EXIT"))), Op1("PUSH", N(65536)),
   Op1("PUSH", L("R10000")), Op1("NOP", N(1)), Op1("PUSH", <<COMMA>>),
   Op0("A"), <<COLON>>, Label("A") \o Label("B"), Op0("NOP") \o <<Number(1)>>,
   Org(65536), <<Directive("org"), Ident("A")>>, <<Directive("string")>>,
   Word16(COMMA), Word16(Ident("R1")), Byte8(Ident("A")), Byte8(Number(256)),
   <<Directive("bss")>>}

\* Lines that fill memory up to its end and past it.
TopLines ==
  {Op0("NOP"), Op2("MOV", R("R0"), N(5)), Byte8(Number(9)), Label("A"),
   Org(0), Data,
   <<Directive("string"), String(<<72, 73>>)>>}

Source(lines) == FlattenSeq([i \in DOMAIN lines |-> Append(lines[i], NEWLINE)])
                   \o <<EOF>>

Programs(pool, n) == {Source(l) : l \in [1 .. n -> pool]}

GoodSources == UNION {Programs(GoodLines, n) : n \in 1 .. MaxLines}
BadSources == {Source(<<g, b>>) : g \in {Label("A"), Op0("NOP")}, b \in BadLines}
                \cup {<<EOF>>} \cup {Source(<<Label("A"), Label("A")>>)}
\* The first line is at the top of memory already, so that code is short.
TopSources == {Source(<<Org(a)>> \o l) :
                 a \in {65531, 65534, 65535}, l \in [1 .. 3 -> TopLines]}

\* One operand for each mode, in the syntax its position needs.
Spelling(op, legal, mode) ==
  CASE mode = MODE_NONE -> <<>>
    [] mode = MODE_REG -> R("R7")
    [] mode = MODE_REG_INDIRECT -> Mem(R("R0"))
    [] mode = MODE_MEM_DIRECT ->
         IF legal = MODES_MEM THEN Mem(N(4660)) ELSE R("TOP")
    [] OTHER -> N(3)

\* Every legal instruction form.
Forms(name) ==
  LET op == MNEMONICS[name] IN
  {<<Ident(name)>> \o Spelling(op, op1_modes(op), m1)
     \o (IF m2 = MODE_NONE THEN <<>> ELSE <<COMMA>>)
     \o Spelling(op, op2_modes(op), m2) :
       m1 \in op1_modes(op), m2 \in op2_modes(op)}

AllForms == UNION {Forms(name) : name \in DOMAIN MNEMONICS}

Tails == {<<>>, <<<<Directive("data")>>, <<Directive("word"), Ident("TOP")>>>>,
          <<<<Directive("word"), Number(-65537)>>>>,
          <<<<Directive("org"), Number(12)>>>>,
          <<<<Directive("data")>>, <<Directive("org"), Number(20)>>,
            <<Directive("string"), String(<<72>>)>>>>}

FormSources == {Source(<<f, <<Ident("TOP"), COLON>>>> \o t) :
                f \in AllForms, t \in Tails}

MCSources == GoodSources \cup BadSources \cup TopSources \cup FormSources

Codes == UNION {[1 .. n -> CodeBytes] : n \in 1 .. MaxCode}

At(a, c) == File(a, a, c, 0, <<>>)
Bare == {At(0, c) : c \in Codes} \cup {At(65535 - Len(c), c) : c \in Codes}
WithData ==
  {File(8, 8, <<255, 0>>, d, <<31, 0>>) : d \in {0, 7, 9, 10, 11, 65534}}
Odd == {File(8, 8, <<0>>, 9, <<18, 3>>), File(9, 8, <<255, 0>>, 0, <<>>), File(8, 8, <<>>, 0, <<>>),
        [File(8, 8, <<255, 0>>, 0, <<>>) EXCEPT !.version = 2],
        File(65534, 65534, <<255, 0>>, 0, <<>>)}

MCImages == Bare \cup WithData \cup Odd

\* Code at the bottom, code that ends at the top, and an .org behind it.
WrapSources == {Source(<<Op0("NOP"), Org(65534), Op0("NOP"), x, Op0("HALT")>>) :
                  x \in {Org(0), Org(2)}}

\* HALT as the last two bytes of memory.
LastSources == {Source(<<Org(a), Op0("HALT")>>) : a \in {65533, 65534}}
=============================================================================
