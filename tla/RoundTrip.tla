------------------------------ MODULE RoundTrip ------------------------------
(***************************************************************************)
(* Assembler and disassembler composed the way `bytevm asm` and `bytevm    *)
(* dis` compose them: a source is assembled, or an image comes from        *)
(* elsewhere; the image is disassembled; the text is assembled again.      *)
(***************************************************************************)
EXTENDS Assembler, Disassembler

CONSTANT Images          \* images from elsewhere

\* A record of its ten fields, each of its type.
ASSUME ImagesAssumption ==
  \A img \in Images : IsImage(img) /\ img = [f \in ImageFields |-> img[f]]

VARIABLE turn            \* "assemble", "disassemble", "reassemble"

rtVars == <<asmVars, disVars, turn>>

AssembleFirst ==
  /\ AsmInit
  /\ turn = "assemble"
  /\ given = NoImage /\ dstage = "idle"

DisassembleFirst ==
  /\ AsmStart(<<EOF>>)
  /\ turn = "disassemble"
  /\ given \in Images /\ dstage = "check"

RTInit == (AssembleFirst \/ DisassembleFirst) /\ dpc = 0 /\ text = <<>>

Assembling ==
  /\ turn \in {"assemble", "reassemble"}
  /\ AsmNext
  /\ UNCHANGED <<disVars, turn>>

Disassembling ==
  /\ turn = "disassemble"
  /\ DisNext
  /\ UNCHANGED <<asmVars, turn>>

\* cmd_dis: the image, as assembled or as read, goes to disassemble().
HandOver ==
  /\ turn = "assemble" /\ stage = "ok"
  /\ turn' = "disassemble"
  /\ given' = image /\ dstage' = "check"
  /\ UNCHANGED <<asmVars, dpc, text>>

\* cmd_asm on the printed text: assemble() starts from nothing.
HandBack ==
  /\ turn = "disassemble" /\ dstage = "ok"
  /\ turn' = "reassemble"
  /\ AsmRestart(text)
  /\ UNCHANGED disVars

RTNext == Assembling \/ Disassembling \/ HandOver \/ HandBack

RTSpec == RTInit /\ [][RTNext]_rtVars

-----------------------------------------------------------------------------
Reassembled == turn = "reassemble" /\ stage \in {"ok", "error"}

\* The images the language can express and whose code ends below the top
\* of memory.
Reproducible(img) ==
  /\ img.magic /\ img.version = 1 /\ img.reserved = 0
  /\ img.size = BVM_HEADER_SIZE + img.code_size + img.data_size
  /\ img.entry_point = img.code_addr
  /\ img.code_size > 0 /\ code_end(img) < 65536
  /\ IF img.data_size = 0 THEN img.data_addr = 0
     ELSE img.data_addr >= code_end(img) /\ data_end(img) <= 65536

\* disassembler.h: assembling the disassembly gives the image back byte for
\* byte, whatever the bytes of its code and data are: undecodable bytes,
\* instructions cut off by the end of the code, gaps, data apart from code.
RoundTripExact ==
  Reassembled /\ Reproducible(given) => stage = "ok" /\ image = given

\* What the assembler makes of a program that fits and ends below the top
\* of memory is an image that survives the round trip.
AssembledIsReproducible ==
  turn = "assemble" /\ stage = "ok" /\ Fits /\ Describable
    /\ code_end(image) < 65536 => Reproducible(image)

\* The sweep visits the code region only (disassembler.c: next > end and
\* next <= pc), also where a decode wraps to the bottom of memory.
SweepStaysInCode ==
  dstage = "code" =>
    \/ dpc = given.code_addr
    \/ dpc \in given.code_addr + 1 .. code_end(given)

\* Where dis prints an instruction, the debugger's disassemble command shows
\* the same one once the image is loaded, although it decodes the whole of
\* memory and dis the code region alone (disassembler.c: disassemble_one,
\* disassemble).
DebuggerShowsSame ==
  dstage = "code" /\ dpc < dend /\ decodes_here /\ header_ok(given) =>
    LET d == instruction_decode(dmem, dpc)
    IN  disassemble_one(loaded_memory(given), dpc) =
          [ok |-> TRUE, line |-> format_instruction(d), next_addr |-> d.next]

\* How far a call still is from its return: the tokens and the statements
\* left to the assembler, the addresses left to the sweep.
AsmLeft ==
  CASE stage \in {"ok", "error"} -> 0
    [] stage = "emit" -> Len(stmts) + 2 - next
    [] OTHER -> Len(stmts) + 3 + 3 * (Len(tokens) - pos)
                  + (IF stage = "eol" THEN 1 ELSE 0)
DisLeft ==
  CASE dstage = "check" -> 65538
    [] dstage = "code"  -> 65537 - dpc
    [] OTHER            -> 0

\* assemble() and disassemble() return on every input: each of their steps
\* brings a natural number down (parser.c: build_statements; disassembler.c:
\* `next <= pc`, without which code at the top of memory is swept forever).
CallsAdvance ==
  [][\/ turn' # turn
     \/ turn = "disassemble" /\ DisLeft' \in 0 .. DisLeft - 1
     \/ turn # "disassemble" /\ AsmLeft' \in 0 .. AsmLeft - 1]_rtVars

\* disassembler.h, of any image the assembler emits and the loader accepts.
RoundTripOfLoadable ==
  Reassembled /\ header_ok(given) => stage = "ok" /\ image = given
=============================================================================
