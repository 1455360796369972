-------------------------------- MODULE Files --------------------------------
(***************************************************************************)
(* Small .bvm files for the models: a few encoded instructions and the     *)
(* images built from them.  Every image keeps a HALT at the start of its   *)
(* code (a place for jumps and calls to land) and bytes that are no opcode *)
(* at the bottom of memory, so that a program that runs off the top of     *)
(* memory and wraps faults there instead of walking 64 KB of zeroes.       *)
(***************************************************************************)
EXTENDS Integers, Sequences

Lo(w) == w % 256
Hi(w) == w \div 256

\* A well-formed file.
File(entry, code_addr, code, data_addr, data) ==
  [size |-> 16 + Len(code) + Len(data), magic |-> TRUE, version |-> 1,
   reserved |-> 0, entry_point |-> entry,
   code_size |-> Len(code), code_addr |-> code_addr,
   data_size |-> Len(data), data_addr |-> data_addr,
   body |-> code \o data]

\* HALT at base, then code, entered there; the guard bytes as its data.
Guard == <<254, 254, 254, 254, 254, 254>>
ProgramAt(base, code) == File(base + 2, base, <<255, 0>> \o code, 0, Guard)

\* Encoded instructions.
NOP == <<0, 0>>
MOVri(x, w) == <<1, 18, x, Lo(w), Hi(w)>>
ALUrr(op, x, y) == <<op, 17, x, y>>
ALUri(op, x, w) == <<op, 18, x, Lo(w), Hi(w)>>
NOTr(x) == <<10, 16, x>>
LOADm(x, w) == <<13, 19, x, Lo(w), Hi(w)>>
LOADi(x, y) == <<13, 20, x, y>>
STOREm(w, y) == <<14, 49, Lo(w), Hi(w), y>>
STOREi(x, y) == <<14, 65, x, y>>
PUSHr(x) == <<15, 16, x>>
PUSHi(w) == <<15, 32, Lo(w), Hi(w)>>
POPr(x) == <<16, 16, x>>
CMPrr(x, y) == <<17, 17, x, y>>
CMPir(w, y) == <<17, 33, Lo(w), Hi(w), y>>
Jump(op, w) == <<op, 48, Lo(w), Hi(w)>>
CALL(w) == <<29, 48, Lo(w), Hi(w)>>
RET == <<30, 0>>
SYS(n) == <<31, 80, n>>
HALT == <<255, 0>>
=============================================================================
