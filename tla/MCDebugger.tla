----------------------------- MODULE MCDebugger -----------------------------
(***************************************************************************)
(* Sessions on three small programs: an endless loop that pushes until the *)
(* stack is full, a program that overwrites its own first instruction and  *)
(* halts, and a loop without effect; and one file the loader refuses.      *)
(***************************************************************************)
EXTENDS Debugger, Files

Base == 65516

\* PUSH 7 / JMP start
Filler == ProgramAt(Base, PUSHi(7) \o Jump(OP_JMP, Base + 2))
\* NOT R0 / STORE [start], R0 / JMP to the HALT
Modifier == ProgramAt(Base, NOTr(0) \o STOREm(Base + 2, 0)
                              \o Jump(OP_JMP, Base))
\* JMP start
Spinner == ProgramAt(Base, Jump(OP_JMP, Base + 2))
Refused == [Spinner EXCEPT !.version = 0]

MCImages == {Filler, Modifier, Spinner, Refused}
MCArgs == {NotANumber, Base, Base + 2, Base + 6, 65536}
MCCounts == {NotANumber, 0, 1, 3, 65536}
=============================================================================
