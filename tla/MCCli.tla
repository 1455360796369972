-------------------------------- MODULE MCCli --------------------------------
(***************************************************************************)
(* Programs of two instructions that halt, exit, fault, read a number,     *)
(* loop forever or exhaust the stack, under a step limit that some of them *)
(* hit exactly on their last step; and two files the loader refuses.       *)
(***************************************************************************)
EXTENDS Cli, Files

Base == 65512
Pool == {MOVri(0, 256), MOVri(0, 263), NOP, PUSHr(0), Jump(OP_JMP, Base + 2),
         Jump(OP_JMP, Base), ALUrr(OP_DIV, 0, 1), SYS(3), SYS(4), SYS(9),
         CALL(Base + 2), HALT, <<254>>}

Programs == {ProgramAt(Base, c \o d \o HALT) : c \in Pool, d \in Pool}

Refused == {[p EXCEPT !.entry_point = Base - 1] :
              p \in {ProgramAt(Base, HALT), ProgramAt(Base, NOP \o HALT)}}

MCImages == Programs \cup Refused
=============================================================================
