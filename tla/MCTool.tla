------------------------------- MODULE MCTool -------------------------------
(***************************************************************************)
(* A good and a bad source, a source that a short read turns into a        *)
(* shorter good one, an image with bytes after its code and a free path;   *)
(* every command on every pair of paths, input and output the same         *)
(* included.                                                               *)
(***************************************************************************)
EXTENDS Tool, Files, TLC

Halting == File(0, 0, HALT, 0, <<>>)
Longer == File(0, 0, NOP \o HALT, 4, <<7>>)

\* The loader accepts bytes after the code and data.
Trailing == [Halting EXCEPT !.size = @ + 2, !.body = @ \o <<8, 9>>]

MCCompile == [good |-> Longer, head |-> Halting, bad |-> Rejected]
MCCuts == [good |-> {"head", "bad"}, head |-> {"bad"}, bad |-> {"head"}]
MCFiles == ("a.asm" :> SourceFile("good")) @@ ("b.asm" :> SourceFile("bad"))
             @@ ("c.bvm" :> ImageFile(Trailing)) @@ ("d.bvm" :> Absent)
MCPaths == {"a.asm", "b.asm", "c.bvm", "d.bvm"}
MCAsmPaths == {"a.asm", "b.asm"}
=============================================================================
