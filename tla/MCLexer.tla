------------------------------- MODULE MCLexer -------------------------------
(***************************************************************************)
(* All short texts over the characters at which the lexer changes its      *)
(* mind, longer string literals, a program, and numbers of every form at   *)
(* the ends of 16, 32, 63 and 64 bits.                                     *)
(***************************************************************************)
EXTENDS Lexer, SequencesExt

CONSTANT MaxLen

Chars == {"\"", "\\", "x", "0", ".", "\n", ";", "-", " ", "?"}
StringChars == {"\\", "x", "A", "n", "\"", "\n"}

ShortTexts == SeqOf(Chars, MaxLen)

\* The inside of a literal, closed or not.
Literals == {<<"\"">> \o s \o t : s \in SeqOf(StringChars, MaxLen),
                                 t \in {<<>>, <<"\"">>, <<"\"", "\n">>}}

F(n) == [i \in 1 .. n |-> "F"]
Zeros(n) == [i \in 1 .. n |-> "0"]
Nines(n) == [i \in 1 .. n |-> "9"]

Numbers ==
  {<<"0", "x">> \o F(4), <<"0", "X", "a", "B">>, <<"-", "0", "x", "8">> \o Zeros(3),
   <<"0", "x", "7">> \o F(7), <<"0", "x">> \o F(8), <<"0", "x", "7">> \o F(15),
   <<"-">> \o Nines(18), Nines(5), <<"-", "3", "2", "7", "6", "9">>, Nines(10),
   <<"0", "x", "8">> \o Zeros(15), <<"-", "0", "x">> \o F(17)}

Program ==
  <<"A", ":", " ", ".", "o", "r", "g", "\t", "0", "x", "1", "0", ";", "1", "\r",
    "\n", "\n", "M", "O", "V", " ", "R", "0", ",", "[", "a", "_", "1", "]", ";",
    "\n", ".", "b", " ", "@">>

\* An immediate of 2^64 + 1.
OverLong ==
  <<"M", "O", "V", " ", "R", "0", ",", " ", "1", "8", "4", "4", "6", "7", "4",
    "4", "0", "7", "3", "7", "0", "9", "5", "5", "1", "6", "1", "7", "\n">>
RangeTexts == {Program, OverLong}

MCTexts == ShortTexts \cup Literals \cup {Program}
             \cup {n \o t : n \in Numbers, t \in {<<>>, <<",", "-", "1">>}}
=============================================================================
