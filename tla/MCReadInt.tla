------------------------------ MODULE MCReadInt ------------------------------
(***************************************************************************)
(* All short inputs over the characters the parser tells apart, and        *)
(* numbers around 2^16, 2^31, 2^32 and 2^64 followed by another one.       *)
(***************************************************************************)
EXTENDS ReadInt, SequencesExt

CONSTANT MaxLen

Chars == {" ", "\n", "-", "0", "7", "x"}

Written(digits) == [i \in DOMAIN digits |-> Digits[digits[i] + 1]]

Long ==
  {<<6,5,5,3,5>>, <<6,5,5,3,6>>, <<3,2,7,6,9>>, <<1,0,0,0,0,0>>,
   <<4,2,9,4,9,6,7,2,9,6>>,
   <<1,8,4,4,6,7,4,4,0,7,3,7,0,9,5,5,1,6,1,5>>,
   <<1,8,4,4,6,7,4,4,0,7,3,7,0,9,5,5,1,6,1,7>>,
   [i \in 1 .. 30 |-> 9]}

LongInputs == {s \o Written(d) \o t : s \in {<<>>, <<"-">>, <<"\n", "-">>},
                                      d \in Long, t \in {<<>>, <<" ", "7">>,
                                                         <<"-", "7">>}}

MCInputs == SeqOf(Chars, MaxLen) \cup LongInputs
=============================================================================
