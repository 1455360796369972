-------------------------------- MODULE MCAlu --------------------------------
(***************************************************************************)
(* Boundary operands: around 0, the shift counts, the square roots of the  *)
(* two ranges, the sign change and the top of the range; 129 * 511, whose  *)
(* high half comes from a carry alone.                                     *)
(***************************************************************************)
EXTENDS AluCheck

MCSamples ==
  0 .. 3 \cup 14 .. 18 \cup {129} \cup 180 .. 183 \cup
    {255, 256, 257, 511, 4660, 21845}
    \cup 32766 .. 32770 \cup {43690, 65280} \cup 65533 .. 65535
=============================================================================
