-------------------------------- MODULE Wide --------------------------------
(***************************************************************************)
(* Integers wider than 32 bits, for code that accumulates digits in a      *)
(* 64-bit variable: sequences of 16-bit limbs, the least significant       *)
(* first.  The arithmetic is modulo 2^(16 n) for n limbs.                  *)
(***************************************************************************)
EXTENDS Integers, Sequences

Limbs64 == 4                        \* unsigned long, int64_t

Zero(n) == [i \in 1 .. n |-> 0]

\* v * base + digit, as the loops over digits compute it.
MulAdd(v, base, digit) ==
  LET t[i \in 1 .. Len(v)] ==
        v[i] * base + (IF i = 1 THEN digit ELSE t[i - 1] \div 65536)
  IN  [i \in 1 .. Len(v) |-> t[i] % 65536]

\* Two's complement: every bit inverted, plus one.
Invert(v) == [i \in 1 .. Len(v) |-> 65535 - v[i]]
Negate(v) == MulAdd(Invert(v), 1, 1)

\* The low limbs of v: v modulo 2^64.
Low64(v) == [i \in 1 .. Limbs64 |-> v[i]]

IsNegative(v) == v[Len(v)] >= 32768

\* The same signed value in n limbs.
SignExtend(v, n) ==
  [i \in 1 .. n |-> IF i <= Len(v) THEN v[i]
                    ELSE IF IsNegative(v) THEN 65535 ELSE 0]
=============================================================================
