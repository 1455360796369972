------------------------------ MODULE AluCheck ------------------------------
(***************************************************************************)
(* The arithmetic of Alu.tla against reference definitions over the        *)
(* integers: a walk over pairs of operands and over the flags an operation *)
(* may find.                                                               *)
(***************************************************************************)
EXTENDS Alu

CONSTANT Samples       \* the operands tried

ASSUME SamplesAssumption == Samples \subseteq Word

VARIABLES a, b, f

Init == a \in Samples /\ b \in Samples /\ f \in {{}, Flag}

Next ==
  \/ a' \in Samples /\ UNCHANGED <<b, f>>
  \/ b' \in Samples /\ UNCHANGED <<a, f>>

Spec == Init /\ [][Next]_<<a, b, f>>

-----------------------------------------------------------------------------
\* CMP followed by a conditional jump decides the order of the operands
\* (DESIGN.md section 5): JG, JGE, JL, JLE as signed, JA, JAE, JB, JBE as
\* unsigned numbers, JZ and JNZ their equality, whatever FLAGS held before
\* (vm.c: exec_cmp and exec_jz .. exec_jbe).
CompareThenJump ==
  LET c == cmp(a, b, f) IN
  /\ JumpTaken(OP_JZ, c)  <=> a = b
  /\ JumpTaken(OP_JNZ, c) <=> a # b
  /\ JumpTaken(OP_JG, c)  <=> Signed(a) > Signed(b)
  /\ JumpTaken(OP_JGE, c) <=> Signed(a) >= Signed(b)
  /\ JumpTaken(OP_JL, c)  <=> Signed(a) < Signed(b)
  /\ JumpTaken(OP_JLE, c) <=> Signed(a) <= Signed(b)
  /\ JumpTaken(OP_JB, c)  <=> a < b
  /\ JumpTaken(OP_JAE, c) <=> a >= b
  /\ JumpTaken(OP_JA, c)  <=> a > b
  /\ JumpTaken(OP_JBE, c) <=> a <= b

\* The flags of ADD and SUB say how the result differs from the exact one:
\* C is the carry or borrow that restores the unsigned value, O is set
\* exactly when the signed value does not fit, and SUB undoes ADD
\* (vm.c: exec_add, exec_sub).
AddSubExact ==
  LET s == add(a, b, f)
      d == sub(a, b, f)
      fits(x) == x >= -32768 /\ x < 32768
  IN  /\ a + b = s.result + (IF "C" \in s.flags THEN 65536 ELSE 0)
      /\ a - b = d.result - (IF "C" \in d.flags THEN 65536 ELSE 0)
      /\ "O" \in s.flags <=> ~fits(Signed(a) + Signed(b))
      /\ "O" \in d.flags <=> ~fits(Signed(a) - Signed(b))
      /\ "O" \notin s.flags => Signed(s.result) = Signed(a) + Signed(b)
      /\ "O" \notin d.flags => Signed(d.result) = Signed(a) - Signed(b)
      /\ sub(s.result, b, f).result = a

\* MUL keeps the low half of the product whether or not it fits; C is set
\* exactly when the unsigned product needs more than 16 bits, and O exactly
\* when the signed product does not fit in 16.  DIV of a product that fits
\* by one factor gives the other one back, and DIV and MOD satisfy the
\* division identity without touching C and O (vm.c: exec_mul, exec_div,
\* exec_mod).
MulDivExact ==
  LET p == mul(a, b, f)
      product == Signed(a) * Signed(b)
      fits(x) == x >= -32768 /\ x < 32768
  IN  /\ p.result = product % 65536
      /\ "O" \in p.flags <=> ~fits(product)
      /\ "C" \in p.flags <=> b # 0 /\ a > 65535 \div b
      /\ b # 0 =>
           /\ "C" \notin p.flags => div(p.result, b, f).result = a
           /\ div(a, b, f).result * b + mod(a, b, f).result = a
           /\ mod(a, b, f).result < b
           /\ div(a, b, f).flags \cap {"C", "O"} = f \cap {"C", "O"}
           /\ mod(a, b, f).flags \cap {"C", "O"} = f \cap {"C", "O"}

\* AND, OR, XOR and NOT agree with addition: a + b is the exclusive or
\* plus twice the carries, OR is XOR plus AND, and De Morgan's law holds
\* (vm.c: exec_and, exec_or, exec_xor, exec_not).
LogicExact ==
  LET n(x) == not(x, f).result IN
  /\ a + b = xor(a, b, f).result + 2 * and(a, b, f).result
  /\ or(a, b, f).result = xor(a, b, f).result + and(a, b, f).result
  /\ n(and(a, b, f).result) = or(n(a), n(b), f).result

\* A shift by b is a shift by b - 1 followed by a shift by 1, for the value
\* and for the carry, at every count: 1, 15, 16 and beyond (DESIGN.md
\* section 8.3; vm.c: shift_left, shift_right); a shift by 1 is doubling
\* and halving.
ShiftsCompose ==
  /\ b # 0 =>
       /\ shift_left(a, b) = shift_left(shift_left(a, b - 1).value, 1)
       /\ shift_right(a, b) = shift_right(shift_right(a, b - 1).value, 1)
  /\ LET l == shift_left(a, 1)
         s == shift_right(a, 1)
     IN  /\ 2 * a = l.value + (IF l.carry THEN 65536 ELSE 0)
         /\ a = 2 * s.value + (IF s.carry THEN 1 ELSE 0)
  /\ shift_left(a, 0).value = a /\ shift_right(a, 0).value = a
=============================================================================
