-------------------------------- MODULE Alu --------------------------------
(***************************************************************************)
(* The arithmetic of vm.c's exec_add .. exec_cmp, the condition codes they *)
(* leave and the conditions the jumps read.  FLAGS is the set of its set   *)
(* bits, a subset of {"Z", "C", "S", "O"}; an operation takes the operands *)
(* and the old flags and returns the result with the new flags.            *)
(***************************************************************************)
EXTENDS Instruction

Flag == {"Z", "C", "S", "O"}

cpu_get_flag(f, bit) == bit \in f

cpu_set_flag(f, bit, value) == IF value THEN f \cup {bit} ELSE f \ {bit}

\* (int16_t)x.
Signed(x) == IF x >= 32768 THEN x - 65536 ELSE x

\* x & 0x8000.
SignBit(x) == x >= 32768

\* Z and S, which every operation sets from its result.
set_zs(f, result) ==
  cpu_set_flag(cpu_set_flag(f, "Z", result = 0), "S", SignBit(result))

\* C, O, Z and S together.
set_czso(f, c, o, result) ==
  set_zs(cpu_set_flag(cpu_set_flag(f, "C", c), "O", o), result)

Outcome(result, f) == [result |-> result, flags |-> f]

-----------------------------------------------------------------------------
\* Arithmetic.  O of ADD and SUB: bit 15 of the exclusive ors in the source
\* is set exactly when the sign bits of their arguments differ.

\* Mutant: a sum of exactly 0x10000 does not carry.
add_carry_late(a, b, f) ==
  LET result == (a + b) % 65536
  IN  Outcome(result,
        set_czso(f, a + b > 65536,
                 SignBit(a) # SignBit(result) /\ SignBit(b) # SignBit(result),
                 result))

add(a, b, f) ==
  LET result == (a + b) % 65536
  IN  Outcome(result,
        set_czso(f, (a + b) \div 65536 # 0,
                 SignBit(a) # SignBit(result) /\ SignBit(b) # SignBit(result),
                 result))

sub(a, b, f) ==
  LET result == (a - b) % 65536
  IN  Outcome(result,
        set_czso(f, a < b,
                 SignBit(a) # SignBit(b) /\ SignBit(a) # SignBit(result),
                 result))

\* Mutant: the carry out of the low bytes is lost.
high_half_no_carry(a, b) ==
  (a \div 256) * (b \div 256)
    + ((a \div 256) * (b % 256) + (a % 256) * (b \div 256)) \div 256

\* The upper half of the 32-bit product, from the bytes of the operands.
high_half(a, b) ==
  LET ah == a \div 256   al == a % 256
      bh == b \div 256   bl == b % 256
  IN  ah * bh + (ah * bl + al * bh + (al * bl) \div 256) \div 256

mul(a, b, f) ==
  LET signed_product == Signed(a) * Signed(b)
      result == signed_product % 65536     \* = (a * b) % 65536
  IN  Outcome(result,
        set_czso(f, high_half(a, b) # 0,
                 signed_product < -32768 \/ signed_product > 32767,
                 result))

\* Unsigned; the caller has excluded b = 0.  C and O keep their values.
div(a, b, f) == Outcome(a \div b, set_zs(f, a \div b))
mod(a, b, f) == Outcome(a % b, set_zs(f, a % b))

-----------------------------------------------------------------------------
\* Bitwise operations, on the set of one bits.

Pow2 == <<1, 2, 4, 8, 16, 32, 64, 128, 256, 512, 1024, 2048, 4096, 8192,
          16384, 32768, 65536>>

\* Mutant: the top bit is forgotten.
Bits_without_top(x) == {i \in 0 .. 14 : (x \div Pow2[i + 1]) % 2 = 1}

Bits(x) == {i \in 0 .. 15 : (x \div Pow2[i + 1]) % 2 = 1}

\* What bit i adds to the number with the one bits S.
Weight(S, i) == IF i \in S THEN Pow2[i + 1] ELSE 0

FromBits(S) ==
  LET w(i) == Weight(S, i)
  IN  w(0) + w(1) + w(2) + w(3) + w(4) + w(5) + w(6) + w(7)
        + w(8) + w(9) + w(10) + w(11) + w(12) + w(13) + w(14) + w(15)

logic(result, f) == Outcome(result, set_zs(f, result))

and(a, b, f) == logic(FromBits(Bits(a) \cap Bits(b)), f)
or(a, b, f)  == logic(FromBits(Bits(a) \cup Bits(b)), f)
xor(a, b, f) ==
  logic(FromBits((Bits(a) \cup Bits(b)) \ (Bits(a) \cap Bits(b))), f)
not(a, f)    == logic(65535 - a, f)

\* Mutant: a shift by 16 is treated as a shift by more than 16.
shift_left_16(value, n) ==
  IF n = 0 THEN [value |-> value, carry |-> FALSE]
  ELSE IF n >= 16 THEN [value |-> 0, carry |-> FALSE]
  ELSE [value |-> (value * Pow2[n + 1]) % 65536,
        carry |-> (value \div Pow2[16 - n + 1]) % 2 # 0]

\* Shifts by n: the value, and the last bit shifted out.
shift_left(value, n) ==
  IF n = 0 THEN [value |-> value, carry |-> FALSE]
  ELSE IF n > 16 THEN [value |-> 0, carry |-> FALSE]
  ELSE [value |-> IF n = 16 THEN 0 ELSE (value * Pow2[n + 1]) % 65536,
        carry |-> (value \div Pow2[16 - n + 1]) % 2 # 0]

shift_right(value, n) ==
  IF n = 0 THEN [value |-> value, carry |-> FALSE]
  ELSE IF n > 16 THEN [value |-> 0, carry |-> FALSE]
  ELSE [value |-> IF n = 16 THEN 0 ELSE value \div Pow2[n + 1],
        carry |-> (value \div Pow2[n - 1 + 1]) % 2 # 0]

shl(a, n, f) ==
  LET s == shift_left(a, n)
  IN  Outcome(s.value, set_zs(cpu_set_flag(f, "C", s.carry), s.value))

shr(a, n, f) ==
  LET s == shift_right(a, n)
  IN  Outcome(s.value, set_zs(cpu_set_flag(f, "C", s.carry), s.value))

-----------------------------------------------------------------------------
\* Mutant: CMP with the overflow formula of ADD.
cmp_add_overflow(a, b, f) ==
  LET result == (a - b) % 65536
  IN  set_czso(f, a < b,
               SignBit(a) # SignBit(result) /\ SignBit(b) # SignBit(result),
               result)

\* CMP: the flags of SUB, no result.
cmp(a, b, f) ==
  LET result == (a - b) % 65536
  IN  set_czso(f, a < b,
               SignBit(a) # SignBit(b) /\ SignBit(a) # SignBit(result),
               result)

\* Whether a jump with these flags is taken (exec_jmp .. exec_jbe).
JumpTaken(op, f) ==
  LET z == cpu_get_flag(f, "Z")   c == cpu_get_flag(f, "C")
      s == cpu_get_flag(f, "S")   o == cpu_get_flag(f, "O")
  IN  CASE op = OP_JMP -> TRUE
        [] op = OP_JZ  -> z
        [] op = OP_JNZ -> ~z
        [] op = OP_JG  -> ~z /\ s = o
        [] op = OP_JGE -> s = o
        [] op = OP_JL  -> s # o
        [] op = OP_JLE -> z \/ s # o
        [] op = OP_JB  -> c
        [] op = OP_JAE -> ~c
        [] op = OP_JA  -> ~c /\ ~z
        [] op = OP_JBE -> c \/ z
        [] OTHER       -> FALSE
=============================================================================
