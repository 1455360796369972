----------------------------- MODULE AluProofs -----------------------------
(***************************************************************************)
(* The order of CMP, the exactness of ADD, SUB, MUL, DIV and MOD, the laws *)
(* of AND, OR, XOR and NOT and of the shifts, for every pair of 16-bit     *)
(* operands and every value of FLAGS.                                      *)
(***************************************************************************)
EXTENDS AluCheck, TLAPS

\* What a flag is after set_czso, whatever it was before.
LEMMA FlagsAfter ==
  ASSUME NEW g, NEW c \in BOOLEAN, NEW o \in BOOLEAN, NEW x
  PROVE  /\ "C" \in set_czso(g, c, o, x) <=> c
         /\ "O" \in set_czso(g, c, o, x) <=> o
         /\ "Z" \in set_czso(g, c, o, x) <=> x = 0
         /\ "S" \in set_czso(g, c, o, x) <=> SignBit(x)
  BY DEF set_czso, set_zs, cpu_set_flag

\* The operands stay words.
LEMMA OperandsAreWords == Spec => [](a \in Word /\ b \in Word)
<1> DEFINE W == a \in Word /\ b \in Word
<1>1. Init => W
  BY SamplesAssumption DEF Init
<1>2. W /\ [Next]_<<a, b, f>> => W'
  BY SamplesAssumption DEF Next
<1> QED
  BY <1>1, <1>2, PTL DEF Spec

\* CMP's flags, read as the difference of the operands.
LEMMA CmpFlags ==
  ASSUME NEW x \in Word, NEW y \in Word, NEW g
  PROVE  /\ "Z" \in cmp(x, y, g) <=> x = y
         /\ "C" \in cmp(x, y, g) <=> x < y
         /\ ("S" \in cmp(x, y, g)) = ("O" \in cmp(x, y, g))
              <=> Signed(x) >= Signed(y)
<1> DEFINE d == (x - y) % 65536
           o == SignBit(x) # SignBit(y) /\ SignBit(x) # SignBit(d)
           c == x < y
<1>1. cmp(x, y, g) = set_czso(g, c, o, d)
  BY DEF cmp
<1>2. /\ "C" \in cmp(x, y, g) <=> c
      /\ "O" \in cmp(x, y, g) <=> o
      /\ "Z" \in cmp(x, y, g) <=> d = 0
      /\ "S" \in cmp(x, y, g) <=> SignBit(d)
  <2> HIDE DEF d, o, c
  <2>1. c \in BOOLEAN /\ o \in BOOLEAN
    BY DEF o, c
  <2> QED
    BY <1>1, <2>1, FlagsAfter
<1>3. x \in Int /\ y \in Int /\ 0 <= x /\ x <= 65535 /\ 0 <= y /\ y <= 65535
  BY DEF Word
<1>4. d = IF x >= y THEN x - y ELSE x - y + 65536
  BY <1>3
<1>5. d = 0 <=> x = y
  BY <1>3, <1>4
<1>6. (SignBit(d) <=> o) <=> Signed(x) >= Signed(y)
  BY <1>3, <1>4 DEF SignBit, Signed
<1> QED
  BY <1>2, <1>5, <1>6

\* CMP and a conditional jump decide the order of every two words
\* (vm.c: exec_cmp, exec_jz .. exec_jbe).
THEOREM CompareThenJumpCorrect == Spec => []CompareThenJump
<1>1. ASSUME a \in Word, b \in Word
      PROVE  CompareThenJump
  <2> DEFINE c == cmp(a, b, f)
  <2>1. /\ "Z" \in c <=> a = b
        /\ "C" \in c <=> a < b
        /\ ("S" \in c) = ("O" \in c) <=> Signed(a) >= Signed(b)
    BY <1>1, CmpFlags
  <2>2. a \in Int /\ b \in Int /\ Signed(a) \in Int /\ Signed(b) \in Int
    BY <1>1 DEF Word, Signed
  <2>3. a = b <=> Signed(a) = Signed(b)
    BY <1>1 DEF Word, Signed
  <2> HIDE DEF c
  <2>4. /\ JumpTaken(OP_JZ, c)  <=> "Z" \in c
        /\ JumpTaken(OP_JNZ, c) <=> "Z" \notin c
        /\ JumpTaken(OP_JG, c)  <=> "Z" \notin c /\ ("S" \in c) = ("O" \in c)
        /\ JumpTaken(OP_JGE, c) <=> ("S" \in c) = ("O" \in c)
        /\ JumpTaken(OP_JL, c)  <=> ("S" \in c) # ("O" \in c)
        /\ JumpTaken(OP_JLE, c) <=> "Z" \in c \/ ("S" \in c) # ("O" \in c)
    BY DEF JumpTaken, cpu_get_flag, OP_JMP, OP_JZ, OP_JNZ, OP_JG, OP_JGE,
           OP_JL, OP_JLE, OP_JB, OP_JAE, OP_JA, OP_JBE
  <2>5. /\ JumpTaken(OP_JB, c)  <=> "C" \in c
        /\ JumpTaken(OP_JAE, c) <=> "C" \notin c
        /\ JumpTaken(OP_JA, c)  <=> "C" \notin c /\ "Z" \notin c
        /\ JumpTaken(OP_JBE, c) <=> "C" \in c \/ "Z" \in c
    BY DEF JumpTaken, cpu_get_flag, OP_JMP, OP_JZ, OP_JNZ, OP_JG, OP_JGE,
           OP_JL, OP_JLE, OP_JB, OP_JAE, OP_JA, OP_JBE
  <2>6. /\ JumpTaken(OP_JZ, c)  <=> a = b
        /\ JumpTaken(OP_JNZ, c) <=> a # b
        /\ JumpTaken(OP_JG, c)  <=> Signed(a) > Signed(b)
        /\ JumpTaken(OP_JGE, c) <=> Signed(a) >= Signed(b)
        /\ JumpTaken(OP_JL, c)  <=> Signed(a) < Signed(b)
        /\ JumpTaken(OP_JLE, c) <=> Signed(a) <= Signed(b)
    BY <2>1, <2>2, <2>3, <2>4
  <2>7. /\ JumpTaken(OP_JB, c)  <=> a < b
        /\ JumpTaken(OP_JAE, c) <=> a >= b
        /\ JumpTaken(OP_JA, c)  <=> a > b
        /\ JumpTaken(OP_JBE, c) <=> a <= b
    BY <2>1, <2>2, <2>5
  <2> QED
    BY <2>6, <2>7 DEF CompareThenJump, c
<1> QED
  BY <1>1, OperandsAreWords, PTL

\* ADD's result and flags, as numbers.
LEMMA AddOutcome ==
  ASSUME NEW x \in Word, NEW y \in Word, NEW g
  PROVE  LET s == add(x, y, g) IN
         /\ s.result = IF x + y < 65536 THEN x + y ELSE x + y - 65536
         /\ "C" \in s.flags <=> x + y >= 65536
         /\ "O" \in s.flags <=> /\ SignBit(x) # SignBit(s.result)
                               /\ SignBit(y) # SignBit(s.result)
<1> DEFINE d == (x + y) % 65536
           o == SignBit(x) # SignBit(d) /\ SignBit(y) # SignBit(d)
           c == (x + y) \div 65536 # 0
<1>1. add(x, y, g) = [result |-> d, flags |-> set_czso(g, c, o, d)]
  BY DEF add, Outcome
<1>2. d = (IF x + y < 65536 THEN x + y ELSE x + y - 65536)
  BY DEF Word
<1>3. c <=> x + y >= 65536
  BY DEF Word
<1>4. c \in BOOLEAN /\ o \in BOOLEAN
  OBVIOUS
<1> HIDE DEF d, c
<1>5. /\ "C" \in set_czso(g, c, o, d) <=> c
      /\ "O" \in set_czso(g, c, o, d) <=> o
  BY <1>4, FlagsAfter
<1> QED
  BY <1>1, <1>2, <1>3, <1>5

\* SUB's result and flags, as numbers.
LEMMA SubOutcome ==
  ASSUME NEW x \in Word, NEW y \in Word, NEW g
  PROVE  LET s == sub(x, y, g) IN
         /\ s.result = IF x < y THEN x - y + 65536 ELSE x - y
         /\ "C" \in s.flags <=> x < y
         /\ "O" \in s.flags <=> /\ SignBit(x) # SignBit(y)
                               /\ SignBit(x) # SignBit(s.result)
<1> DEFINE d == (x - y) % 65536
           o == SignBit(x) # SignBit(y) /\ SignBit(x) # SignBit(d)
           c == x < y
<1>1. sub(x, y, g) = [result |-> d, flags |-> set_czso(g, c, o, d)]
  BY DEF sub, Outcome
<1>2. d = (IF x < y THEN x - y + 65536 ELSE x - y)
  BY DEF Word
<1>3. c \in BOOLEAN /\ o \in BOOLEAN
  OBVIOUS
<1> HIDE DEF d, c
<1>4. /\ "C" \in set_czso(g, c, o, d) <=> c
      /\ "O" \in set_czso(g, c, o, d) <=> o
  BY <1>3, FlagsAfter
<1> QED
  BY <1>1, <1>2, <1>4 DEF c

\* ADD and SUB are exact up to the carry and overflow they report, for
\* every two words (vm.c: exec_add, exec_sub).
THEOREM AddSubCorrect == Spec => []AddSubExact
<1>1. ASSUME a \in Word, b \in Word
      PROVE  AddSubExact
  <2> DEFINE s == add(a, b, f)
             d == sub(a, b, f)
  <2>1. /\ s.result = IF a + b < 65536 THEN a + b ELSE a + b - 65536
        /\ "C" \in s.flags <=> a + b >= 65536
        /\ "O" \in s.flags <=> /\ SignBit(a) # SignBit(s.result)
                              /\ SignBit(b) # SignBit(s.result)
    BY <1>1, AddOutcome
  <2>2. /\ d.result = IF a < b THEN a - b + 65536 ELSE a - b
        /\ "C" \in d.flags <=> a < b
        /\ "O" \in d.flags <=> /\ SignBit(a) # SignBit(b)
                              /\ SignBit(a) # SignBit(d.result)
    BY <1>1, SubOutcome
  <2>3. s.result \in Word /\ d.result \in Word
    BY <1>1, <2>1, <2>2 DEF Word
  <2>4. sub(s.result, b, f).result = a
    <3>1. sub(s.result, b, f).result
            = IF s.result < b THEN s.result - b + 65536 ELSE s.result - b
      BY <1>1, <2>3, SubOutcome
    <3> QED
      BY <1>1, <2>1, <2>3, <3>1 DEF Word
  <2> HIDE DEF s, d
  <2>5. /\ a + b = s.result + (IF "C" \in s.flags THEN 65536 ELSE 0)
        /\ a - b = d.result - (IF "C" \in d.flags THEN 65536 ELSE 0)
    BY <1>1, <2>1, <2>2, <2>3 DEF Word
  <2>6. /\ "O" \in s.flags <=> ~(/\ Signed(a) + Signed(b) >= -32768
                                /\ Signed(a) + Signed(b) < 32768)
        /\ "O" \notin s.flags => Signed(s.result) = Signed(a) + Signed(b)
    BY <1>1, <2>1, <2>3 DEF Word, SignBit, Signed
  <2>7. /\ "O" \in d.flags <=> ~(/\ Signed(a) - Signed(b) >= -32768
                                /\ Signed(a) - Signed(b) < 32768)
        /\ "O" \notin d.flags => Signed(d.result) = Signed(a) - Signed(b)
    BY <1>1, <2>2, <2>3 DEF Word, SignBit, Signed
  <2> QED
    BY <2>4, <2>5, <2>6, <2>7 DEF AddSubExact, s, d
<1> QED
  BY <1>1, OperandsAreWords, PTL
\* The table of the powers of two, entry by entry.
LEMMA PowerValues ==
  /\ Pow2[1] = 1 /\ Pow2[2] = 2 /\ Pow2[3] = 4 /\ Pow2[4] = 8
  /\ Pow2[5] = 16 /\ Pow2[6] = 32 /\ Pow2[7] = 64 /\ Pow2[8] = 128
  /\ Pow2[9] = 256 /\ Pow2[10] = 512 /\ Pow2[11] = 1024 /\ Pow2[12] = 2048
  /\ Pow2[13] = 4096 /\ Pow2[14] = 8192 /\ Pow2[15] = 16384
  /\ Pow2[16] = 32768 /\ Pow2[17] = 65536
  BY DEF Pow2

\* p and q are 2^(n-1) and 2^(16-n) for some shift count n.
Halves(p, q) == p * q = 32768
\* The last bit that x loses in a shift left is the top bit of the word
\* before the last shift by one.
ShiftedBit(x, p, q) ==
  (((x * p) % 65536) \div 32768) % 2 = (x \div q) % 2

\* Neighbouring entries of the table double, opposite ones halve a word.
LEMMA Powers ==
  ASSUME NEW n \in 1 .. 16
  PROVE  /\ Pow2[n] \in Nat /\ Pow2[n] > 0 /\ Pow2[n + 1] = 2 * Pow2[n]
         /\ Pow2[17 - n] \in Nat /\ Pow2[17 - n] > 0
         /\ Halves(Pow2[n], Pow2[17 - n])
<1>1. CASE n \in 1 .. 4
  BY <1>1, PowerValues DEF Halves
<1>2. CASE n \in 5 .. 8
  BY <1>2, PowerValues DEF Halves
<1>3. CASE n \in 9 .. 12
  BY <1>3, PowerValues DEF Halves
<1>4. CASE n \in 13 .. 16
  BY <1>4, PowerValues DEF Halves
<1> QED
  BY <1>1, <1>2, <1>3, <1>4

\* Quotient and remainder of naturals.
LEMMA DivMod ==
  ASSUME NEW x \in Nat, NEW y \in Nat, y > 0
  PROVE  /\ x \div y \in Nat /\ x % y \in Nat /\ x % y < y
         /\ x = (x \div y) * y + (x % y)
  OBVIOUS

\* A product grows with its factor.
LEMMA Times ==
  ASSUME NEW x \in Nat, NEW y \in Nat, NEW z \in Nat, x <= y
  PROVE  x * z \in Nat /\ x * z <= y * z
  OBVIOUS

\* The carry of a shift left by n, read from x or from x shifted by n - 1.
LEMMA ShiftedOut ==
  ASSUME NEW x \in Nat, NEW p \in Nat, NEW q \in Nat, p > 0, q > 0,
         Halves(p, q)
  PROVE  ShiftedBit(x, p, q)
<1> DEFINE t == x \div q
           s == x % q
           w == s * p
<1>1. t \in Nat /\ s \in Nat /\ s <= q - 1 /\ q - 1 \in Nat /\ x = t * q + s
  BY DivMod
<1> HIDE DEF t, s
<1>2. w \in Nat /\ w <= (q - 1) * p
  BY <1>1, Times
<1>3. (q - 1) * p = 32768 - p
  BY DEF Halves
<1>4. x * p = 32768 * t + w
  BY <1>1 DEF Halves
<1> HIDE DEF w
<1>5. (((32768 * t + w) % 65536) \div 32768) % 2 = t % 2
  BY <1>1, <1>2, <1>3
<1> QED
  BY <1>4, <1>5 DEF ShiftedBit, t

\* Doubling a wrapped number wraps like doubling the number.
LEMMA DoubleWraps ==
  ASSUME NEW u \in Nat
  PROVE  (2 * u) % 65536 = (2 * (u % 65536)) % 65536
  OBVIOUS

\* Dividing by p and then by 2 divides by 2p.
LEMMA HalvesCompose ==
  ASSUME NEW x \in Nat, NEW p \in Nat, p > 0
  PROVE  x \div (2 * p) = (x \div p) \div 2
<1> DEFINE t == x \div p
           s == x % p
           h == t \div 2
           r == t % 2
<1>1. t \in Nat /\ s \in Nat /\ s < p /\ x = t * p + s
  BY DivMod
<1> HIDE DEF t, s
<1>2. h \in Nat /\ r \in Nat /\ r <= 1 /\ t = 2 * h + r
  BY <1>1
<1> HIDE DEF h, r
<1> DEFINE w == r * p + s
<1>3. x = h * (2 * p) + w
  BY <1>1, <1>2
<1>4. w \in Nat /\ w < 2 * p
  <2>1. r * p \in Nat /\ r * p <= 1 * p
    BY <1>2, Times
  <2> QED
    BY <1>1, <2>1
<1> HIDE DEF w
<1>5. x \div (2 * p) = h
  BY <1>2, <1>3, <1>4
<1> QED
  BY <1>5 DEF h, t

\* A shift left by one.
LEMMA LeftOne ==
  ASSUME NEW x
  PROVE  shift_left(x, 1) = [value |-> (x * 2) % 65536,
                             carry |-> (x \div 32768) % 2 # 0]
  BY PowerValues DEF shift_left

\* A shift right by one.
LEMMA RightOne ==
  ASSUME NEW x
  PROVE  shift_right(x, 1) = [value |-> x \div 2, carry |-> (x \div 1) % 2 # 0]
  BY PowerValues DEF shift_right

\* What shift_left leaves, the counts 0 and 16 of its special cases included.
LEMMA LeftValue ==
  ASSUME NEW x \in Word, NEW n \in 0 .. 16
  PROVE  shift_left(x, n).value = (x * Pow2[n + 1]) % 65536
<1>1. CASE n = 0
  BY <1>1, PowerValues DEF shift_left, Word
<1>2. CASE n = 16
  BY <1>2, PowerValues DEF shift_left, Word
<1>3. CASE n # 0 /\ n # 16
  BY <1>3 DEF shift_left
<1> QED
  BY <1>1, <1>2, <1>3

\* A shift left by n is one by n - 1 followed by one by 1, carry included.
LEMMA LeftComposes ==
  ASSUME NEW x \in Word, NEW n \in Word, n # 0
  PROVE  shift_left(x, n) = shift_left(shift_left(x, n - 1).value, 1)
<1> DEFINE y == shift_left(x, n - 1).value
<1>1. CASE n <= 16
  <2> DEFINE p == Pow2[n]
             q == Pow2[17 - n]
             u == x * p
  <2>1. /\ n \in 1 .. 16 /\ n - 1 \in 0 .. 16
        /\ (n - 1) + 1 = n /\ 16 - n + 1 = 17 - n
    BY <1>1 DEF Word
  <2>2. /\ p \in Nat /\ p > 0 /\ Pow2[n + 1] = 2 * p
        /\ q \in Nat /\ q > 0 /\ Halves(p, q)
    BY <2>1, Powers
  <2> HIDE DEF p, q
  <2>3. u \in Nat /\ x \in Nat /\ x * (2 * p) = 2 * u
    BY <2>2 DEF Word
  <2>4. y = u % 65536
    BY <2>1, LeftValue DEF p
  <2>5. shift_left(x, n).value = (2 * u) % 65536
    <3>1. shift_left(x, n).value = (x * Pow2[n + 1]) % 65536
      BY <2>1, LeftValue
    <3> QED
      BY <2>2, <2>3, <3>1
  <2>6. shift_left(x, n) = [value |-> (2 * u) % 65536,
                            carry |-> (x \div q) % 2 # 0]
    <3>1. shift_left(x, n) = [value |-> shift_left(x, n).value,
                              carry |-> (x \div q) % 2 # 0]
      BY <2>1 DEF shift_left, q
    <3> QED
      BY <2>5, <3>1
  <2>7. shift_left(y, 1) = [value |-> (y * 2) % 65536,
                            carry |-> (y \div 32768) % 2 # 0]
    BY LeftOne
  <2>8. (y \div 32768) % 2 = (x \div q) % 2
    <3>1. ShiftedBit(x, p, q)
      <4> HIDE DEF u
      <4> QED
        BY <2>2, <2>3, ShiftedOut
    <3> HIDE DEF y
    <3> QED
      BY <2>4, <3>1 DEF ShiftedBit
  <2>9. (y * 2) % 65536 = (2 * u) % 65536
    <3> HIDE DEF u, y
    <3>1. y * 2 = 2 * (u % 65536)
      BY <2>3, <2>4
    <3> QED
      BY <2>3, <3>1, DoubleWraps
  <2> HIDE DEF u, y
  <2>10. shift_left(x, n) = shift_left(y, 1)
    BY <2>6, <2>7, <2>8, <2>9
  <2> QED
    BY <2>10 DEF y
<1>2. CASE n > 16
  <2>1. shift_left(x, n) = [value |-> 0, carry |-> FALSE]
    BY <1>2 DEF shift_left, Word
  <2>2. y = 0
    BY <1>2 DEF shift_left, Word
  <2> HIDE DEF y
  <2>3. shift_left(y, 1) = [value |-> (y * 2) % 65536,
                            carry |-> (y \div 32768) % 2 # 0]
    BY LeftOne
  <2>4. (y * 2) % 65536 = 0 /\ ((y \div 32768) % 2 # 0) = FALSE
    BY <2>2
  <2>5. shift_left(x, n) = shift_left(y, 1)
    <3> DEFINE v == (y * 2) % 65536
               c == (y \div 32768) % 2 # 0
    <3>1. shift_left(y, 1) = [value |-> v, carry |-> c] /\ v = 0 /\ c = FALSE
      BY <2>3, <2>4
    <3> HIDE DEF v, c
    <3> QED
      BY <2>1, <3>1
  <2> QED
    BY <2>5 DEF y
<1> QED
  BY <1>1, <1>2 DEF Word

\* What shift_right leaves, the counts 0 and 16 included.
LEMMA RightValue ==
  ASSUME NEW x \in Word, NEW n \in 0 .. 16
  PROVE  shift_right(x, n).value = x \div Pow2[n + 1]
<1>1. CASE n = 0
  BY <1>1, PowerValues DEF shift_right, Word
<1>2. CASE n = 16
  BY <1>2, PowerValues DEF shift_right, Word
<1>3. CASE n # 0 /\ n # 16
  BY <1>3 DEF shift_right
<1> QED
  BY <1>1, <1>2, <1>3

\* A shift right by n is one by n - 1 followed by one by 1, carry included.
LEMMA RightComposes ==
  ASSUME NEW x \in Word, NEW n \in Word, n # 0
  PROVE  shift_right(x, n) = shift_right(shift_right(x, n - 1).value, 1)
<1> DEFINE y == shift_right(x, n - 1).value
<1>1. CASE n <= 16
  <2> DEFINE p == Pow2[n]
  <2>1. /\ n \in 1 .. 16 /\ n - 1 \in 0 .. 16 /\ (n - 1) + 1 = n
        /\ n - 1 + 1 = n /\ n \in 0 .. 16
    BY <1>1 DEF Word
  <2>2. p \in Nat /\ p > 0 /\ Pow2[n + 1] = 2 * p /\ x \in Nat
    BY <2>1, Powers DEF Word
  <2>3. y = x \div p
    BY <2>1, RightValue
  <2>4. shift_right(x, n).value = x \div (2 * p)
    BY <2>1, <2>2, RightValue
  <2> HIDE DEF p
  <2>5. shift_right(x, n) = [value |-> x \div (2 * p),
                             carry |-> (x \div p) % 2 # 0]
    <3>1. shift_right(x, n) = [value |-> shift_right(x, n).value,
                               carry |-> (x \div p) % 2 # 0]
      BY <2>1 DEF shift_right, p
    <3> QED
      BY <2>4, <3>1
  <2> HIDE DEF y
  <2>6. shift_right(y, 1) = [value |-> y \div 2, carry |-> (y \div 1) % 2 # 0]
    BY RightOne
  <2>7. x \div p \in Nat /\ x \div (2 * p) = (x \div p) \div 2
    BY <2>2, HalvesCompose, DivMod
  <2>8. y \in Nat /\ y \div 1 = y
    BY <2>3, <2>7
  <2>9. shift_right(x, n) = shift_right(y, 1)
    BY <2>3, <2>5, <2>6, <2>7, <2>8
  <2> QED
    BY <2>9 DEF y
<1>2. CASE n > 16
  <2>1. shift_right(x, n) = [value |-> 0, carry |-> FALSE]
    BY <1>2 DEF shift_right, Word
  <2>2. y = 0
    BY <1>2 DEF shift_right, Word
  <2> HIDE DEF y
  <2>3. shift_right(y, 1) = [value |-> y \div 2, carry |-> (y \div 1) % 2 # 0]
    BY RightOne
  <2>4. y \div 2 = 0 /\ ((y \div 1) % 2 # 0) = FALSE
    BY <2>2
  <2>5. shift_right(x, n) = shift_right(y, 1)
    <3> DEFINE v == y \div 2
               c == (y \div 1) % 2 # 0
    <3>1. shift_right(y, 1) = [value |-> v, carry |-> c] /\ v = 0 /\ c = FALSE
      BY <2>3, <2>4
    <3> HIDE DEF v, c
    <3> QED
      BY <2>1, <3>1
  <2> QED
    BY <2>5 DEF y
<1> QED
  BY <1>1, <1>2 DEF Word

\* SHL and SHR (vm.c: shift_left, shift_right) by any count of a register
\* are repeated shifts by one: the special cases 0, 16 and above 16 agree with
\* the general one, and the carry is the last bit shifted out.
THEOREM ShiftsCorrect == Spec => []ShiftsCompose
<1>1. ASSUME a \in Word, b \in Word
      PROVE  ShiftsCompose
  <2>1. b # 0 =>
          /\ shift_left(a, b) = shift_left(shift_left(a, b - 1).value, 1)
          /\ shift_right(a, b) = shift_right(shift_right(a, b - 1).value, 1)
    BY <1>1, LeftComposes, RightComposes
  <2> DEFINE l == shift_left(a, 1)
             s == shift_right(a, 1)
             lc == (a \div 32768) % 2 # 0
             sc == (a \div 1) % 2 # 0
  <2>2. /\ 2 * a = ((a * 2) % 65536) + (IF lc THEN 65536 ELSE 0)
        /\ a = 2 * (a \div 2) + (IF sc THEN 1 ELSE 0)
    BY <1>1 DEF Word
  <2> DEFINE lv == (a * 2) % 65536
             sv == a \div 2
  <2>3. /\ l = [value |-> lv, carry |-> lc]
        /\ s = [value |-> sv, carry |-> sc]
    BY LeftOne, RightOne
  <2>4. l.value = lv /\ l.carry = lc /\ s.value = sv /\ s.carry = sc
    <3> HIDE DEF l, s, lc, sc, lv, sv
    <3> QED
      BY <2>3, Zenon
  <2> HIDE DEF lc, sc
  <2> HIDE DEF l, s
  <2>5. 2 * a = l.value + (IF l.carry THEN 65536 ELSE 0)
    BY <2>2, <2>4
  <2>6. a = 2 * s.value + (IF s.carry THEN 1 ELSE 0)
    BY <2>2, <2>4
  <2>7. shift_left(a, 0).value = a /\ shift_right(a, 0).value = a
    BY DEF shift_left, shift_right
  <2> QED
    BY <2>1, <2>5, <2>6, <2>7 DEF ShiftsCompose, l, s
<1> QED
  BY <1>1, OperandsAreWords, PTL
\* high_half computes the upper half of the product.
LEMMA HighHalf ==
  ASSUME NEW x \in Nat, NEW y \in Nat
  PROVE  high_half(x, y) = (x * y) \div 65536
<1> DEFINE xh == x \div 256
           xl == x % 256
           yh == y \div 256
           yl == y % 256
<1>1. /\ xh \in Nat /\ xl \in Nat /\ x = 256 * xh + xl
      /\ yh \in Nat /\ yl \in Nat /\ y = 256 * yh + yl
  OBVIOUS
<1>2. high_half(x, y)
        = xh * yh + (xh * yl + xl * yh + (xl * yl) \div 256) \div 256
  BY DEF high_half
<1> HIDE DEF xh, xl, yh, yl
<1> DEFINE p == xh * yh
           q == xh * yl
           r == xl * yh
           s == xl * yl
<1>3. x * y = 65536 * p + 256 * (q + r) + s
  BY <1>1
<1>4. p \in Nat /\ q \in Nat /\ r \in Nat /\ s \in Nat
  BY <1>1
<1>5. high_half(x, y) = p + (q + r + s \div 256) \div 256
  BY <1>2
<1> HIDE DEF p, q, r, s
<1>6. (65536 * p + 256 * (q + r) + s) \div 65536
        = p + (q + r + s \div 256) \div 256
  BY <1>4
<1> QED
  BY <1>3, <1>5, <1>6

\* Whether a product needs more than 16 bits, read from one factor.
Overflows(x, y) == (x * y) \div 65536 # 0 <=> x > 65535 \div y

LEMMA TooLarge ==
  ASSUME NEW x \in Nat, NEW y \in Nat, y > 0
  PROVE  Overflows(x, y)
<1> DEFINE m == 65535 \div y
           r == 65535 % y
           w == x * y
<1>1. m \in Nat /\ r \in Nat /\ r < y /\ 65535 = m * y + r
  BY DivMod
<1>2. w \in Nat
  OBVIOUS
<1> HIDE DEF m, r
<1>3. CASE x > m
  <2>1. (m + 1) * y <= w
    BY <1>1, <1>3, Times
  <2>2. (m + 1) * y = m * y + y
    BY <1>1
  <2> DEFINE k == m * y
  <2>3. k \in Nat /\ k + y <= w /\ 65535 = k + r
    BY <1>1, <2>1, <2>2
  <2> HIDE DEF k, w
  <2>4. w \div 65536 # 0
    BY <1>1, <1>2, <2>3
  <2> QED
    BY <1>3, <2>4 DEF Overflows, m, w
<1>4. CASE ~(x > m)
  <2> DEFINE k == m * y
  <2>1. k \in Nat /\ w <= k /\ 65535 = k + r
    BY <1>1, <1>4, Times
  <2> HIDE DEF k, w
  <2>2. w \div 65536 = 0
    BY <1>1, <1>2, <2>1
  <2> QED
    BY <1>4, <2>2 DEF Overflows, m, w
<1> QED
  BY <1>3, <1>4

\* The signed and the unsigned product agree in their low half.
SameLowHalf(x, y) == (Signed(x) * Signed(y)) % 65536 = (x * y) % 65536

LEMMA WholeTurns ==
  ASSUME NEW w \in Int, NEW k \in Int
  PROVE  (w + 65536 * k) % 65536 = w % 65536
  OBVIOUS

LEMMA LowHalf ==
  ASSUME NEW x \in Word, NEW y \in Word
  PROVE  /\ SameLowHalf(x, y) /\ Signed(x) * Signed(y) \in Int
<1>1. x \in Int /\ y \in Int /\ x * y \in Int
  BY DEF Word
<1>2. PICK i \in {0, 1} : Signed(x) = x - 65536 * i
  BY <1>1 DEF Signed
<1>3. PICK j \in {0, 1} : Signed(y) = y - 65536 * j
  BY <1>1 DEF Signed
<1> DEFINE k == 65536 * i * j - x * j - y * i
<1>4. k \in Int /\ (x - 65536 * i) * (y - 65536 * j) = x * y + 65536 * k
  <2>1. CASE i = 0
    BY <1>1, <2>1
  <2>2. CASE i = 1
    BY <1>1, <2>2
  <2> QED
    BY <2>1, <2>2
<1> HIDE DEF k
<1> DEFINE w == x * y
<1>5. w \in Int /\ Signed(x) * Signed(y) = w + 65536 * k
  BY <1>1, <1>2, <1>3, <1>4
<1> HIDE DEF w
<1>6. (w + 65536 * k) % 65536 = w % 65536
  BY <1>4, <1>5, WholeTurns
<1> QED
  BY <1>4, <1>5, <1>6 DEF SameLowHalf, w

\* A product divided by a factor is the other factor.
LEMMA Undone ==
  ASSUME NEW x \in Nat, NEW y \in Nat, y > 0
  PROVE  (x * y) \div y = x
  OBVIOUS

\* The parts of an outcome that sets all four flags.
LEMMA OutcomeParts ==
  ASSUME NEW r, NEW g, NEW c \in BOOLEAN, NEW o \in BOOLEAN, NEW m,
         m = Outcome(r, set_czso(g, c, o, r))
  PROVE  /\ m.result = r
         /\ "C" \in m.flags <=> c
         /\ "O" \in m.flags <=> o
<1>1. m.result = r /\ m.flags = set_czso(g, c, o, r)
  BY DEF Outcome
<1> QED
  BY <1>1, FlagsAfter

\* The flags and the result of MUL.
LEMMA MulOutcome ==
  ASSUME NEW x \in Word, NEW y \in Word, NEW g
  PROVE  /\ mul(x, y, g).result = (x * y) % 65536
         /\ "C" \in mul(x, y, g).flags <=> y # 0 /\ x > 65535 \div y
         /\ "O" \in mul(x, y, g).flags
              <=> \/ Signed(x) * Signed(y) < -32768
                  \/ Signed(x) * Signed(y) > 32767
<1> DEFINE p == Signed(x) * Signed(y)
           c == high_half(x, y) # 0
           o == p < -32768 \/ p > 32767
           r == p % 65536
<1>1. mul(x, y, g) = Outcome(r, set_czso(g, c, o, r))
  BY DEF mul
<1>2. c <=> y # 0 /\ x > 65535 \div y
  <2>1. x \in Nat /\ y \in Nat
    BY DEF Word
  <2> DEFINE u == (x * y) \div 65536
             m == 65535 \div y
  <2>2. high_half(x, y) = u
    BY <2>1, HighHalf
  <2>3. u # 0 <=> y # 0 /\ x > m
    <3>1. CASE y = 0
      <4>1. x * y = 0
        BY <2>1, <3>1
      <4> QED
        BY <3>1, <4>1
    <3>2. CASE y # 0
      <4>1. y > 0
        BY <2>1, <3>2
      <4>2. Overflows(x, y)
        BY <2>1, <4>1, TooLarge
      <4> QED
        BY <3>2, <4>2 DEF Overflows
    <3> QED
      BY <3>1, <3>2
  <2> HIDE DEF u, m
  <2>4. c <=> y # 0 /\ x > m
    BY <2>2, <2>3
  <2> QED
    BY <2>4 DEF m
<1>3. r = (x * y) % 65536
  BY LowHalf DEF SameLowHalf
<1>4. /\ mul(x, y, g).result = r
      /\ "C" \in mul(x, y, g).flags <=> c
      /\ "O" \in mul(x, y, g).flags <=> o
  <2>1. c \in BOOLEAN /\ o \in BOOLEAN
    OBVIOUS
  <2> DEFINE m == mul(x, y, g)
  <2> HIDE DEF c, o, r, m
  <2>2. m = Outcome(r, set_czso(g, c, o, r))
    BY <1>1 DEF m
  <2>3. m.result = r /\ ("C" \in m.flags <=> c) /\ ("O" \in m.flags <=> o)
    BY <2>1, <2>2, OutcomeParts
  <2> QED
    BY <2>3 DEF m
<1>5. /\ mul(x, y, g).result = r
      /\ "C" \in mul(x, y, g).flags <=> y # 0 /\ x > 65535 \div y
  <2> DEFINE v == y # 0 /\ x > 65535 \div y
  <2>1. c <=> v
    BY <1>2
  <2> HIDE DEF c, v, r, o
  <2>2. /\ mul(x, y, g).result = r
        /\ "C" \in mul(x, y, g).flags <=> v
    BY <1>4, <2>1, Zenon
  <2> QED
    BY <2>2 DEF v
<1>6. mul(x, y, g).result = (x * y) % 65536
  <2> HIDE DEF r
  <2> QED
    BY <1>3, <1>5
<1> QED
  BY <1>4, <1>5, <1>6

\* DIV and MOD keep C and O.
LEMMA QuotientFlags ==
  ASSUME NEW x, NEW y, NEW g
  PROVE  /\ div(x, y, g).result = x \div y
         /\ mod(x, y, g).result = x % y
         /\ div(x, y, g).flags \cap {"C", "O"} = g \cap {"C", "O"}
         /\ mod(x, y, g).flags \cap {"C", "O"} = g \cap {"C", "O"}
<1>1. div(x, y, g).result = x \div y
  BY DEF div, Outcome
<1>2. mod(x, y, g).result = x % y
  BY DEF mod, Outcome
<1> DEFINE q == x \div y
           m == x % y
<1>3. div(x, y, g).flags = set_zs(g, q) /\ mod(x, y, g).flags = set_zs(g, m)
  BY DEF div, mod, Outcome
<1> HIDE DEF q, m
<1>4. /\ set_zs(g, q) \cap {"C", "O"} = g \cap {"C", "O"}
      /\ set_zs(g, m) \cap {"C", "O"} = g \cap {"C", "O"}
  BY DEF set_zs, cpu_set_flag
<1> QED
  BY <1>1, <1>2, <1>3, <1>4

\* MUL, DIV and MOD (vm.c: exec_mul, exec_div, exec_mod) on all words: the
\* result of MUL is the product modulo 2^16 whatever the flags say, C is set
\* if and only if the unsigned product does not fit and O if and only if the
\* signed one does not, a product that fits is undone by DIV, and DIV and MOD
\* divide with remainder and keep C and O.
THEOREM MulDivCorrect == Spec => []MulDivExact
<1>1. ASSUME a \in Word, b \in Word
      PROVE  MulDivExact
  <2> DEFINE p == mul(a, b, f)
             w == a * b
             s == Signed(a) * Signed(b)
             r == p.result
             c == b # 0 /\ a > 65535 \div b
             fits == s >= -32768 /\ s < 32768
             keeps(x) == x \cap {"C", "O"} = f \cap {"C", "O"}
             divides == /\ "C" \notin p.flags => div(r, b, f).result = a
                        /\ div(a, b, f).result * b + mod(a, b, f).result = a
                        /\ mod(a, b, f).result < b
                        /\ keeps(div(a, b, f).flags)
                        /\ keeps(mod(a, b, f).flags)
  <2>1. a \in Nat /\ b \in Nat /\ w \in Nat
    BY <1>1 DEF Word
  <2>2. /\ r = w % 65536
        /\ "C" \in p.flags <=> c
        /\ "O" \in p.flags <=> s < -32768 \/ s > 32767
    BY <1>1, MulOutcome
  <2>3. s \in Int /\ s % 65536 = w % 65536
    BY <1>1, LowHalf DEF SameLowHalf
  <2>4. r = s % 65536
    <3> HIDE DEF w, s, r
    <3> QED
      BY <2>2, <2>3
  <2>5. "O" \in p.flags <=> ~fits
    <3>1. fits <=> ~(s < -32768 \/ s > 32767)
      <4> HIDE DEF s
      <4> QED
        BY <2>3
    <3> HIDE DEF fits, s, p
    <3> QED
      BY <2>2, <3>1
  <2>6. ASSUME b # 0 PROVE divides
    <3>1. b > 0
      BY <2>1, <2>6
    <3>2. ASSUME "C" \notin p.flags PROVE div(r, b, f).result = a
      <4>1. ~(a > 65535 \div b)
        BY <2>2, <2>6, <3>2
      <4>2. w \div 65536 = 0
        BY <2>1, <3>1, <4>1, TooLarge DEF Overflows
      <4>3. w \div b = a
        BY <2>1, <3>1, Undone
      <4> HIDE DEF w, r
      <4>4. r = w
        BY <2>1, <2>2, <4>2
      <4> QED
        BY <4>3, <4>4, QuotientFlags
    <3>3. /\ div(a, b, f).result * b + mod(a, b, f).result = a
          /\ mod(a, b, f).result < b
      <4>1. /\ div(a, b, f).result = a \div b
            /\ mod(a, b, f).result = a % b
        BY QuotientFlags
      <4>2. (a \div b) * b + (a % b) = a /\ a % b < b
        BY <2>1, <3>1, DivMod
      <4> QED
        BY <4>1, <4>2
    <3>4. keeps(div(a, b, f).flags) /\ keeps(mod(a, b, f).flags)
      BY QuotientFlags
    <3> QED
      BY <3>2, <3>3, <3>4
  <2>7. /\ r = s % 65536
        /\ "O" \in p.flags <=> ~fits
        /\ "C" \in p.flags <=> c
        /\ b # 0 => divides
    <3> HIDE DEF divides, c, fits, r, s
    <3> QED
      BY <2>2, <2>4, <2>5, <2>6
  <2> QED
    BY <2>7, SMTT(30) DEF MulDivExact
<1> QED
  BY <1>1, OperandsAreWords, PTL

\* The weight of a bit is a number.
LEMMA WeightNat ==
  ASSUME NEW S, NEW i \in 0 .. 15
  PROVE  Weight(S, i) \in Nat
<1>1. i + 1 \in 1 .. 16
  OBVIOUS
<1> QED
  BY <1>1, Powers DEF Weight

\* A number from the weights of its bits, in two halves.
LowBits(S) ==
  Weight(S, 0) + Weight(S, 1) + Weight(S, 2) + Weight(S, 3)
    + Weight(S, 4) + Weight(S, 5) + Weight(S, 6) + Weight(S, 7)
HighBits(S) ==
  Weight(S, 8) + Weight(S, 9) + Weight(S, 10) + Weight(S, 11)
    + Weight(S, 12) + Weight(S, 13) + Weight(S, 14) + Weight(S, 15)

LEMMA WeightsSum ==
  ASSUME NEW S
  PROVE  /\ LowBits(S) \in Nat /\ HighBits(S) \in Nat
         /\ FromBits(S) = LowBits(S) + HighBits(S)
<1> DEFINE w(i) == Weight(S, i)
<1>1. /\ w(0) \in Nat /\ w(1) \in Nat /\ w(2) \in Nat /\ w(3) \in Nat
      /\ w(4) \in Nat /\ w(5) \in Nat /\ w(6) \in Nat /\ w(7) \in Nat
  BY WeightNat
<1>2. /\ w(8) \in Nat /\ w(9) \in Nat /\ w(10) \in Nat /\ w(11) \in Nat
      /\ w(12) \in Nat /\ w(13) \in Nat /\ w(14) \in Nat /\ w(15) \in Nat
  BY WeightNat
<1>3. FromBits(S) = w(0) + w(1) + w(2) + w(3) + w(4) + w(5) + w(6) + w(7)
        + w(8) + w(9) + w(10) + w(11) + w(12) + w(13) + w(14) + w(15)
  BY DEF FromBits
<1>4. LowBits(S) = w(0) + w(1) + w(2) + w(3) + w(4) + w(5) + w(6) + w(7)
  BY DEF LowBits
<1>5. HighBits(S) = w(8) + w(9) + w(10) + w(11) + w(12) + w(13) + w(14) + w(15)
  BY DEF HighBits
<1> HIDE DEF w
<1> QED
  BY <1>1, <1>2, <1>3, <1>4, <1>5

\* x without its bits below bit i.
From(x, i) == Pow2[i + 1] * (x \div Pow2[i + 1])

\* Bit i of x is what x has from bit i on and not from bit i + 1 on.
LEMMA BitWeight ==
  ASSUME NEW x \in Nat, NEW i \in 0 .. 15
  PROVE  /\ From(x, i) \in Nat /\ From(x, i + 1) \in Nat
         /\ Weight(Bits(x), i) = From(x, i) - From(x, i + 1)
<1> DEFINE p == Pow2[i + 1]
           t == x \div p
<1>1. i + 1 \in 1 .. 16 /\ p \in Nat /\ p > 0 /\ Pow2[(i + 1) + 1] = 2 * p
  <2>1. i + 1 \in 1 .. 16
    OBVIOUS
  <2> QED
    BY <2>1, Powers
<1>2. i \in Bits(x) <=> t % 2 = 1
  BY DEF Bits
<1>3. Weight(Bits(x), i) = IF t % 2 = 1 THEN p ELSE 0
  BY <1>2 DEF Weight
<1> HIDE DEF p
<1>4. t \in Nat /\ x \div (2 * p) = t \div 2
  BY <1>1, DivMod, HalvesCompose
<1>5. From(x, i) = p * t
  BY DEF From, p
<1>6. From(x, i + 1) = (2 * p) * (t \div 2)
  BY <1>1, <1>4 DEF From
<1> HIDE DEF t
<1> DEFINE h == t \div 2
           r == t % 2
<1>7. h \in Nat /\ r \in {0, 1} /\ t = 2 * h + r
  BY <1>4
<1> HIDE DEF h, r
<1>8. p * t = (2 * p) * h + p * r /\ (2 * p) * h \in Nat /\ p * t \in Nat
  BY <1>1, <1>7
<1>9. p * r = IF r = 1 THEN p ELSE 0
  BY <1>1, <1>7
<1>10. Weight(Bits(x), i) = IF r = 1 THEN p ELSE 0
  BY <1>3 DEF r
<1>11. From(x, i + 1) = (2 * p) * h
  BY <1>6 DEF h
<1> DEFINE u == (2 * p) * h
           v == p * r
           w == p * t
<1>12. w = u + v /\ u \in Nat /\ w \in Nat /\ v \in Nat
  BY <1>1, <1>7, <1>8
<1>13. From(x, i) = w /\ From(x, i + 1) = u /\ Weight(Bits(x), i) = v
  BY <1>5, <1>9, <1>10, <1>11
<1> HIDE DEF u, v, w
<1> QED
  BY <1>12, <1>13

\* A word is the number its bits make.
LEMMA BitsRoundTrip ==
  ASSUME NEW x \in Word
  PROVE  FromBits(Bits(x)) = x
<1> DEFINE S == Bits(x)
           w(i) == Weight(S, i)
           h(i) == From(x, i)
<1>1. \A i \in 0 .. 15 : /\ h(i) \in Nat /\ h(i + 1) \in Nat
                         /\ w(i) = h(i) - h(i + 1)
  <2> TAKE i \in 0 .. 15
  <2>1. x \in Nat
    BY DEF Word
  <2> QED
    BY <2>1, BitWeight
<1>2. h(0) = x /\ h(16) = 0
  BY PowerValues DEF Word, From
<1>3. /\ FromBits(S) = LowBits(S) + HighBits(S)
      /\ LowBits(S) = w(0) + w(1) + w(2) + w(3) + w(4) + w(5) + w(6) + w(7)
      /\ HighBits(S) = w(8) + w(9) + w(10) + w(11) + w(12) + w(13) + w(14)
                         + w(15)
  BY WeightsSum DEF LowBits, HighBits
<1> HIDE DEF S, w, h
<1>4. /\ w(0) = h(0) - h(1) /\ w(1) = h(1) - h(2) /\ w(2) = h(2) - h(3)
      /\ w(3) = h(3) - h(4) /\ h(0) \in Nat /\ h(1) \in Nat /\ h(2) \in Nat
      /\ h(3) \in Nat /\ h(4) \in Nat
  BY <1>1
<1>5. /\ w(4) = h(4) - h(5) /\ w(5) = h(5) - h(6) /\ w(6) = h(6) - h(7)
      /\ w(7) = h(7) - h(8) /\ h(5) \in Nat /\ h(6) \in Nat /\ h(7) \in Nat
      /\ h(8) \in Nat
  BY <1>1
<1>6. /\ w(8) = h(8) - h(9) /\ w(9) = h(9) - h(10) /\ w(10) = h(10) - h(11)
      /\ w(11) = h(11) - h(12) /\ h(9) \in Nat /\ h(10) \in Nat
      /\ h(11) \in Nat /\ h(12) \in Nat
  BY <1>1
<1>7. /\ w(12) = h(12) - h(13) /\ w(13) = h(13) - h(14)
      /\ w(14) = h(14) - h(15) /\ w(15) = h(15) - h(16)
      /\ h(13) \in Nat /\ h(14) \in Nat /\ h(15) \in Nat
  BY <1>1
<1>8. FromBits(S) = x
  BY <1>2, <1>3, <1>4, <1>5, <1>6, <1>7
<1> QED
  BY <1>8 DEF S

\* N, U and X are the bits of AND, OR and XOR of the bits S and T.
Combined(S, T, N, U, X) == N = S \cap T /\ U = S \cup T /\ X = U \ N

\* One addition in each bit: the weights of two sets add up to the weights
\* of their difference and twice those of their intersection.
LEMMA WeightsAdd ==
  ASSUME NEW S, NEW T, NEW N, NEW U, NEW X, NEW i \in 0 .. 15,
         Combined(S, T, N, U, X)
  PROVE  /\ Weight(X, i) = Weight(S, i) + Weight(T, i) - 2 * Weight(N, i)
         /\ Weight(U, i) = Weight(S, i) + Weight(T, i) - 1 * Weight(N, i)
<1> DEFINE p == Pow2[i + 1]
<1>1. p \in Nat
  <2>1. i + 1 \in 1 .. 16
    OBVIOUS
  <2> QED
    BY <2>1, Powers
<1> HIDE DEF p
<1>2. \A W : Weight(W, i) = IF i \in W THEN p ELSE 0
  BY DEF Weight, p
<1>3. CASE i \in S /\ i \in T
  BY <1>1, <1>2, <1>3 DEF Combined
<1>4. CASE i \in S /\ i \notin T
  BY <1>1, <1>2, <1>4 DEF Combined
<1>5. CASE i \notin S /\ i \in T
  BY <1>1, <1>2, <1>5 DEF Combined
<1>6. CASE i \notin S /\ i \notin T
  BY <1>1, <1>2, <1>6 DEF Combined
<1> QED
  BY <1>3, <1>4, <1>5, <1>6

\* Numbers made from weights that are a linear combination are one too.
LEMMA LinearSum ==
  ASSUME NEW S, NEW T, NEW U, NEW V, NEW k \in {1, 2},
         \A i \in 0 .. 15 :
            Weight(U, i) = Weight(S, i) + Weight(T, i) - k * Weight(V, i)
  PROVE  FromBits(U) = FromBits(S) + FromBits(T) - k * FromBits(V)
<1> DEFINE s(i) == Weight(S, i)
           t(i) == Weight(T, i)
           u(i) == Weight(U, i)
           v(i) == Weight(V, i)
<1>1. \A i \in 0 .. 15 : /\ s(i) \in Nat /\ t(i) \in Nat /\ v(i) \in Nat
                         /\ u(i) = s(i) + t(i) - k * v(i)
  BY WeightNat
<1>2. LowBits(U) = LowBits(S) + LowBits(T) - k * LowBits(V)
  <2>1. /\ LowBits(S) = s(0) + s(1) + s(2) + s(3) + s(4) + s(5) + s(6) + s(7)
        /\ LowBits(T) = t(0) + t(1) + t(2) + t(3) + t(4) + t(5) + t(6) + t(7)
        /\ LowBits(U) = u(0) + u(1) + u(2) + u(3) + u(4) + u(5) + u(6) + u(7)
        /\ LowBits(V) = v(0) + v(1) + v(2) + v(3) + v(4) + v(5) + v(6) + v(7)
    BY DEF LowBits
  <2> HIDE DEF s, t, u, v
  <2>2. CASE k = 1
    BY <1>1, <2>1, <2>2
  <2>3. CASE k = 2
    BY <1>1, <2>1, <2>3
  <2> QED
    BY <2>2, <2>3
<1>3. HighBits(U) = HighBits(S) + HighBits(T) - k * HighBits(V)
  <2>1. /\ HighBits(S) = s(8) + s(9) + s(10) + s(11) + s(12) + s(13) + s(14) + s(15)
        /\ HighBits(T) = t(8) + t(9) + t(10) + t(11) + t(12) + t(13) + t(14) + t(15)
        /\ HighBits(U) = u(8) + u(9) + u(10) + u(11) + u(12) + u(13) + u(14) + u(15)
        /\ HighBits(V) = v(8) + v(9) + v(10) + v(11) + v(12) + v(13) + v(14) + v(15)
    BY DEF HighBits
  <2> HIDE DEF s, t, u, v
  <2>2. CASE k = 1
    BY <1>1, <2>1, <2>2
  <2>3. CASE k = 2
    BY <1>1, <2>1, <2>3
  <2> QED
    BY <2>2, <2>3
<1>4. \A W \in {S, T, U, V} :
         /\ LowBits(W) \in Nat /\ HighBits(W) \in Nat
         /\ FromBits(W) = LowBits(W) + HighBits(W)
  BY WeightsSum
<1>5. CASE k = 1
  BY <1>2, <1>3, <1>4, <1>5
<1>6. CASE k = 2
  BY <1>2, <1>3, <1>4, <1>6
<1> QED
  BY <1>5, <1>6

\* The complement of a word has the other bits.
LEMMA OtherBits ==
  ASSUME NEW x \in Word
  PROVE  Bits(65535 - x) = (0 .. 15) \ Bits(x)
<1>1. ASSUME NEW i \in 0 .. 15
      PROVE  i \in Bits(65535 - x) <=> i \notin Bits(x)
  <2> DEFINE p == Pow2[i + 1]
             q == Pow2[16 - i]
             t == x \div p
             r == x % p
  <2>1. i + 1 \in 1 .. 16 /\ 17 - (i + 1) = 16 - i /\ x \in Nat
    BY DEF Word
  <2>2. p \in Nat /\ p > 0 /\ q \in Nat /\ q > 0 /\ p * q = 32768
    BY <2>1, Powers DEF Halves
  <2> HIDE DEF p, q
  <2>3. t \in Nat /\ r \in Nat /\ r < p /\ x = t * p + r
    BY <2>1, <2>2, DivMod
  <2> HIDE DEF t, r
  <2> DEFINE u == (2 * q - 1) - t
             v == (p - 1) - r
  <2>4. p * (2 * q) = 65536
    BY <2>2
  <2>5. 65535 - x = u * p + v
    BY <2>1, <2>2, <2>3, <2>4
  <2>6. v \in Nat /\ v < p /\ u \in Int
    BY <2>2, <2>3
  <2> HIDE DEF u, v
  <2>7. (u * p + v) \div p = u
    BY <2>2, <2>6
  <2>8. u % 2 = 1 <=> ~(t % 2 = 1)
    BY <2>2, <2>3 DEF u
  <2>9. (65535 - x) \div p = u
    BY <2>5, <2>7
  <2>10. i \in Bits(65535 - x) <=> ((65535 - x) \div p) % 2 = 1
    BY DEF Bits, p
  <2>11. i \in Bits(x) <=> t % 2 = 1
    BY DEF Bits, p, t
  <2> QED
    BY <2>8, <2>9, <2>10, <2>11
<1>2. Bits(65535 - x) \subseteq 0 .. 15
  BY DEF Bits
<1> QED
  BY <1>1, <1>2

\* The other bits make the complement.
LEMMA ComplementSum ==
  ASSUME NEW S
  PROVE  FromBits((0 .. 15) \ S) = 65535 - FromBits(S)
<1> DEFINE All == 0 .. 15
<1>1. 0 \in Word /\ 65535 \in Word /\ 65535 - 0 = 65535
  BY DEF Word
<1>2. Bits(0) = {}
  <2>1. ASSUME NEW i \in 0 .. 15 PROVE i \notin Bits(0)
    <3> DEFINE p == Pow2[i + 1]
    <3>1. i + 1 \in 1 .. 16
      OBVIOUS
    <3>2. p \in Nat /\ p > 0
      BY <3>1, Powers
    <3>3. i \in Bits(0) <=> (0 \div p) % 2 = 1
      BY DEF Bits
    <3> HIDE DEF p
    <3>4. 0 \div p = 0
      BY <3>2
    <3> QED
      BY <3>3, <3>4
  <2> QED
    BY <2>1 DEF Bits
<1>3. FromBits({}) = 0
  BY <1>1, <1>2, BitsRoundTrip
<1>4. FromBits(All) = 65535
  <2>1. Bits(65535) = All
    BY <1>1, <1>2, OtherBits
  <2> QED
    BY <1>1, <2>1, BitsRoundTrip
<1>5. \A i \in 0 .. 15 :
         Weight(All \ S, i) = Weight(All, i) + Weight({}, i) - 1 * Weight(S, i)
  <2> TAKE i \in 0 .. 15
  <2> DEFINE p == Pow2[i + 1]
  <2>1. p \in Nat
    <3>1. i + 1 \in 1 .. 16
      OBVIOUS
    <3> QED
      BY <3>1, Powers
  <2> HIDE DEF p
  <2>2. \A U : Weight(U, i) = IF i \in U THEN p ELSE 0
    BY DEF Weight, p
  <2>3. CASE i \in S
    BY <2>1, <2>2, <2>3
  <2>4. CASE i \notin S
    BY <2>1, <2>2, <2>4
  <2> QED
    BY <2>3, <2>4
<1> HIDE DEF All
<1>6. FromBits(All \ S) = FromBits(All) + FromBits({}) - 1 * FromBits(S)
  BY <1>5, LinearSum
<1>7. FromBits(S) \in Nat
  BY WeightsSum
<1>8. FromBits(All \ S) = 65535 - FromBits(S)
  BY <1>3, <1>4, <1>6, <1>7
<1> QED
  BY <1>8 DEF All

\* AND, OR, XOR and NOT (vm.c: exec_and, exec_or, exec_xor, exec_not) on all
\* words agree with addition and with De Morgan's law.
THEOREM LogicCorrect == Spec => []LogicExact
<1>1. ASSUME a \in Word, b \in Word
      PROVE  LogicExact
  <2> DEFINE S == Bits(a)
             T == Bits(b)
             N == S \cap T
             U == S \cup T
             X == U \ N
  <2>1. /\ and(a, b, f).result = FromBits(N)
        /\ or(a, b, f).result = FromBits(U)
        /\ xor(a, b, f).result = FromBits(X)
    BY DEF and, or, xor, logic, Outcome
  <2>2. FromBits(S) = a /\ FromBits(T) = b
    BY <1>1, BitsRoundTrip
  <2>3. \A i \in 0 .. 15 :
           /\ Weight(X, i) = Weight(S, i) + Weight(T, i) - 2 * Weight(N, i)
           /\ Weight(U, i) = Weight(S, i) + Weight(T, i) - 1 * Weight(N, i)
    <3> TAKE i \in 0 .. 15
    <3>1. Combined(S, T, N, U, X)
      BY DEF Combined
    <3> HIDE DEF S, T, N, U, X
    <3> QED
      BY <3>1, WeightsAdd
  <2>4. /\ FromBits(N) \in Nat /\ a \in Nat /\ b \in Nat
        /\ FromBits(X) = a + b - 2 * FromBits(N)
        /\ FromBits(U) = a + b - 1 * FromBits(N)
    <3>1. FromBits(N) \in Nat /\ a \in Nat /\ b \in Nat
      BY <1>1, WeightsSum DEF Word
    <3> HIDE DEF S, T, N, U, X
    <3>2. FromBits(X) = FromBits(S) + FromBits(T) - 2 * FromBits(N)
      BY <2>3, LinearSum
    <3>3. FromBits(U) = FromBits(S) + FromBits(T) - 1 * FromBits(N)
      BY <2>3, LinearSum
    <3> QED
      BY <2>2, <3>1, <3>2, <3>3
  <2>5. /\ a + b = xor(a, b, f).result + 2 * and(a, b, f).result
        /\ or(a, b, f).result = xor(a, b, f).result + and(a, b, f).result
    <3> HIDE DEF N, U, X
    <3> QED
      BY <2>1, <2>4
  <2>6. \A x : not(x, f).result = 65535 - x
    BY DEF not, logic, Outcome
  <2>7. or(65535 - a, 65535 - b, f).result = 65535 - FromBits(N)
    <3>1. Bits(65535 - a) \cup Bits(65535 - b) = (0 .. 15) \ N
      <4>1. Bits(65535 - a) = (0 .. 15) \ S /\ Bits(65535 - b) = (0 .. 15) \ T
        BY <1>1, OtherBits
      <4> HIDE DEF S, T
      <4> QED
        BY <4>1
    <3>2. or(65535 - a, 65535 - b, f).result
            = FromBits(Bits(65535 - a) \cup Bits(65535 - b))
      BY DEF or, logic, Outcome
    <3> HIDE DEF N
    <3>3. FromBits((0 .. 15) \ N) = 65535 - FromBits(N)
      BY ComplementSum
    <3> QED
      BY <3>1, <3>2, <3>3
  <2>8. not(and(a, b, f).result, f).result
          = or(not(a, f).result, not(b, f).result, f).result
    <3> HIDE DEF N
    <3>1. not(and(a, b, f).result, f).result = 65535 - FromBits(N)
      BY <2>1, <2>6
    <3>2. not(a, f).result = 65535 - a /\ not(b, f).result = 65535 - b
      BY <2>6
    <3> QED
      BY <2>7, <3>1, <3>2
  <2> QED
    BY <2>5, <2>8 DEF LogicExact
<1> QED
  BY <1>1, OperandsAreWords, PTL
=============================================================================
