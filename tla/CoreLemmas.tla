----------------------------- MODULE CoreLemmas -----------------------------
(***************************************************************************)
(* Facts about the memory, the decoder, the arithmetic and the images that *)
(* hold of every argument: what they return, what a write leaves alone,    *)
(* and where the loader puts the bytes of a file; recursion over an        *)
(* interval, and the long multiplication the number parsers use.           *)
(***************************************************************************)
EXTENDS Alu, Image, Wide, WellFoundedInduction, TLAPS

-----------------------------------------------------------------------------
\* Memory (memory.c).

LEMMA WrapIsWord ==
  ASSUME NEW x \in Int
  PROVE  x % 65536 \in Word
  BY DEF Word

\* A read gives a byte.
LEMMA Read8Type ==
  ASSUME NEW m, IsMemory(m), NEW x
  PROVE  mem_read8(m, x) \in Byte
  BY DEF IsMemory, mem_read8, Byte

LEMMA Read16Type ==
  ASSUME NEW m, IsMemory(m), NEW x
  PROVE  mem_read16(m, x) \in Word
<1> DEFINE lo == mem_read8(m, x)
           hi == mem_read8(m, (x + 1) % 65536)
<1>1. lo \in Byte /\ hi \in Byte
  BY Read8Type
<1> HIDE DEF lo, hi
<1>2. lo + 256 * hi \in Word
  BY <1>1 DEF Byte, Word
<1> QED
  BY <1>2 DEF mem_read16, lo, hi

\* A write of a byte gives a memory, changed at its address only.
LEMMA Write8Type ==
  ASSUME NEW m, IsMemory(m), NEW x \in Word, NEW v \in Byte
  PROVE  IsMemory(mem_write8(m, x, v))
  BY DEF IsMemory, mem_write8, Byte

LEMMA Read8Write8 ==
  ASSUME NEW m, NEW x, NEW v, NEW y
  PROVE  mem_read8(mem_write8(m, x, v), y)
           = IF y = x THEN v ELSE mem_read8(m, y)
<1>1. CASE v = 0
  BY <1>1 DEF mem_read8, mem_write8
<1>2. CASE v # 0
  BY <1>2 DEF mem_read8, mem_write8
<1> QED
  BY <1>1, <1>2

\* A write of a word gives a memory, changed at its two addresses only.
LEMMA Write16Type ==
  ASSUME NEW m, IsMemory(m), NEW x \in Word, NEW v \in Word
  PROVE  IsMemory(mem_write16(m, x, v))
<1>1. v % 256 \in Byte /\ v \div 256 \in Byte
  BY DEF Word, Byte
<1>2. (x + 1) % 65536 \in Word
  BY DEF Word
<1>3. IsMemory(mem_write8(m, x, v % 256))
  BY <1>1, Write8Type
<1> QED
  BY <1>1, <1>2, <1>3, Write8Type DEF mem_write16

LEMMA Read8Write16 ==
  ASSUME NEW m, NEW x, NEW v, NEW y, y # x, y # (x + 1) % 65536
  PROVE  mem_read8(mem_write16(m, x, v), y) = mem_read8(m, y)
  BY Read8Write8 DEF mem_write16

\* A block of bytes copied to a place that holds it gives a memory.
LEMMA WriteBlockType ==
  ASSUME NEW m, IsMemory(m), NEW x \in Word, NEW bytes \in Seq(Byte),
         x + Len(bytes) <= 65536
  PROVE  IsMemory(write_block(m, x, bytes))
<1> DEFINE region == x .. x + Len(bytes) - 1
           byte(a) == bytes[a - x + 1]
           dom == (DOMAIN m \ region) \cup {y \in region : byte(y) # 0}
<1>1. \A a \in region : a \in Word /\ byte(a) \in Byte
  BY DEF Word
<1>2. DOMAIN m \subseteq Word /\ \A a \in DOMAIN m : m[a] \in Byte \ {0}
  BY DEF IsMemory
<1> HIDE DEF region, byte
<1>3. write_block(m, x, bytes)
        = [a \in dom |-> IF a \in region THEN byte(a) ELSE m[a]]
  BY DEF write_block, region, byte
<1> QED
  BY <1>1, <1>2, <1>3 DEF IsMemory

\* Reading a copied block back: the block's byte inside it, the old contents
\* outside.
LEMMA Read8WriteBlock ==
  ASSUME NEW m, NEW x \in Nat, NEW bytes \in Seq(Byte), NEW y \in Int
  PROVE  mem_read8(write_block(m, x, bytes), y)
           = IF y \in x .. x + Len(bytes) - 1 THEN bytes[y - x + 1]
                                              ELSE mem_read8(m, y)
<1> DEFINE region == x .. x + Len(bytes) - 1
           byte(a) == bytes[a - x + 1]
           dom == (DOMAIN m \ region) \cup {a \in region : byte(a) # 0}
<1>1. \A a \in region : byte(a) \in Byte
  OBVIOUS
<1> HIDE DEF region, byte
<1>2. write_block(m, x, bytes)
        = [a \in dom |-> IF a \in region THEN byte(a) ELSE m[a]]
  BY DEF write_block, region, byte
<1>3. mem_read8(write_block(m, x, bytes), y)
        = IF y \in region THEN byte(y) ELSE mem_read8(m, y)
  BY <1>1, <1>2 DEF mem_read8
<1> QED
  BY <1>3 DEF region, byte

\* A block adds no cell outside its own region.
LEMMA WriteBlockDomain ==
  ASSUME NEW m, NEW x \in Nat, NEW bytes \in Seq(Byte)
  PROVE  DOMAIN write_block(m, x, bytes)
           \subseteq DOMAIN m \cup (x .. x + Len(bytes) - 1)
  BY DEF write_block

\* A word written is the word read at the same address, and a word that
\* shares no byte with it is read as before.
LEMMA Read16Write16 ==
  ASSUME NEW m, NEW x \in Word, NEW v \in Word
  PROVE  mem_read16(mem_write16(m, x, v), x) = v
<1> DEFINE w == mem_write16(m, x, v)
           x1 == (x + 1) % 65536
<1>1. x1 # x
  BY DEF Word
<1> HIDE DEF x1
<1>2. w = mem_write8(mem_write8(m, x, v % 256), x1, v \div 256)
  BY DEF mem_write16, x1
<1>3. mem_read8(w, x) = v % 256 /\ mem_read8(w, x1) = v \div 256
  BY <1>1, <1>2, Read8Write8
<1>4. mem_read16(w, x) = mem_read8(w, x) + 256 * mem_read8(w, x1)
  BY DEF mem_read16, x1
<1>5. v = (v % 256) + 256 * (v \div 256)
  BY DEF Word
<1> QED
  BY <1>3, <1>4, <1>5

LEMMA Read16Write16Apart ==
  ASSUME NEW m, NEW x \in Word, NEW v, NEW y \in Word,
         y # x, y # (x + 1) % 65536, (y + 1) % 65536 # x
  PROVE  mem_read16(mem_write16(m, x, v), y) = mem_read16(m, y)
<1>1. (y + 1) % 65536 # (x + 1) % 65536
  BY DEF Word
<1> DEFINE y1 == (y + 1) % 65536
<1> HIDE DEF y1
<1>2. /\ mem_read8(mem_write16(m, x, v), y) = mem_read8(m, y)
      /\ mem_read8(mem_write16(m, x, v), y1) = mem_read8(m, y1)
  BY <1>1, Read8Write16 DEF y1
<1> QED
  BY <1>2 DEF mem_read16, y1

\* The words in the first n slots below the top of memory, first slot first.
SlotWords(m, n) == [k \in 1 .. n |-> mem_read16(m, 65536 - 2 * k)]

LEMMA SlotWordsType ==
  ASSUME NEW m, IsMemory(m), NEW n \in Nat
  PROVE  /\ SlotWords(m, n) \in Seq(Word)
         /\ Len(SlotWords(m, n)) = n
         /\ \A k \in 1 .. n :
               SlotWords(m, n)[k] = mem_read16(m, 65536 - 2 * k)
<1> DEFINE f(k) == mem_read16(m, 65536 - 2 * k)
<1>1. \A k \in 1 .. n : f(k) \in Word
  BY Read16Type
<1> HIDE DEF f
<1>2. /\ [k \in 1 .. n |-> f(k)] \in Seq(Word)
      /\ Len([k \in 1 .. n |-> f(k)]) = n
      /\ \A k \in 1 .. n : [j \in 1 .. n |-> f(j)][k] = f(k)
  BY <1>1
<1> QED
  BY <1>2 DEF SlotWords, f

\* A word written anywhere reaches two neighbouring slots at most: p and
\* p + 1, where p counts the whole slots above the address.
LEMMA SlotsTouched ==
  ASSUME NEW m, NEW x \in Word, NEW v, NEW k \in Nat, k > 0, k < 32768,
         k # (65536 - x) \div 2, k # (65536 - x) \div 2 + 1
  PROVE  mem_read16(mem_write16(m, x, v), 65536 - 2 * k)
           = mem_read16(m, 65536 - 2 * k)
<1> DEFINE y == 65536 - 2 * k
<1>1. /\ y \in Word /\ y # x /\ y # (x + 1) % 65536
      /\ (y + 1) % 65536 # x
  BY DEF Word
<1> HIDE DEF y
<1>2. mem_read16(mem_write16(m, x, v), y) = mem_read16(m, y)
  BY <1>1, Read16Write16Apart
<1> QED
  BY <1>2 DEF y

-----------------------------------------------------------------------------
\* The decoder (instruction.c).

\* An operand as the decoder hands it to a handler: a register number, or a
\* word.
IsOperand(op) ==
  /\ op.mode \in 0 .. 5
  /\ op.value \in Word
  /\ op.mode \in {MODE_REG, MODE_REG_INDIRECT} => op.value \in 0 .. 7

USE DEF MODE_NONE, MODE_REG, MODE_IMM16, MODE_MEM_DIRECT, MODE_REG_INDIRECT,
        MODE_IMM8

\* Decoding one operand: its mode is the one asked for.
LEMMA DecodeOperandType ==
  ASSUME NEW m, IsMemory(m), NEW x \in Word, NEW mode \in 0 .. 5
  PROVE  LET d == decode_operand(m, x, mode) IN
         /\ d.result \in {"VM_OK", "VM_ERR_INVALID_MODE"}
         /\ d.operand.mode = mode
         /\ IsOperand(d.operand)
         /\ d.next \in Word
<1>1. mem_read8(m, x) \in Byte /\ mem_read16(m, x) \in Word
  BY Read8Type, Read16Type
<1>2. (x + 1) % 65536 \in Word /\ (x + 2) % 65536 \in Word
  BY DEF Word
<1>3. CASE mode = MODE_NONE
  BY <1>3 DEF decode_operand, IsOperand, NoOperand, Word
<1>4. CASE mode \in {MODE_REG, MODE_REG_INDIRECT}
  <2> DEFINE idx == mem_read8(m, x)
  <2> HIDE DEF idx
  <2>1. idx \in Byte
    BY <1>1 DEF idx
  <2>2. decode_operand(m, x, mode) =
          [result  |-> IF idx > 7 THEN "VM_ERR_INVALID_MODE" ELSE "VM_OK",
           operand |-> [mode |-> mode, value |-> IF idx > 7 THEN 0 ELSE idx],
           next    |-> (x + 1) % 65536]
    BY <1>4 DEF decode_operand, idx
  <2>3. (IF idx > 7 THEN 0 ELSE idx) \in 0 .. 7
    BY <2>1 DEF Byte
  <2>4. 0 .. 7 \subseteq Word
    BY DEF Word
  <2> QED
    BY <1>2, <1>4, <2>2, <2>3, <2>4 DEF IsOperand
<1>5. CASE mode = MODE_IMM8
  BY <1>1, <1>2, <1>5 DEF decode_operand, IsOperand, Word, Byte
<1>6. CASE mode \in {MODE_IMM16, MODE_MEM_DIRECT}
  BY <1>1, <1>2, <1>6 DEF decode_operand, IsOperand
<1> QED
  BY <1>3, <1>4, <1>5, <1>6

\* Every legal mode is a mode the decoder knows.
LEMMA LegalModes ==
  ASSUME NEW op
  PROVE  op1_modes(op) \subseteq 0 .. 5 /\ op2_modes(op) \subseteq 0 .. 5
<1>1. op1_modes(op) \in {{MODE_NONE}, MODES_MEM, MODES_REG_IMM16,
                         {MODE_MEM_DIRECT}, {MODE_IMM8}, {MODE_REG}}
  BY DEF op1_modes
<1>2. op2_modes(op) \in {MODES_MEM, {MODE_REG}, MODES_REG_IMM16, {MODE_NONE}}
  BY DEF op2_modes
<1> QED
  BY <1>1, <1>2 DEF MODES_MEM, MODES_REG_IMM16

\* A decoded instruction is legal: an opcode of the table with operands of
\* the modes the table allows it.
LEMMA DecodeType ==
  ASSUME NEW m, IsMemory(m), NEW x \in Word
  PROVE  LET i == instruction_decode(m, x) IN
         /\ i.next \in Word
         /\ i.result \in {"VM_OK", "VM_ERR_INVALID_OPCODE",
                          "VM_ERR_INVALID_MODE"}
         /\ IsOperand(i.op1) /\ IsOperand(i.op2)
         /\ i.result = "VM_OK" => /\ i.opcode \in Opcode
                                  /\ i.op1.mode \in op1_modes(i.opcode)
                                  /\ i.op2.mode \in op2_modes(i.opcode)
<1> DEFINE op    == mem_read8(m, x)
           modes == mem_read8(m, (x + 1) % 65536)
           mode1 == modes \div 16
           mode2 == modes % 16
           d1    == decode_operand(m, (x + 2) % 65536, mode1)
           d2    == decode_operand(m, d1.next, mode2)
           i     == instruction_decode(m, x)
<1>1. /\ op \notin Opcode => i = decode_failed("VM_ERR_INVALID_OPCODE", x)
      /\ op \in Opcode /\ (mode1 \notin op1_modes(op)
                            \/ mode2 \notin op2_modes(op)) =>
           i = decode_failed("VM_ERR_INVALID_MODE", x)
      /\ op \in Opcode /\ mode1 \in op1_modes(op) /\ mode2 \in op2_modes(op)
           /\ (d1.result # "VM_OK" \/ d2.result # "VM_OK") =>
           i = decode_failed("VM_ERR_INVALID_MODE", x)
      /\ op \in Opcode /\ mode1 \in op1_modes(op) /\ mode2 \in op2_modes(op)
           /\ d1.result = "VM_OK" /\ d2.result = "VM_OK" =>
           i = [result |-> "VM_OK", opcode |-> op, op1 |-> d1.operand,
                op2 |-> d2.operand, next |-> d2.next]
  <2> HIDE DEF op, mode1, mode2, d1, d2
  <2>1. i = IF op \notin Opcode
            THEN decode_failed("VM_ERR_INVALID_OPCODE", x)
            ELSE IF mode1 \notin op1_modes(op) \/ mode2 \notin op2_modes(op)
            THEN decode_failed("VM_ERR_INVALID_MODE", x)
            ELSE IF d1.result # "VM_OK" \/ d2.result # "VM_OK"
            THEN decode_failed("VM_ERR_INVALID_MODE", x)
            ELSE [result |-> "VM_OK", opcode |-> op,
                  op1 |-> d1.operand, op2 |-> d2.operand, next |-> d2.next]
    BY DEF instruction_decode, op, mode1, mode2, d1, d2
  <2> QED
    BY <2>1
<1>2. IsOperand(NoOperand)
  BY DEF IsOperand, NoOperand, Word
<1>3. (x + 2) % 65536 \in Word
  BY DEF Word
<1> HIDE DEF op, mode1, mode2, d1, d2, i
<1>4. CASE /\ op \in Opcode
           /\ mode1 \in op1_modes(op) /\ mode2 \in op2_modes(op)
           /\ d1.result = "VM_OK" /\ d2.result = "VM_OK"
  <2>1. mode1 \in 0 .. 5 /\ mode2 \in 0 .. 5
    BY <1>4, LegalModes
  <2>2. d1.operand.mode = mode1 /\ IsOperand(d1.operand) /\ d1.next \in Word
    BY <1>3, <2>1, DecodeOperandType DEF d1
  <2>3. d2.operand.mode = mode2 /\ IsOperand(d2.operand) /\ d2.next \in Word
    BY <2>1, <2>2, DecodeOperandType DEF d2
  <2>4. i = [result |-> "VM_OK", opcode |-> op, op1 |-> d1.operand,
             op2 |-> d2.operand, next |-> d2.next]
    BY <1>1, <1>4
  <2> QED
    BY <1>4, <2>2, <2>3, <2>4 DEF i
<1>5. CASE ~(/\ op \in Opcode
             /\ mode1 \in op1_modes(op) /\ mode2 \in op2_modes(op)
             /\ d1.result = "VM_OK" /\ d2.result = "VM_OK")
  <2>1. \E e \in {"VM_ERR_INVALID_OPCODE", "VM_ERR_INVALID_MODE"} :
           i = decode_failed(e, x)
    BY <1>1, <1>5
  <2>2. PICK e \in {"VM_ERR_INVALID_OPCODE", "VM_ERR_INVALID_MODE"} :
           i = decode_failed(e, x)
    BY <2>1
  <2>3. /\ i.next = x /\ i.result = e
        /\ i.op1 = NoOperand /\ i.op2 = NoOperand
    BY <2>2 DEF decode_failed
  <2> QED
    BY <1>2, <2>3 DEF i
<1> QED
  BY <1>4, <1>5

USE DEF OP_NOP, OP_MOV, OP_ADD, OP_SUB, OP_MUL, OP_DIV, OP_MOD, OP_AND, OP_OR,
        OP_XOR, OP_NOT, OP_SHL, OP_SHR, OP_LOAD, OP_STORE, OP_PUSH, OP_POP,
        OP_CMP, OP_JMP, OP_JZ, OP_JNZ, OP_JG, OP_JGE, OP_JL, OP_JLE, OP_JB,
        OP_JAE, OP_JA, OP_JBE, OP_CALL, OP_RET, OP_SYS, OP_HALT

\* The instructions that write a register name one.
LEMMA TargetIsRegister ==
  ASSUME NEW op, op \in OP_MOV .. OP_LOAD \cup {OP_POP}
  PROVE  op1_modes(op) = {MODE_REG}
  BY DEF op1_modes

LEMMA StoreModes ==
  op1_modes(OP_STORE) = MODES_MEM /\ op2_modes(OP_STORE) = {MODE_REG}
  BY DEF op1_modes, op2_modes

-----------------------------------------------------------------------------
\* The arithmetic (vm.c): an outcome is a word and a set of flags.

IsOutcome(out) == out.result \in Word /\ out.flags \subseteq Flag

LEMMA SetFlagType ==
  ASSUME NEW f, f \subseteq Flag, NEW bit \in Flag, NEW v
  PROVE  cpu_set_flag(f, bit, v) \subseteq Flag
  BY DEF cpu_set_flag

LEMMA SetZsType ==
  ASSUME NEW f, f \subseteq Flag, NEW x
  PROVE  set_zs(f, x) \subseteq Flag
  BY DEF set_zs, cpu_set_flag, Flag

LEMMA SetCzsoType ==
  ASSUME NEW f, f \subseteq Flag, NEW c, NEW o, NEW x
  PROVE  set_czso(f, c, o, x) \subseteq Flag
<1> DEFINE g == cpu_set_flag(cpu_set_flag(f, "C", c), "O", o)
<1>1. g \subseteq Flag
  BY DEF cpu_set_flag, Flag
<1> QED
  BY <1>1, SetZsType DEF set_czso

LEMMA SignedType ==
  ASSUME NEW x \in Word
  PROVE  Signed(x) \in Int /\ Signed(x) >= -32768 /\ Signed(x) < 32768
  BY DEF Word, Signed

LEMMA ArithmeticType ==
  ASSUME NEW x \in Word, NEW y \in Word, NEW f, f \subseteq Flag
  PROVE  IsOutcome(add(x, y, f)) /\ IsOutcome(sub(x, y, f))
           /\ IsOutcome(mul(x, y, f)) /\ cmp(x, y, f) \subseteq Flag
<1>1. x + y \in Int /\ x - y \in Int
  BY DEF Word
<1>2. (x + y) % 65536 \in Word /\ (x - y) % 65536 \in Word
  BY <1>1, WrapIsWord
<1>3. (Signed(x) * Signed(y)) % 65536 \in Word
  <2>1. Signed(x) * Signed(y) \in Int
    BY SignedType
  <2> HIDE DEF Signed
  <2> QED
    BY <2>1, WrapIsWord
<1>4. IsOutcome(add(x, y, f))
  BY <1>2, SetCzsoType DEF add, Outcome, IsOutcome
<1>5. IsOutcome(sub(x, y, f))
  BY <1>2, SetCzsoType DEF sub, Outcome, IsOutcome
<1>6. IsOutcome(mul(x, y, f))
  BY <1>3, SetCzsoType DEF mul, Outcome, IsOutcome
<1>7. cmp(x, y, f) \subseteq Flag
  BY SetCzsoType DEF cmp
<1> QED
  BY <1>4, <1>5, <1>6, <1>7

LEMMA DivisionBounds ==
  ASSUME NEW x \in Nat, NEW y \in Nat, y # 0
  PROVE  /\ x \div y \in Nat /\ x \div y <= x
         /\ x % y \in Nat /\ x % y < y
<1>1. x \div y \in Int /\ x % y \in Int /\ 0 <= x % y /\ x % y < y
  BY SMT
<1>2. x = y * (x \div y) + (x % y)
  BY SMT
<1> DEFINE q == x \div y
<1> HIDE DEF q
<1>3. q >= 0
  <2> SUFFICES ASSUME q <= -1 PROVE FALSE
    BY <1>1 DEF q
  <2>1. y * q <= -y
    BY <1>1 DEF q
  <2> QED
    BY <1>1, <1>2, <2>1 DEF q
<1>4. q <= y * q
  BY <1>1, <1>3 DEF q
<1> QED
  BY <1>1, <1>2, <1>3, <1>4 DEF q

LEMMA DivisionType ==
  ASSUME NEW x \in Word, NEW y \in Word, y # 0, NEW f, f \subseteq Flag
  PROVE  IsOutcome(div(x, y, f)) /\ IsOutcome(mod(x, y, f))
<1>1. x \in Nat /\ y \in Nat /\ x < 65536 /\ y < 65536
  BY DEF Word
<1> DEFINE q == x \div y
           e == x % y
<1>2. q \in Nat /\ q <= x /\ e \in Nat /\ e < y
  BY <1>1, DivisionBounds
<1> HIDE DEF q, e
<1>3. q \in Word /\ e \in Word
  BY <1>1, <1>2 DEF Word
<1> QED
  BY <1>3, SetZsType DEF div, mod, Outcome, IsOutcome, q, e

LEMMA FromBitsType ==
  ASSUME NEW S
  PROVE  FromBits(S) \in Word
<1> DEFINE w(i) == Weight(S, i)
           upto(i, k) == w(i) \in Nat /\ w(i) <= k
<1>1. /\ upto(0, 1) /\ upto(1, 2)
      /\ upto(2, 4) /\ upto(3, 8)
  BY DEF Weight, Pow2
<1>2. /\ upto(4, 16) /\ upto(5, 32)
      /\ upto(6, 64) /\ upto(7, 128)
  BY DEF Weight, Pow2
<1>3. /\ upto(8, 256) /\ upto(9, 512)
      /\ upto(10, 1024) /\ upto(11, 2048)
  BY DEF Weight, Pow2
<1>4. /\ upto(12, 4096) /\ upto(13, 8192)
      /\ upto(14, 16384) /\ upto(15, 32768)
  BY DEF Weight, Pow2
<1>5. FromBits(S) = w(0) + w(1) + w(2) + w(3) + w(4) + w(5) + w(6) + w(7)
        + w(8) + w(9) + w(10) + w(11) + w(12) + w(13) + w(14) + w(15)
  BY DEF FromBits
<1> HIDE DEF w
<1> QED
  BY <1>1, <1>2, <1>3, <1>4, <1>5 DEF Word

LEMMA LogicType ==
  ASSUME NEW x \in Word, NEW y, NEW f, f \subseteq Flag
  PROVE  /\ IsOutcome(and(x, y, f)) /\ IsOutcome(or(x, y, f))
         /\ IsOutcome(xor(x, y, f)) /\ IsOutcome(not(x, f))
<1>1. 65535 - x \in Word
  BY DEF Word
<1>2. ASSUME NEW S
      PROVE  IsOutcome(logic(FromBits(S), f))
  BY FromBitsType, SetZsType DEF logic, Outcome, IsOutcome
<1>3. IsOutcome(not(x, f))
  BY <1>1, SetZsType DEF not, logic, Outcome, IsOutcome
<1> QED
  BY <1>2, <1>3 DEF and, or, xor

LEMMA Pow2Type ==
  ASSUME NEW n \in 1 .. 15
  PROVE  Pow2[n + 1] \in Nat \ {0}
<1>1. n \in {1, 2, 3, 4, 5, 6, 7, 8, 9, 10, 11, 12, 13, 14, 15}
  OBVIOUS
<1> QED
  BY <1>1 DEF Pow2

LEMMA ShiftType ==
  ASSUME NEW x \in Word, NEW n \in Word, NEW f, f \subseteq Flag
  PROVE  IsOutcome(shl(x, n, f)) /\ IsOutcome(shr(x, n, f))
<1>1. x \in Nat /\ x < 65536 /\ n \in Nat
  BY DEF Word
<1>2. ASSUME NEW v \in Word, NEW c
      PROVE  IsOutcome(Outcome(v, set_zs(cpu_set_flag(f, "C", c), v)))
  BY SetFlagType, SetZsType DEF Outcome, IsOutcome, Flag
<1>3. shift_left(x, n).value \in Word
  <2>1. CASE n \notin 1 .. 15
    BY <1>1, <2>1 DEF shift_left, Word
  <2>2. CASE n \in 1 .. 15
    <3>1. x * Pow2[n + 1] \in Int
      BY <1>1, <2>2, Pow2Type
    <3>2. (x * Pow2[n + 1]) % 65536 \in Word
      BY <3>1, WrapIsWord
    <3> QED
      BY <1>1, <2>2, <3>2 DEF shift_left
  <2> QED
    BY <2>1, <2>2
<1>4. shift_right(x, n).value \in Word
  <2>1. CASE n \notin 1 .. 15
    BY <1>1, <2>1 DEF shift_right, Word
  <2>2. CASE n \in 1 .. 15
    <3>1. x \div Pow2[n + 1] \in Nat /\ x \div Pow2[n + 1] <= x
      BY <1>1, <2>2, Pow2Type, DivisionBounds
    <3>2. x \div Pow2[n + 1] \in Word
      BY <1>1, <3>1 DEF Word
    <3> QED
      BY <1>1, <2>2, <3>2 DEF shift_right
  <2> QED
    BY <2>1, <2>2
<1> QED
  BY <1>2, <1>3, <1>4 DEF shl, shr

-----------------------------------------------------------------------------
\* The memory after an accepted load (loader.c).

LEMMA LoadedMemoryType ==
  ASSUME NEW img, IsImage(img), header_ok(img)
  PROVE  IsMemory(loaded_memory(img))
<1> DEFINE cs == img.code_size
           ds == img.data_size
           c == code_bytes(img)
           d == data_bytes(img)
<1>1. /\ cs \in Nat /\ ds \in Nat /\ img.code_addr \in Word
      /\ img.data_addr \in Word /\ img.body \in Seq(Byte)
      /\ cs + ds <= Len(img.body)
      /\ img.code_addr + cs <= 65536 /\ img.data_addr + ds <= 65536
  <2>1. /\ img.size >= 16 /\ img.size >= 16 + cs + ds
        /\ img.code_addr + cs <= 65536 /\ img.data_addr + ds <= 65536
    BY DEF header_ok, BVM_HEADER_SIZE, code_end, data_end
  <2>2. /\ img.size \in Nat /\ cs \in Word /\ ds \in Word
        /\ img.code_addr \in Word /\ img.data_addr \in Word
        /\ img.body \in Seq(Byte)
        /\ img.size >= 16 => Len(img.body) = img.size - 16
    BY Zenon DEF IsImage, BVM_HEADER_SIZE
  <2> HIDE DEF cs, ds
  <2> QED
    BY <2>1, <2>2 DEF Word
<1>2. c \in Seq(Byte) /\ Len(c) = cs
  BY <1>1 DEF code_bytes
<1>3. d \in Seq(Byte) /\ Len(d) = ds
  BY <1>1 DEF data_bytes
<1> HIDE DEF cs, ds, c, d
<1>4. IsMemory(mem_init)
  BY DEF IsMemory, mem_init
<1>5. IsMemory(write_block(mem_init, img.code_addr, c))
  BY <1>1, <1>2, <1>4, WriteBlockType
<1>6. IsMemory(write_block(write_block(mem_init, img.code_addr, c),
                           img.data_addr, d))
  BY <1>1, <1>3, <1>5, WriteBlockType
<1> QED
  BY <1>6 DEF loaded_memory, c, d

\* What an accepted image fixes about its own fields.
LEMMA AcceptedShape ==
  ASSUME NEW img, IsImage(img), header_ok(img)
  PROVE  /\ img.code_size \in Nat /\ img.data_size \in Nat
         /\ img.code_addr \in Word /\ img.data_addr \in Word
         /\ img.code_addr + img.code_size <= 65536
         /\ img.data_addr + img.data_size <= 65536
         /\ \/ img.data_addr + img.data_size <= img.code_addr
            \/ img.code_addr + img.code_size <= img.data_addr
         /\ code_bytes(img) \in Seq(Byte)
         /\ Len(code_bytes(img)) = img.code_size
         /\ \A k \in 1 .. img.code_size : code_bytes(img)[k] = img.body[k]
         /\ data_bytes(img) \in Seq(Byte)
         /\ Len(data_bytes(img)) = img.data_size
         /\ \A k \in 1 .. img.data_size :
               data_bytes(img)[k] = img.body[img.code_size + k]
<1> DEFINE cs == img.code_size
           ds == img.data_size
           ca == img.code_addr
           da == img.data_addr
           body == img.body
           size == img.size
<1>1. /\ size >= 16 /\ size >= 16 + cs + ds
      /\ ca + cs <= 65536 /\ da + ds <= 65536
      /\ ~(ca < da + ds /\ da < ca + cs)
  BY DEF header_ok, BVM_HEADER_SIZE, code_end, data_end
<1>2. /\ size \in Nat /\ cs \in Word /\ ds \in Word
      /\ ca \in Word /\ da \in Word
      /\ body \in Seq(Byte)
      /\ size >= 16 => Len(body) = size - 16
  BY Zenon DEF IsImage, BVM_HEADER_SIZE
<1>3. code_bytes(img) = SubSeq(body, 1, cs)
        /\ data_bytes(img) = SubSeq(body, cs + 1, cs + ds)
  BY DEF code_bytes, data_bytes
<1> HIDE DEF cs, ds, ca, da, body, size
<1>4. cs \in Nat /\ ds \in Nat /\ ca \in Nat /\ da \in Nat
        /\ cs + ds <= Len(body)
  BY <1>1, <1>2 DEF Word
<1>5. /\ code_bytes(img) \in Seq(Byte)
      /\ Len(code_bytes(img)) = cs
      /\ \A k \in 1 .. cs : code_bytes(img)[k] = body[k]
  BY <1>2, <1>3, <1>4
<1>6. /\ data_bytes(img) \in Seq(Byte)
      /\ Len(data_bytes(img)) = ds
      /\ \A k \in 1 .. ds : data_bytes(img)[k] = body[cs + k]
  BY <1>2, <1>3, <1>4
<1>7. da + ds <= ca \/ ca + cs <= da
  BY <1>1, <1>4
<1>8. /\ img.code_size \in Nat /\ img.data_size \in Nat
      /\ img.code_addr \in Word /\ img.data_addr \in Word
      /\ img.code_addr + img.code_size <= 65536
      /\ img.data_addr + img.data_size <= 65536
  BY <1>1, <1>2, <1>4 DEF cs, ds, ca, da
<1>9. \/ img.data_addr + img.data_size <= img.code_addr
      \/ img.code_addr + img.code_size <= img.data_addr
  BY <1>7 DEF cs, ds, ca, da
<1>10. \A k \in 1 .. img.code_size : code_bytes(img)[k] = img.body[k]
  BY <1>5, Zenon DEF cs, body
<1>11. \A k \in 1 .. img.data_size :
          data_bytes(img)[k] = img.body[img.code_size + k]
  BY <1>6, Zenon DEF cs, ds, body
<1>12. Len(code_bytes(img)) = img.code_size
         /\ Len(data_bytes(img)) = img.data_size
  BY <1>5, <1>6 DEF cs, ds
<1> QED
  BY <1>5, <1>6, <1>8, <1>9, <1>10, <1>11, <1>12

\* The two copy loops put the file's bytes where its header says, and
\* nothing anywhere else: the regions are disjoint, so the second loop
\* undoes nothing of the first.
LEMMA LoadedContents ==
  ASSUME NEW img, IsImage(img), header_ok(img)
  PROVE  /\ \A k \in 1 .. img.code_size :
               mem_read8(loaded_memory(img), img.code_addr + k - 1)
                 = img.body[k]
         /\ \A k \in 1 .. img.data_size :
               mem_read8(loaded_memory(img), img.data_addr + k - 1)
                 = img.body[img.code_size + k]
         /\ DOMAIN loaded_memory(img)
              \subseteq (img.code_addr .. code_end(img) - 1)
                          \cup (img.data_addr .. data_end(img) - 1)
<1> DEFINE cs == img.code_size
           ds == img.data_size
           ca == img.code_addr
           da == img.data_addr
           c == code_bytes(img)
           d == data_bytes(img)
           m1 == write_block(mem_init, ca, c)
           m2 == write_block(m1, da, d)
<1>1. /\ cs \in Nat /\ ds \in Nat /\ ca \in Nat /\ da \in Nat
      /\ da + ds <= ca \/ ca + cs <= da
      /\ c \in Seq(Byte) /\ Len(c) = cs
      /\ d \in Seq(Byte) /\ Len(d) = ds
      /\ \A k \in 1 .. cs : c[k] = img.body[k]
      /\ \A k \in 1 .. ds : d[k] = img.body[cs + k]
  BY AcceptedShape DEF Word
<1>2. loaded_memory(img) = m2
  BY DEF loaded_memory
<1> HIDE DEF cs, ds, ca, da, c, d
<1>3. ASSUME NEW y \in Int
      PROVE  /\ y \in da .. da + ds - 1 => mem_read8(m2, y) = d[y - da + 1]
             /\ y \notin da .. da + ds - 1 =>
                  mem_read8(m2, y) = mem_read8(m1, y)
             /\ y \in ca .. ca + cs - 1 => mem_read8(m1, y) = c[y - ca + 1]
  <2> HIDE DEF m1
  <2>1. mem_read8(m2, y) = IF y \in da .. da + ds - 1 THEN d[y - da + 1]
                                                      ELSE mem_read8(m1, y)
    BY <1>1, Read8WriteBlock
  <2>2. mem_read8(m1, y) = IF y \in ca .. ca + cs - 1
                           THEN c[y - ca + 1] ELSE mem_read8(mem_init, y)
    BY <1>1, Read8WriteBlock DEF m1
  <2> QED
    BY <2>1, <2>2
<1>4. DOMAIN m2 \subseteq (ca .. ca + cs - 1) \cup (da .. da + ds - 1)
  <2>1. DOMAIN m1 \subseteq DOMAIN mem_init \cup (ca .. ca + cs - 1)
    BY <1>1, WriteBlockDomain
  <2>2. DOMAIN m2 \subseteq DOMAIN m1 \cup (da .. da + ds - 1)
    <3> HIDE DEF m1
    <3> QED
      BY <1>1, WriteBlockDomain
  <2>3. DOMAIN mem_init = {}
    BY DEF mem_init
  <2> QED
    BY <2>1, <2>2, <2>3
<1> HIDE DEF m1, m2
<1>5. ASSUME NEW k \in 1 .. cs
      PROVE  mem_read8(m2, ca + k - 1) = img.body[k]
  <2>1. /\ ca + k - 1 \in Int /\ ca + k - 1 \in ca .. ca + cs - 1
        /\ ca + k - 1 \notin da .. da + ds - 1
        /\ ca + k - 1 - ca + 1 = k
    BY <1>1
  <2> QED
    BY <1>1, <1>3, <2>1
<1>6. ASSUME NEW k \in 1 .. ds
      PROVE  mem_read8(m2, da + k - 1) = img.body[cs + k]
  <2> DEFINE y == da + k - 1
  <2>1. y \in Int /\ y \in da .. da + ds - 1 /\ y - da + 1 = k
    BY <1>1
  <2> HIDE DEF y
  <2>2. mem_read8(m2, y) = d[k]
    BY <1>3, <2>1
  <2>3. d[k] = img.body[cs + k]
    BY <1>1
  <2> QED
    BY <2>2, <2>3 DEF y
<1>7. code_end(img) = ca + cs /\ data_end(img) = da + ds
  BY DEF cs, ds, ca, da, code_end, data_end
<1>8. DOMAIN loaded_memory(img)
        \subseteq (ca .. code_end(img) - 1) \cup (da .. data_end(img) - 1)
  <2>1. ca + cs - 1 = (ca + cs) - 1 /\ da + ds - 1 = (da + ds) - 1
    BY <1>1
  <2> QED
    BY <1>2, <1>4, <1>7, <2>1
<1> QED
  BY <1>2, <1>5, <1>6, <1>8, Zenon DEF cs, ds, ca, da

-----------------------------------------------------------------------------
\* Recursion.  A recursive function is a CHOOSE; that the chosen function
\* satisfies its equation has to be shown.

\* A set of naturals has a least element.
LEMMA Least ==
  ASSUME NEW J, J \subseteq Nat, J # {}
  PROVE  \E j \in J : \A k \in J : j <= k
<1> DEFINE R == OpToRel(<, Nat)
<1>1. R = {ss \in Nat \X Nat : ss[1] < ss[2]}
  BY DEF OpToRel
<1>2. IsWellFoundedOn(R, Nat)
  BY NatLessThanWellFounded
<1> HIDE DEF R
<1>3. PICK j \in J : \A k \in J : ~(<<k, j>> \in R)
  BY <1>2, WFMin
<1>4. ASSUME NEW k \in J PROVE j <= k
  <2>1. ~(<<k, j>> \in R)
    BY <1>3
  <2>2. k \in Nat /\ j \in Nat
    OBVIOUS
  <2>3. ~(k < j)
    BY <1>1, <2>1, <2>2
  <2> QED
    BY <2>2, <2>3
<1> QED
  BY <1>4

\* Induction over an interval: a set that holds its start and, with each
\* member, the next one.
LEMMA IntervalInduction ==
  ASSUME NEW a \in Int, NEW b \in Int, NEW S, a \in S,
         \A k \in a .. b : k > a /\ k - 1 \in S => k \in S
  PROVE  \A k \in a .. b : k \in S
<1> DEFINE K == {n \in Nat : a + n <= b /\ a + n \notin S}
<1>1. K = {}
  <2>1. SUFFICES ASSUME K # {} PROVE FALSE
    OBVIOUS
  <2>2. PICK n \in K : \A m \in K : n <= m
    BY <2>1, Least
  <2>3. n \in Nat /\ a + n <= b /\ a + n \notin S
    OBVIOUS
  <2>4. n # 0
    BY <2>3
  <2>5. n - 1 \in Nat /\ n - 1 \notin K
    BY <2>2, <2>3, <2>4
  <2>6. a + (n - 1) \in S
    BY <2>3, <2>5
  <2>7. a + n \in a .. b /\ a + n > a /\ (a + n) - 1 = a + (n - 1)
    BY <2>3, <2>4
  <2> QED
    BY <2>3, <2>6, <2>7
<1>2. ASSUME NEW k \in a .. b PROVE k \in S
  <2>1. k - a \in Nat /\ a + (k - a) = k /\ a + (k - a) <= b
    OBVIOUS
  <2> QED
    BY <1>1, <2>1
<1> QED
  BY <1>2

\* f iterates F from a starting value.
Iterates(f, base, F) == f[0] = base /\ \A n \in Nat : f[n + 1] = F[<<n, f[n]>>]

LEMMA Iteration ==
  ASSUME NEW V, NEW base \in V, NEW F \in [Nat \X V -> V]
  PROVE  \E f \in [Nat -> V] : Iterates(f, base, F)
<1> DEFINE Good(n, f) == /\ f \in [0 .. n -> V] /\ f[0] = base
                         /\ \A k \in 0 .. n : k < n => f[k + 1] = F[<<k, f[k]>>]
           J == {n \in Nat : ~ \E f : Good(n, f)}
<1>1. J = {}
  <2>1. SUFFICES ASSUME J # {} PROVE FALSE
    OBVIOUS
  <2>2. PICK n \in J : \A k \in J : n <= k
    BY <2>1, Least
  <2>3. n # 0
    <3> DEFINE f == [k \in 0 .. 0 |-> base]
    <3>1. Good(0, f)
      OBVIOUS
    <3> QED
      BY <2>2, <3>1
  <2>4. n \in Nat /\ n - 1 \in Nat /\ n - 1 \notin J
    <3>1. J \subseteq Nat
      OBVIOUS
    <3> HIDE DEF J
    <3> QED
      BY <2>2, <2>3, <3>1
  <2>5. PICK f : Good(n - 1, f)
    BY <2>4
  <2> DEFINE g == [k \in 0 .. n |-> IF k = n THEN F[<<n - 1, f[n - 1]>>] ELSE f[k]]
  <2>6. f \in [0 .. n - 1 -> V] /\ f[n - 1] \in V
    BY <2>4, <2>5
  <2>7. <<n - 1, f[n - 1]>> \in Nat \X V
    BY <2>4, <2>6
  <2>8. g \in [0 .. n -> V] /\ g[0] = base
    BY <2>4, <2>5, <2>6, <2>7
  <2>9. ASSUME NEW k \in 0 .. n, k < n PROVE g[k + 1] = F[<<k, g[k]>>]
    <3>1. g[k] = f[k]
      BY <2>4, <2>9
    <3>2. CASE k = n - 1
      BY <2>4, <3>1, <3>2
    <3>3. CASE k # n - 1
      <4>1. k \in 0 .. n - 1 /\ k < n - 1 /\ k + 1 \in 0 .. n /\ k + 1 # n
        BY <2>4, <2>9, <3>3
      <4>2. f[k + 1] = F[<<k, f[k]>>]
        BY <2>5, <4>1
      <4> QED
        BY <3>1, <4>1, <4>2
    <3> QED
      BY <3>2, <3>3
  <2>10. Good(n, g)
    BY <2>8, <2>9
  <2> QED
    BY <2>2, <2>10
<1>2. ASSUME NEW n \in Nat, NEW m \in Nat, NEW f, NEW g, Good(n, f), Good(m, g),
             n <= m
      PROVE  \A k \in 0 .. n : f[k] = g[k]
  <2> DEFINE K == {k \in Nat : k <= n /\ f[k] # g[k]}
  <2>1. SUFFICES K = {}
    OBVIOUS
  <2>2. SUFFICES ASSUME K # {} PROVE FALSE
    OBVIOUS
  <2>3. PICK k \in K : \A l \in K : k <= l
    BY <2>2, Least
  <2>4. k # 0
    BY <1>2, <2>3
  <2>5. k - 1 \in Nat /\ k - 1 \notin K /\ k - 1 < n /\ k - 1 < m /\ k \in Nat
    BY <1>2, <2>3, <2>4
  <2>6. f[k - 1] = g[k - 1]
    BY <2>5
  <2>7. f[(k - 1) + 1] = F[<<k - 1, f[k - 1]>>] /\ g[(k - 1) + 1] = F[<<k - 1, g[k - 1]>>]
    BY <1>2, <2>5
  <2>8. (k - 1) + 1 = k
    BY <2>5
  <2> QED
    BY <2>3, <2>6, <2>7, <2>8
<1> DEFINE h == [n \in Nat |-> CHOOSE f : Good(n, f)]
           r == [n \in Nat |-> h[n][n]]
<1>3. ASSUME NEW n \in Nat PROVE Good(n, h[n])
  BY <1>1
<1>4. ASSUME NEW n \in Nat PROVE r[n] \in V
  <2>1. h[n] \in [0 .. n -> V] /\ n \in 0 .. n
    <3> HIDE DEF h
    <3> QED
      BY <1>3
  <2>2. r[n] = h[n][n]
    OBVIOUS
  <2> QED
    BY <2>1, <2>2
<1>5. r[0] = base
  BY <1>3
<1>6. ASSUME NEW n \in Nat PROVE r[n + 1] = F[<<n, r[n]>>]
  <2> HIDE DEF h
  <2>1. Good(n, h[n]) /\ Good(n + 1, h[n + 1]) /\ n + 1 \in Nat /\ n <= n + 1
    <3>1. n + 1 \in Nat /\ n <= n + 1
      OBVIOUS
    <3> HIDE DEF Good
    <3> QED
      BY <1>3, <3>1
  <2>2. h[n][n] = h[n + 1][n]
    <3>1. n \in 0 .. n
      OBVIOUS
    <3> HIDE DEF Good
    <3> QED
      BY <1>2, <2>1, <3>1
  <2>3. h[n + 1][n + 1] = F[<<n, h[n + 1][n]>>]
    <3>1. n \in 0 .. n + 1 /\ n < n + 1
      OBVIOUS
    <3> QED
      BY <2>1, <3>1
  <2>4. r[n + 1] = h[n + 1][n + 1] /\ r[n] = h[n][n]
    BY <2>1
  <2> QED
    BY <2>2, <2>3, <2>4
<1>7. r \in [Nat -> V]
  BY <1>4
<1> HIDE DEF r
<1>8. Iterates(r, base, F)
  BY <1>5, <1>6 DEF Iterates
<1> QED
  BY <1>7, <1>8

\* The recursions of the model run over an interval: a value at its start,
\* each further one from the one before.
Recurs(f, a, b, base, F) ==
  \A k \in a - 1 .. b : f[k] = IF k < a THEN base ELSE F[<<k, f[k - 1]>>]

LEMMA Recursion ==
  ASSUME NEW a \in Int, NEW b \in Int, NEW V, NEW base \in V,
         NEW F \in [(a .. b) \X V -> V]
  PROVE  \E f \in [a - 1 .. b -> V] : Recurs(f, a, b, base, F)
<1> DEFINE G == [x \in Nat \X V |-> IF x[1] + a <= b THEN F[<<x[1] + a, x[2]>>]
                                                    ELSE base]
<1>1. ASSUME NEW n \in Nat, NEW v \in V
      PROVE  /\ G[<<n, v>>] \in V
             /\ n + a <= b => G[<<n, v>>] = F[<<n + a, v>>]
  <2>1. <<n, v>> \in Nat \X V
    OBVIOUS
  <2>2. n + a <= b => <<n + a, v>> \in (a .. b) \X V
    OBVIOUS
  <2> QED
    BY <2>1, <2>2
<1>2. G \in [Nat \X V -> V]
  BY <1>1
<1> HIDE DEF G
<1>3. PICK g \in [Nat -> V] : g[0] = base /\ \A n \in Nat : g[n + 1] = G[<<n, g[n]>>]
  <2>1. \E g \in [Nat -> V] : Iterates(g, base, G)
    BY <1>2, Iteration
  <2> QED
    BY <2>1 DEF Iterates
<1> DEFINE f == [k \in a - 1 .. b |-> g[k - (a - 1)]]
<1>4. ASSUME NEW k \in a - 1 .. b
      PROVE  f[k] \in V /\ f[k] = IF k < a THEN base ELSE F[<<k, f[k - 1]>>]
  <2>1. k - (a - 1) \in Nat /\ f[k] = g[k - (a - 1)]
    OBVIOUS
  <2>2. CASE k < a
    <3>1. k - (a - 1) = 0
      BY <2>2
    <3> QED
      BY <1>3, <2>1, <2>2, <3>1
  <2>3. CASE ~(k < a)
    <3>1. k - a \in Nat /\ (k - a) + 1 = k - (a - 1) /\ (k - a) + a = k /\ k <= b
          /\ (k - 1) - (a - 1) = k - a /\ k - 1 \in a - 1 .. b
      BY <2>3
    <3>2. f[k - 1] = g[k - a]
      BY <3>1
    <3>3. g[(k - a) + 1] = G[<<k - a, g[k - a]>>]
      BY <1>3, <3>1
    <3>4. G[<<k - a, g[k - a]>>] = F[<<(k - a) + a, g[k - a]>>]
      BY <1>1, <1>3, <3>1
    <3> QED
      BY <2>1, <2>3, <3>1, <3>2, <3>3, <3>4
  <2> QED
    BY <2>2, <2>3
<1>5. f \in [a - 1 .. b -> V] /\ Recurs(f, a, b, base, F)
  BY <1>4 DEF Recurs
<1> QED
  BY <1>5

-----------------------------------------------------------------------------
\* Numbers in 16-bit limbs (Wide.tla).

Limb == 0 .. 65535

LEMMA LimbModulo ==
  ASSUME NEW x \in Int
  PROVE  x % 65536 \in Limb
  BY DEF Limb

LEMMA LimbNat ==
  ASSUME NEW x \in Limb
  PROVE  x \in Nat /\ x <= 65535
  BY DEF Limb

LEMMA FromZero ==
  ASSUME NEW n \in Nat, NEW x \in Int, x >= 0, x <= n
  PROVE  x \in 0 .. n
  OBVIOUS

LEMMA LimbOf ==
  ASSUME NEW x \in Int, x >= 0, x <= 65535
  PROVE  x \in Limb
<1> DEFINE top == 65535
<1>1. top \in Nat /\ x <= top
  OBVIOUS
<1>2. Limb = 0 .. top
  BY DEF Limb
<1> HIDE DEF top
<1>3. x \in 0 .. top
  BY <1>1, FromZero
<1> QED
  BY <1>2, <1>3

\* The limbs before the carries are taken off.
Products(v, base) == [i \in 1 .. Len(v) |-> v[i] * base]

IsSum(t, v, base, digit) ==
  \A i \in 1 .. Len(v) :
    t[i] = v[i] * base + (IF i = 1 THEN digit ELSE t[i - 1] \div 65536)

Carried(t, v, w) == w = [i \in 1 .. Len(v) |-> t[i] % 65536]

LEMMA MulAddSum ==
  ASSUME NEW v \in Seq(Nat), Len(v) > 0, NEW base \in Nat, NEW digit \in Int
  PROVE  \E t \in [1 .. Len(v) -> Int] :
           IsSum(t, v, base, digit) /\ Carried(t, v, MulAdd(v, base, digit))
<1> DEFINE n == Len(v)
           P == Products(v, base)
           F == [x \in (2 .. n) \X Int |-> P[x[1]] + (x[2] \div 65536)]
<1>1. n \in Nat /\ n > 0 /\ 1 \in 1 .. n /\ DOMAIN v = 1 .. n
  OBVIOUS
<1>2. P \in [1 .. n -> Nat] /\ \A i \in 1 .. n : P[i] = v[i] * base
  <2>1. ASSUME NEW i \in 1 .. n PROVE v[i] * base \in Nat
    <3>1. v[i] \in Nat
      OBVIOUS
    <3> QED
      BY <3>1
  <2> QED
    BY <2>1 DEF Products
<1> HIDE DEF n, P
<1>3. F \in [(2 .. n) \X Int -> Int]
  <2>1. ASSUME NEW x \in (2 .. n) \X Int PROVE P[x[1]] + (x[2] \div 65536) \in Int
    <3>1. x[1] \in 1 .. n /\ x[2] \in Int
      BY <1>1
    <3>2. P[x[1]] \in Nat /\ x[2] \div 65536 \in Int
      BY <1>2, <3>1
    <3> QED
      BY <3>2
  <2> QED
    BY <2>1
<1>4. P[1] + digit \in Int
  BY <1>1, <1>2
<1>5. PICK f \in [1 .. n -> Int] : Recurs(f, 2, n, P[1] + digit, F)
  <2>1. 2 \in Int /\ n \in Int /\ 2 - 1 = 1
    BY <1>1
  <2> HIDE DEF F
  <2>2. \E f \in [2 - 1 .. n -> Int] : Recurs(f, 2, n, P[1] + digit, F)
    BY <1>3, <1>4, <2>1, Recursion
  <2> QED
    BY <2>1, <2>2
<1>6. ASSUME NEW i \in 1 .. n
      PROVE  f[i] = P[i] + (IF i = 1 THEN digit ELSE f[i - 1] \div 65536)
  <2>1. f[i] = IF i < 2 THEN P[1] + digit ELSE F[<<i, f[i - 1]>>]
    <3> HIDE DEF F
    <3>1. \A k \in 2 - 1 .. n : f[k] = IF k < 2 THEN P[1] + digit ELSE F[<<k, f[k - 1]>>]
      BY <1>5 DEF Recurs
    <3> QED
      BY <3>1
  <2>2. CASE i = 1
    BY <2>1, <2>2
  <2>3. CASE i # 1
    <3>1. i \in 2 .. n /\ i - 1 \in 1 .. n /\ ~(i < 2)
      BY <1>1, <2>3
    <3>2. <<i, f[i - 1]>> \in (2 .. n) \X Int
      BY <3>1
    <3>3. F[<<i, f[i - 1]>>] = P[i] + (f[i - 1] \div 65536)
      BY <3>2
    <3> HIDE DEF F
    <3> QED
      BY <2>1, <2>3, <3>1, <3>3
  <2> QED
    BY <2>2, <2>3
<1>7. IsSum(f, v, base, digit)
  BY <1>2, <1>6 DEF IsSum, n
<1> DEFINE E(u) == [i \in 1 .. n |->
                      v[i] * base + (IF i = 1 THEN digit ELSE u[i - 1] \div 65536)]
           t == CHOOSE u : u = E(u)
<1>8. f = E(f)
  BY <1>2, <1>6
<1>9. t = E(t)
  <2> HIDE DEF E
  <2> QED
    BY <1>8
<1>10. MulAdd(v, base, digit) = [i \in 1 .. n |-> t[i] % 65536]
  <2>1. MulAdd(v, base, digit) = [i \in 1 .. Len(v) |-> t[i] % 65536]
    BY DEF MulAdd, n
  <2> QED
    BY <2>1 DEF n
<1> HIDE DEF t
<1>11. \A i \in 1 .. n : t[i] = f[i]
  <2> DEFINE S == {i \in 1 .. n : t[i] = f[i]}
  <2>3. ASSUME NEW i \in 1 .. n
        PROVE  t[i] = P[i] + (IF i = 1 THEN digit ELSE t[i - 1] \div 65536)
    <3>1. i \in 1 .. n
      OBVIOUS
    <3>2. t[i] = v[i] * base + (IF i = 1 THEN digit ELSE t[i - 1] \div 65536)
      <4>1. E(t)[i] = v[i] * base + (IF i = 1 THEN digit ELSE t[i - 1] \div 65536)
        BY <3>1
      <4> HIDE DEF E
      <4> QED
        BY <1>9, <4>1
    <3> HIDE DEF E
    <3> QED
      BY <1>2, <3>1, <3>2
  <2> HIDE DEF E, F
  <2>4. 1 \in Int /\ n \in Int /\ 1 \in S
    BY <1>1, <1>6, <2>3
  <2>5. ASSUME NEW i \in 1 .. n, i > 1, i - 1 \in S PROVE i \in S
    BY <1>6, <2>3, <2>5
  <2> HIDE DEF S
  <2>6. \A i \in 1 .. n : i \in S
    BY <2>4, <2>5, IntervalInduction
  <2> QED
    BY <2>6 DEF S
<1>12. MulAdd(v, base, digit) = [i \in 1 .. n |-> f[i] % 65536]
  BY <1>10, <1>11
<1>13. f \in [1 .. Len(v) -> Int] /\ Carried(f, v, MulAdd(v, base, digit))
  BY <1>12 DEF n, Carried
<1> QED
  BY <1>7, <1>13

\* A number in n limbs.
WideNum(n) == {v \in Seq(Nat) : Len(v) = n /\ \A i \in 1 .. n : v[i] \in Limb}

LEMMA WideFacts ==
  ASSUME NEW n, NEW v \in WideNum(n)
  PROVE  v \in Seq(Nat) /\ Len(v) = n /\ \A i \in 1 .. n : v[i] \in Limb
  BY DEF WideNum

LEMMA WideNumOf ==
  ASSUME NEW n \in Nat, NEW v, v = [i \in 1 .. n |-> v[i]],
         \A i \in 1 .. n : v[i] \in Limb
  PROVE  v \in WideNum(n)
<1>1. \A i \in 1 .. n : v[i] \in Nat
  BY LimbNat
<1>2. v \in Seq(Nat) /\ Len(v) = n
  BY <1>1
<1> QED
  BY <1>2 DEF WideNum

LEMMA ZeroWide ==
  ASSUME NEW n \in Nat
  PROVE  Zero(n) \in WideNum(n) /\ \A i \in 1 .. n : Zero(n)[i] = 0
<1>1. 0 \in Limb
  BY DEF Limb
<1>2. Zero(n) = [i \in 1 .. n |-> Zero(n)[i]] /\ \A i \in 1 .. n : Zero(n)[i] = 0
  BY DEF Zero
<1> QED
  BY <1>1, <1>2, WideNumOf

LEMMA MulAddWide ==
  ASSUME NEW n \in Nat, n > 0, NEW v \in WideNum(n), NEW base \in Nat,
         NEW digit \in Int
  PROVE  MulAdd(v, base, digit) \in WideNum(n)
<1>1. v \in Seq(Nat) /\ Len(v) = n
  BY DEF WideNum
<1>2. PICK t \in [1 .. Len(v) -> Int] :
        IsSum(t, v, base, digit) /\ Carried(t, v, MulAdd(v, base, digit))
  BY <1>1, MulAddSum
<1> DEFINE m == MulAdd(v, base, digit)
<1>3. m = [i \in 1 .. n |-> t[i] % 65536]
  BY <1>1, <1>2 DEF Carried
<1> HIDE DEF m
<1>4. ASSUME NEW i \in 1 .. n PROVE m[i] \in Limb
  <2>1. t[i] \in Int /\ m[i] = t[i] % 65536
    BY <1>1, <1>3
  <2> QED
    BY <2>1, LimbModulo
<1>5. m = [i \in 1 .. n |-> m[i]]
  BY <1>3
<1> QED
  BY <1>4, <1>5, WideNumOf DEF m

LEMMA Low64Wide ==
  ASSUME NEW n \in Nat, n >= 4, NEW v \in WideNum(n)
  PROVE  /\ Low64(v) \in WideNum(4)
         /\ \A i \in 1 .. 4 : Low64(v)[i] = v[i] /\ i \in 1 .. n
<1>1. \A i \in 1 .. 4 : i \in 1 .. n
  OBVIOUS
<1>2. Low64(v) = [i \in 1 .. 4 |-> v[i]]
  BY DEF Low64, Limbs64
<1>3. Low64(v) = [i \in 1 .. 4 |-> Low64(v)[i]]
      /\ \A i \in 1 .. 4 : Low64(v)[i] = v[i]
  BY <1>2
<1>4. \A i \in 1 .. 4 : Low64(v)[i] \in Limb
  BY <1>1, <1>3 DEF WideNum
<1> QED
  BY <1>1, <1>3, <1>4, WideNumOf

\* Arithmetic modulo 2^64 does not need the higher limbs.
LEMMA MulAddLow ==
  ASSUME NEW n \in Nat, n >= 4, NEW v \in WideNum(n), NEW base \in Nat,
         NEW digit \in Int
  PROVE  MulAdd(Low64(v), base, digit) = Low64(MulAdd(v, base, digit))
<1> DEFINE w == Low64(v)
<1>1. v \in Seq(Nat) /\ Len(v) = n /\ Len(v) > 0
  BY DEF WideNum
<1>2. w \in WideNum(4) /\ \A i \in 1 .. 4 : w[i] = v[i] /\ i \in 1 .. n
  BY Low64Wide
<1> HIDE DEF w
<1>3. w \in Seq(Nat) /\ Len(w) = 4 /\ Len(w) > 0
  <2>1. w \in Seq(Nat) /\ Len(w) = 4
    BY <1>2, WideFacts
  <2> QED
    BY <2>1
<1>4. PICK t \in [1 .. Len(v) -> Int] :
        IsSum(t, v, base, digit) /\ Carried(t, v, MulAdd(v, base, digit))
  BY <1>1, MulAddSum
<1>5. PICK u \in [1 .. Len(w) -> Int] :
        IsSum(u, w, base, digit) /\ Carried(u, w, MulAdd(w, base, digit))
  BY <1>3, MulAddSum
<1> DEFINE P(i) == v[i] * base
<1>6. ASSUME NEW i \in 1 .. 4
      PROVE  t[i] = P(i) + (IF i = 1 THEN digit ELSE t[i - 1] \div 65536)
  <2>1. i \in 1 .. Len(v)
    BY <1>1, <1>2
  <2> QED
    BY <1>4, <2>1 DEF IsSum
<1>7. ASSUME NEW i \in 1 .. 4
      PROVE  u[i] = P(i) + (IF i = 1 THEN digit ELSE u[i - 1] \div 65536)
  <2>1. i \in 1 .. Len(w) /\ w[i] = v[i]
    BY <1>2, <1>3
  <2> QED
    BY <1>5, <2>1 DEF IsSum
<1> HIDE DEF P
<1>8. t[1] = u[1] /\ (t[1] = u[1] => t[2] = u[2]) /\ (t[2] = u[2] => t[3] = u[3])
      /\ (t[3] = u[3] => t[4] = u[4])
  BY <1>6, <1>7
<1>9. \A i \in 1 .. 4 : t[i] = u[i]
  BY <1>8
<1>10. MulAdd(w, base, digit) = [i \in 1 .. 4 |-> u[i] % 65536]
  BY <1>3, <1>5 DEF Carried
<1>11. MulAdd(v, base, digit) = [i \in 1 .. n |-> t[i] % 65536]
  BY <1>1, <1>4 DEF Carried
<1>12. Low64(MulAdd(v, base, digit)) = [i \in 1 .. 4 |-> t[i] % 65536]
  BY <1>2, <1>11 DEF Low64, Limbs64
<1> QED
  BY <1>9, <1>10, <1>12 DEF w

LEMMA InvertWide ==
  ASSUME NEW n \in Nat, NEW v \in WideNum(n)
  PROVE  Invert(v) \in WideNum(n) /\ \A i \in 1 .. n : Invert(v)[i] = 65535 - v[i]
<1>1. Len(v) = n /\ \A i \in 1 .. n : v[i] \in Limb
  BY DEF WideNum
<1>2. Invert(v) = [i \in 1 .. n |-> Invert(v)[i]]
      /\ \A i \in 1 .. n : Invert(v)[i] = 65535 - v[i]
  BY <1>1 DEF Invert
<1>3. ASSUME NEW i \in 1 .. n PROVE Invert(v)[i] \in Limb
  <2>1. v[i] \in Nat /\ v[i] <= 65535
    BY <1>1, LimbNat
  <2>2. Invert(v)[i] = 65535 - v[i]
    BY <1>2
  <2>3. 65535 - v[i] \in Limb
    BY <2>1, LimbOf
  <2> QED
    BY <2>2, <2>3
<1> QED
  BY <1>2, <1>3, WideNumOf

LEMMA NegateLow ==
  ASSUME NEW n \in Nat, n >= 4, NEW v \in WideNum(n)
  PROVE  /\ Negate(v) \in WideNum(n)
         /\ Negate(Low64(v)) = Low64(Negate(v))
<1>1. Invert(v) \in WideNum(n) /\ \A i \in 1 .. n : Invert(v)[i] = 65535 - v[i]
  BY InvertWide
<1>2. Low64(v) \in WideNum(4) /\ \A i \in 1 .. 4 : Low64(v)[i] = v[i] /\ i \in 1 .. n
  BY Low64Wide
<1>3. Invert(Low64(v)) = Low64(Invert(v))
  <2>1. Len(Low64(v)) = 4
    BY <1>2 DEF WideNum
  <2>2. Invert(Low64(v)) = [i \in 1 .. 4 |-> 65535 - Low64(v)[i]]
    BY <2>1 DEF Invert
  <2>3. Low64(Invert(v)) = [i \in 1 .. 4 |-> Invert(v)[i]]
    BY DEF Low64, Limbs64
  <2> QED
    BY <1>1, <1>2, <2>2, <2>3
<1>4. MulAdd(Invert(v), 1, 1) \in WideNum(n)
  BY <1>1, MulAddWide
<1>5. MulAdd(Low64(Invert(v)), 1, 1) = Low64(MulAdd(Invert(v), 1, 1))
  BY <1>1, MulAddLow
<1> QED
  BY <1>3, <1>4, <1>5 DEF Negate

\* The limbs of w above the fourth extend its sign.
Extends(w, n, h) ==
  /\ \A i \in 5 .. n : w[i] = h
  /\ w[4] >= 32768 => h = 65535
  /\ w[4] < 32768 => h = 0

\* A number below 2^63 in n limbs.
Small(v, n) == v[4] < 32768 /\ \A i \in 5 .. n : v[i] = 0

LEMMA SignExtendLow ==
  ASSUME NEW n \in Nat, n >= 4, NEW w \in WideNum(n), NEW h \in Nat,
         Extends(w, n, h)
  PROVE  SignExtend(Low64(w), n) = w
<1> DEFINE u == Low64(w)
<1>1. w \in Seq(Nat) /\ Len(w) = n
  BY WideFacts
<1>2. u \in WideNum(4) /\ \A i \in 1 .. 4 : u[i] = w[i] /\ i \in 1 .. n
  BY Low64Wide
<1>3. u \in WideNum(4)
  BY <1>2
<1> HIDE DEF u
<1>4. Len(u) = 4 /\ u[4] = w[4] /\ w[4] \in Nat
  <2>1. Len(u) = 4
    BY <1>3 DEF WideNum
  <2> QED
    BY <1>1, <1>2, <2>1
<1>5. IsNegative(u) <=> w[4] >= 32768
  BY <1>4 DEF IsNegative
<1>6. SignExtend(u, n) = [i \in 1 .. n |-> IF i <= 4 THEN u[i]
                                          ELSE IF IsNegative(u) THEN 65535 ELSE 0]
  BY <1>4 DEF SignExtend
<1>7. ASSUME NEW i \in 1 .. n
      PROVE  w[i] = IF i <= 4 THEN u[i] ELSE IF IsNegative(u) THEN 65535 ELSE 0
  <2>1. CASE i <= 4
    BY <1>2, <2>1
  <2>2. CASE ~(i <= 4)
    <3>1. i \in 5 .. n
      BY <2>2
    <3>2. w[i] = h
      BY <3>1 DEF Extends
    <3>3. h = IF IsNegative(u) THEN 65535 ELSE 0
      BY <1>4, <1>5 DEF Extends
    <3> QED
      BY <2>2, <3>2, <3>3
  <2> QED
    BY <2>1, <2>2
<1>8. w = [i \in 1 .. n |-> w[i]]
  BY <1>1
<1>9. [i \in 1 .. n |-> w[i]]
        = [i \in 1 .. n |-> IF i <= 4 THEN u[i]
                            ELSE IF IsNegative(u) THEN 65535 ELSE 0]
  BY <1>7
<1>10. SignExtend(u, n) = w
  BY <1>6, <1>8, <1>9
<1> QED
  BY <1>10 DEF u

\* One limb x of a negation: the carry c comes in, k goes out, r is left.
\* A limb that is 0 passes the carry on; a small one leaves the sign bit set
\* exactly when nothing is carried.
NegatedLimb(x, c, k, r) ==
  /\ k = 0 \/ k = 1
  /\ x = 0 => k = c /\ r = (IF c = 0 THEN 65535 ELSE 0)
  /\ x < 32768 => (r >= 32768 <=> k = 0)

LEMMA NegateCarry ==
  ASSUME NEW x \in Nat, x <= 65535, NEW c \in Int, c = 0 \/ c = 1, NEW t \in Int,
         t = (65535 - x) + c
  PROVE  NegatedLimb(x, c, t \div 65536, t % 65536)
<1>1. t \in Int /\ t >= 0 /\ t <= 65536
  OBVIOUS
<1>2. CASE t = 65536
  <2>1. t \div 65536 = 1 /\ t % 65536 = 0 /\ x = 0 /\ c = 1
    BY <1>2
  <2> QED
    BY <2>1 DEF NegatedLimb
<1>3. CASE t < 65536
  <2>1. t \div 65536 = 0 /\ t % 65536 = t
    BY <1>1, <1>3
  <2>2. x = 0 => 0 = c /\ t = (IF c = 0 THEN 65535 ELSE 0)
    BY <1>3
  <2>3. x < 32768 => t >= 32768
    BY <1>3
  <2> QED
    BY <2>1, <2>2, <2>3 DEF NegatedLimb
<1> QED
  BY <1>1, <1>2, <1>3

\* The carries k of the negation of v.
Negation(k, v, n) ==
  /\ k[0] = 1
  /\ \A i \in 1 .. n : (k[i - 1] = 0 \/ k[i - 1] = 1)
                         => NegatedLimb(v[i], k[i - 1], k[i], Negate(v)[i])

LEMMA NegateSum ==
  ASSUME NEW n \in Nat, n >= 4, NEW v \in WideNum(n)
  PROVE  \E k \in [0 .. n -> Int] : Negation(k, v, n)
<1> DEFINE c == Invert(v)
           w == Negate(v)
<1>1. v \in Seq(Nat) /\ Len(v) = n /\ \A i \in 1 .. n : v[i] \in Limb
  BY WideFacts
<1>2. c \in WideNum(n) /\ \A i \in 1 .. n : c[i] = 65535 - v[i]
  BY InvertWide
<1>3. w = MulAdd(c, 1, 1)
  BY DEF Negate
<1>4. c \in WideNum(n)
  BY <1>2
<1> HIDE DEF c, w
<1>5. c \in Seq(Nat) /\ Len(c) = n
  BY <1>4, WideFacts
<1>6. Len(c) > 0
  BY <1>5
<1>7. PICK t \in [1 .. Len(c) -> Int] : IsSum(t, c, 1, 1) /\ Carried(t, c, MulAdd(c, 1, 1))
  <2>1. ASSUME NEW b \in Nat, NEW d \in Int
        PROVE  \E t \in [1 .. Len(c) -> Int] : IsSum(t, c, b, d) /\ Carried(t, c, MulAdd(c, b, d))
    BY <1>5, <1>6, MulAddSum
  <2>2. 1 \in Nat /\ 1 \in Int
    OBVIOUS
  <2> QED
    BY <2>1, <2>2
<1>8. t \in [1 .. n -> Int]
  BY <1>5, <1>7
<1> DEFINE k == [i \in 0 .. n |-> IF i = 0 THEN 1 ELSE t[i] \div 65536]
<1>9. k \in [0 .. n -> Int]
  <2>1. ASSUME NEW i \in 0 .. n PROVE (IF i = 0 THEN 1 ELSE t[i] \div 65536) \in Int
    <3>1. CASE i = 0
      BY <3>1
    <3>2. CASE i # 0
      <4>1. t[i] \in Int
        BY <1>8, <3>2
      <4> QED
        BY <3>2, <4>1
    <3> QED
      BY <3>1, <3>2
  <2> QED
    BY <2>1
<1>10. k[0] = 1
  OBVIOUS
<1>11. ASSUME NEW i \in 1 .. n
       PROVE  k[i] = t[i] \div 65536
  OBVIOUS
<1>12. ASSUME NEW i \in 1 .. n
       PROVE  t[i] = c[i] * 1 + (IF i = 1 THEN 1 ELSE t[i - 1] \div 65536)
  BY <1>5, <1>7 DEF IsSum
<1>13. ASSUME NEW i \in 1 .. n
       PROVE  w[i] = t[i] % 65536
  BY <1>3, <1>5, <1>7 DEF Carried
<1> HIDE DEF k
<1>14. ASSUME NEW i \in 1 .. n, k[i - 1] = 0 \/ k[i - 1] = 1
       PROVE  NegatedLimb(v[i], k[i - 1], k[i], w[i])
  <2>1. v[i] \in Limb
    BY <1>1
  <2>2. v[i] \in Nat /\ v[i] <= 65535
    BY <2>1, LimbNat
  <2>3. (IF i = 1 THEN 1 ELSE t[i - 1] \div 65536) = k[i - 1]
    <3>1. CASE i = 1
      BY <1>10, <3>1
    <3>2. CASE i # 1
      <4>1. i - 1 \in 1 .. n
        BY <3>2
      <4> QED
        BY <1>11, <3>2, <4>1
    <3> QED
      BY <3>1, <3>2
  <2>4. c[i] = 65535 - v[i]
    BY <1>2
  <2>5. t[i] = (65535 - v[i]) + k[i - 1]
    <3>1. c[i] * 1 = 65535 - v[i]
      BY <2>2, <2>4
    <3> QED
      BY <1>12, <2>3, <3>1
  <2>6. k[i - 1] \in Int
    BY <1>14
  <2>7. NegatedLimb(v[i], k[i - 1], t[i] \div 65536, t[i] % 65536)
    <3> DEFINE x == v[i]
               y == k[i - 1]
               s == t[i]
    <3>1. x \in Nat /\ x <= 65535
      BY <2>2
    <3>2. y \in Int /\ (y = 0 \/ y = 1)
      BY <1>14, <2>6
    <3>3. s = (65535 - x) + y
      BY <2>5
    <3> HIDE DEF x, y, s
    <3>4. NegatedLimb(x, y, s \div 65536, s % 65536)
      <4>1. x \in Nat /\ y \in Int /\ s \in Int
        BY <3>1, <3>2, <3>3
      <4> QED
        BY <3>1, <3>2, <3>3, <4>1, NegateCarry
    <3> QED
      BY <3>4 DEF x, y, s
  <2> QED
    BY <1>11, <1>13, <2>7
<1>15. Negation(k, v, n)
  BY <1>10, <1>14 DEF Negation, w
<1> QED
  BY <1>9, <1>15

\* A number below 2^63, and its negative, survive in four limbs.
LEMMA SmallExact ==
  ASSUME NEW n \in Nat, n >= 4, NEW v \in WideNum(n), Small(v, n)
  PROVE  /\ SignExtend(Low64(v), n) = v
         /\ SignExtend(Low64(Negate(v)), n) = Negate(v)
<1> DEFINE w == Negate(v)
<1>1. v[4] < 32768 /\ \A i \in 5 .. n : v[i] = 0
  BY DEF Small
<1>2. v \in Seq(Nat) /\ Len(v) = n
  BY WideFacts
<1>3. 4 \in 1 .. n /\ v[4] \in Nat
  BY <1>2
<1>4. SignExtend(Low64(v), n) = v
  <2>1. 0 \in Nat /\ Extends(v, n, 0)
    BY <1>1, <1>3 DEF Extends
  <2> QED
    BY <2>1, SignExtendLow
<1>5. w \in WideNum(n)
  BY NegateLow
<1>6. PICK k \in [0 .. n -> Int] : Negation(k, v, n)
  BY NegateSum
<1>7. ASSUME NEW i \in 1 .. n, k[i - 1] = 0 \/ k[i - 1] = 1
      PROVE  /\ k[i] = 0 \/ k[i] = 1
             /\ v[i] = 0 => k[i] = k[i - 1] /\ w[i] = (IF k[i - 1] = 0 THEN 65535 ELSE 0)
             /\ v[i] < 32768 => (w[i] >= 32768 <=> k[i] = 0)
  BY <1>6, <1>7 DEF Negation, NegatedLimb
<1>8. k[0] = 1
  BY <1>6 DEF Negation
<1> HIDE DEF w
<1>9. 1 \in 1 .. n /\ 2 \in 1 .. n /\ 3 \in 1 .. n
  OBVIOUS
<1>10. k[1] = 0 \/ k[1] = 1
  BY <1>7, <1>8, <1>9
<1>11. k[2] = 0 \/ k[2] = 1
  BY <1>7, <1>9, <1>10
<1>12. k[3] = 0 \/ k[3] = 1
  BY <1>7, <1>9, <1>11
<1>13. (k[4] = 0 \/ k[4] = 1) /\ (w[4] >= 32768 <=> k[4] = 0)
  BY <1>1, <1>3, <1>7, <1>12
<1>14. ASSUME NEW i \in 5 .. n, k[i - 1] = k[4]
       PROVE  k[i] = k[4] /\ w[i] = (IF k[4] = 0 THEN 65535 ELSE 0)
  <2>1. i \in 1 .. n /\ v[i] = 0
    BY <1>1
  <2> QED
    BY <1>7, <1>13, <1>14, <2>1
<1>15. \A i \in 4 .. n : k[i] = k[4]
  <2> DEFINE S == {i \in 4 .. n : k[i] = k[4]}
  <2>1. 4 \in Int /\ n \in Int /\ 4 \in S
    OBVIOUS
  <2>2. ASSUME NEW i \in 4 .. n, i > 4, i - 1 \in S PROVE i \in S
    <3>1. i \in 5 .. n /\ k[i - 1] = k[4]
      BY <2>2
    <3>2. k[i] = k[4]
      BY <1>14, <3>1
    <3> QED
      BY <3>2
  <2> HIDE DEF S
  <2>3. \A i \in 4 .. n : i \in S
    BY <2>1, <2>2, IntervalInduction
  <2> QED
    BY <2>3 DEF S
<1> DEFINE h == IF k[4] = 0 THEN 65535 ELSE 0
<1>16. ASSUME NEW i \in 5 .. n PROVE w[i] = h
  <2>1. i - 1 \in 4 .. n
    OBVIOUS
  <2>2. k[i - 1] = k[4]
    BY <1>15, <2>1
  <2> QED
    BY <1>14, <2>2
<1>17. h \in Nat
  OBVIOUS
<1>18. w[4] >= 32768 => h = 65535
  BY <1>13
<1>19. w[4] < 32768 => h = 0
  <2>1. w[4] \in Nat
    <3>1. w \in Seq(Nat) /\ Len(w) = n
      BY <1>5, WideFacts
    <3> QED
      BY <1>3, <3>1
  <2> QED
    BY <1>13, <2>1
<1> HIDE DEF h
<1>20. SignExtend(Low64(w), n) = w
  <2>1. Extends(w, n, h)
    BY <1>16, <1>18, <1>19 DEF Extends
  <2> QED
    BY <1>5, <1>17, <2>1, SignExtendLow
<1> QED
  BY <1>4, <1>20 DEF w
=============================================================================
