------------------------------- MODULE Memory -------------------------------
(***************************************************************************)
(* The flat 64 KB memory of the machine (memory.c) and the widths of its   *)
(* values.  A memory is represented by its non-zero cells: a function      *)
(* whose domain is exactly the set of addresses holding a byte other than  *)
(* 0.  Two memories with the same contents are then the same value, and a  *)
(* state of the model is as small as the program that produced it.         *)
(***************************************************************************)
EXTENDS Integers, Sequences

Byte == {x \in Nat : x < 256}
Word == {x \in Nat : x < 65536}       \* uint16_t: values, addresses

\* A well-formed memory: bytes at addresses, no cell that holds 0.
IsMemory(m) ==
  /\ m = [a \in DOMAIN m |-> m[a]]
  /\ DOMAIN m \subseteq Word
  /\ \A a \in DOMAIN m : m[a] \in Byte \ {0}

mem_init == [a \in {} |-> 0]

mem_read8(m, addr) == IF addr \in DOMAIN m THEN m[addr] ELSE 0

mem_write8(m, addr, value) ==
  [a \in (IF value = 0 THEN DOMAIN m \ {addr} ELSE DOMAIN m \cup {addr})
     |-> IF a = addr THEN value ELSE m[a]]

\* Little endian; the second byte's address wraps at the top of memory.
mem_read16(m, addr) ==
  mem_read8(m, addr) + 256 * mem_read8(m, (addr + 1) % 65536)

\* Mutant: the low byte is not masked.
mem_write16_unmasked(m, addr, value) ==
  mem_write8(mem_write8(m, addr, value), (addr + 1) % 65536, value \div 256)

mem_write16(m, addr, value) ==
  mem_write8(mem_write8(m, addr, value % 256),
             (addr + 1) % 65536, value \div 256)

\* The loader's copy loop: bytes[1], bytes[2], ... to addr, addr + 1, ...
\* (callers have checked that the block ends inside the address space).
write_block(m, addr, bytes) ==
  LET region == addr .. addr + Len(bytes) - 1
      byte(a) == bytes[a - addr + 1]
  IN  [a \in (DOMAIN m \ region) \cup {x \in region : byte(x) # 0}
         |-> IF a \in region THEN byte(a) ELSE m[a]]
=============================================================================
