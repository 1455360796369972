------------------------------- MODULE Image -------------------------------
(***************************************************************************)
(* A .bvm file as the loader, the assembler and the disassembler see it:   *)
(* its length, its parsed header fields and the bytes after the header.    *)
(* The fields of a file shorter than a header are never looked at.         *)
(***************************************************************************)
EXTENDS Memory

BVM_HEADER_SIZE == 16

ImageFields == {"size", "magic", "version", "reserved", "entry_point",
                "code_size", "code_addr", "data_size", "data_addr", "body"}

IsImage(img) ==
  /\ img.size \in Nat
  /\ img.magic \in BOOLEAN            \* the file starts with "BVM1"
  /\ img.version \in Byte /\ img.reserved \in Byte
  /\ img.entry_point \in Word
  /\ img.code_size \in Word /\ img.code_addr \in Word
  /\ img.data_size \in Word /\ img.data_addr \in Word
  /\ img.body \in Seq(Byte)
  /\ img.size >= BVM_HEADER_SIZE => Len(img.body) = img.size - BVM_HEADER_SIZE

code_end(img) == img.code_addr + img.code_size
data_end(img) == img.data_addr + img.data_size

\* Mutant: no check that code and data are disjoint.
header_ok_overlapping(img) ==
  /\ img.size >= BVM_HEADER_SIZE
  /\ img.magic
  /\ img.version = 1 /\ img.reserved = 0
  /\ img.size >= BVM_HEADER_SIZE + img.code_size + img.data_size
  /\ code_end(img) <= 65536 /\ data_end(img) <= 65536
  /\ img.entry_point >= img.code_addr /\ img.entry_point < code_end(img)

\* Mutant: the file may be shorter than its header says.
header_ok_any_length(img) ==
  /\ img.size >= BVM_HEADER_SIZE
  /\ img.magic
  /\ img.version = 1 /\ img.reserved = 0
  /\ code_end(img) <= 65536 /\ data_end(img) <= 65536
  /\ img.entry_point >= img.code_addr /\ img.entry_point < code_end(img)
  /\ ~(img.code_addr < data_end(img) /\ img.data_addr < code_end(img))

\* The checks, in the order of the code; all of them precede any change.
header_ok(img) ==
  /\ img.size >= BVM_HEADER_SIZE
  /\ img.magic
  /\ img.version = 1 /\ img.reserved = 0
  /\ img.size >= BVM_HEADER_SIZE + img.code_size + img.data_size
  /\ code_end(img) <= 65536 /\ data_end(img) <= 65536
  /\ img.entry_point >= img.code_addr /\ img.entry_point < code_end(img)
  /\ ~(img.code_addr < data_end(img) /\ img.data_addr < code_end(img))

code_bytes(img) == SubSeq(img.body, 1, img.code_size)
data_bytes(img) ==
  SubSeq(img.body, img.code_size + 1, img.code_size + img.data_size)

\* Memory after the two copy loops.
loaded_memory(img) ==
  write_block(write_block(mem_init, img.code_addr, code_bytes(img)),
              img.data_addr, data_bytes(img))

\* Mutant: 0x10000 is truncated to 16 bits instead of clamped.
limit_of_truncated(img) ==
  (IF code_end(img) > data_end(img) THEN code_end(img) ELSE data_end(img))
    % 65536

\* The end of the higher region, 0x10000 clamped to 0xFFFF.
limit_of(img) ==
  LET limit == IF code_end(img) > data_end(img) THEN code_end(img)
                                                ELSE data_end(img)
  IN  IF limit > 65535 THEN 65535 ELSE limit
=============================================================================
