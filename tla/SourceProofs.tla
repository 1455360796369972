---------------------------- MODULE SourceProofs ----------------------------
(***************************************************************************)
(* From a file to its tokens, and back to a file: `bytevm asm` and `bytevm *)
(* dis` treat the user's files as they should, for every set of files,     *)
(* every assembler and every combination of faults; the lexer stays inside *)
(* the source, counts the lines and loses nothing, for every text.         *)
(***************************************************************************)
EXTENDS Tool, Lexer, CoreLemmas, FiniteSetTheorems

-----------------------------------------------------------------------------
\* Truncated images.

\* The fields of an image, and a truncated image as a record.
LEMMA PartialFields ==
  ASSUME NEW i, DOMAIN i = ImageFields, NEW k
  PROVE  /\ DOMAIN Partial(i, k) = ImageFields
         /\ Partial(i, k).size = k
         /\ Partial(i, k).magic = i.magic
         /\ Partial(i, k).version = i.version
         /\ Partial(i, k).reserved = i.reserved
         /\ Partial(i, k).entry_point = i.entry_point
         /\ Partial(i, k).code_size = i.code_size
         /\ Partial(i, k).code_addr = i.code_addr
         /\ Partial(i, k).data_size = i.data_size
         /\ Partial(i, k).data_addr = i.data_addr
         /\ Partial(i, k).body = SubSeq(i.body, 1, IF k < BVM_HEADER_SIZE THEN 0
                                                   ELSE k - BVM_HEADER_SIZE)
  BY DEF Partial, ImageFields

\* The first bytes of a sequence.
LEMMA PrefixOf ==
  ASSUME NEW S, NEW s \in Seq(S), NEW n \in Nat, n <= Len(s)
  PROVE  /\ SubSeq(s, 1, n) \in Seq(S)
         /\ Len(SubSeq(s, 1, n)) = n
         /\ \A a, b \in Nat : a > 0 /\ b <= n =>
               SubSeq(SubSeq(s, 1, n), a, b) = SubSeq(s, a, b)
  OBVIOUS

IsFileImage(i) == IsImage(i) /\ DOMAIN i = ImageFields

\* Fewer bytes of an image are an image again.
LEMMA PartialIsImage ==
  ASSUME NEW i, IsFileImage(i), NEW k \in 0 .. i.size - 1
  PROVE  IsFileImage(Partial(i, k))
<1> DEFINE part == Partial(i, k)
              n == IF k < BVM_HEADER_SIZE THEN 0 ELSE k - BVM_HEADER_SIZE
              body == i.body
              size == i.size
<1>1. /\ size \in Nat /\ body \in Seq(Byte)
      /\ size >= BVM_HEADER_SIZE => Len(body) = size - BVM_HEADER_SIZE
  BY Zenon DEF IsFileImage, IsImage
<1>2. k \in Nat /\ k < size
  BY <1>1
<1> HIDE DEF body, size
<1>3. n \in Nat /\ n <= Len(body)
  BY <1>1, <1>2 DEF BVM_HEADER_SIZE
<1>4. /\ SubSeq(body, 1, n) \in Seq(Byte)
      /\ k >= BVM_HEADER_SIZE =>
           Len(SubSeq(body, 1, n)) = k - BVM_HEADER_SIZE
  <2>1. k >= BVM_HEADER_SIZE => n = k - BVM_HEADER_SIZE
    BY <1>2 DEF BVM_HEADER_SIZE
  <2> HIDE DEF n
  <2> QED
    BY <1>1, <1>3, <2>1, PrefixOf
<1>5. /\ DOMAIN part = ImageFields /\ part.size = k
      /\ part.magic = i.magic /\ part.version = i.version
      /\ part.reserved = i.reserved /\ part.entry_point = i.entry_point
      /\ part.code_size = i.code_size /\ part.code_addr = i.code_addr
      /\ part.data_size = i.data_size /\ part.data_addr = i.data_addr
      /\ part.body = SubSeq(body, 1, n)
  BY PartialFields DEF IsFileImage, body
<1> HIDE DEF part, n
<1>6. /\ part.size \in Nat /\ part.body \in Seq(Byte)
      /\ part.size >= BVM_HEADER_SIZE =>
           Len(part.body) = part.size - BVM_HEADER_SIZE
  BY <1>2, <1>4, <1>5
<1>7. IsImage(part)
  BY <1>5, <1>6, Zenon DEF IsFileImage, IsImage
<1> QED
  BY <1>5, <1>7 DEF IsFileImage, part

\* A truncated image that the loader accepts lacks only bytes after the
\* code and data.
LEMMA PartialLoadsAs ==
  ASSUME NEW i, IsFileImage(i), NEW k \in 0 .. i.size - 1,
         header_ok(Partial(i, k))
  PROVE  LoadsAs(Partial(i, k), i)
<1> DEFINE part == Partial(i, k)
              n == k - BVM_HEADER_SIZE
              body == i.body
              size == i.size
              cs == i.code_size
              ds == i.data_size
<1>1. /\ size \in Nat /\ body \in Seq(Byte) /\ cs \in Word /\ ds \in Word
      /\ size >= BVM_HEADER_SIZE => Len(body) = size - BVM_HEADER_SIZE
  BY Zenon DEF IsFileImage, IsImage
<1>2. k \in Nat /\ k < size
  BY <1>1
<1>3. /\ part.size = k /\ part.entry_point = i.entry_point
      /\ part.code_size = cs /\ part.code_addr = i.code_addr
      /\ part.data_size = ds /\ part.data_addr = i.data_addr
      /\ part.body = SubSeq(body, 1, IF k < BVM_HEADER_SIZE THEN 0 ELSE n)
  BY PartialFields DEF IsFileImage
<1> HIDE DEF body, size, cs, ds, part
<1>4. k >= BVM_HEADER_SIZE /\ k >= BVM_HEADER_SIZE + cs + ds
  BY <1>3 DEF header_ok, part
<1>5. /\ n \in Nat /\ n <= Len(body) /\ cs + ds <= n
      /\ cs \in Nat /\ ds \in Nat
      /\ (IF k < BVM_HEADER_SIZE THEN 0 ELSE n) = n
  BY <1>1, <1>2, <1>4 DEF BVM_HEADER_SIZE, Word
<1> HIDE DEF n
<1>6. /\ Len(part.body) = n
      /\ SubSeq(part.body, 1, cs) = SubSeq(body, 1, cs)
      /\ SubSeq(part.body, cs + 1, cs + ds) = SubSeq(body, cs + 1, cs + ds)
  <2>1. part.body = SubSeq(body, 1, n)
    BY <1>3, <1>5
  <2>2. /\ cs <= n /\ cs + 1 \in Nat /\ cs + 1 > 0 /\ cs + ds \in Nat
        /\ 1 \in Nat /\ 1 > 0
    BY <1>5
  <2> QED
    BY <1>1, <1>5, <2>1, <2>2, PrefixOf
<1>7. code_bytes(part) = code_bytes(i) /\ data_bytes(part) = data_bytes(i)
  BY <1>3, <1>6 DEF code_bytes, data_bytes, body, cs, ds
<1>8. loaded_memory(part) = loaded_memory(i)
  BY <1>3, <1>7 DEF loaded_memory
<1>9. limit_of(part) = limit_of(i)
  BY <1>3 DEF limit_of, code_end, data_end, cs, ds
<1>10. Len(part.body) >= part.code_size + part.data_size
  BY <1>3, <1>5, <1>6
<1> QED
  BY <1>3, <1>8, <1>9, <1>10 DEF LoadsAs, part

-----------------------------------------------------------------------------
\* The inductive invariant.

\* Every path holds something, and a command is about paths.
FilesInv ==
  /\ files = [q \in Paths |-> files[q]]
  /\ \A q \in Paths : IsContents(files[q])
  /\ in_path \in Paths /\ out_path \in Paths

\* What a command has in memory is what it read, then what it wants to
\* write, unless the read lost bytes; only asm gets as far as writing, and
\* until then no file is touched.  It has no exit status while it runs.
CommandInv ==
  /\ phase # "idle" => exit_code = -1
  /\ phase \in {"read", "image", "made"} => files = before
  /\ phase \in {"write", "close"} => cmd = "asm"
  /\ phase \in {"image", "made", "write", "close"} =>
       IsContents(contents) /\ contents.kind # "absent"
  /\ phase = "image" /\ lost # "input" => contents = before[in_path]
  /\ phase \in {"made", "write", "close"} /\ lost # "input" =>
       contents = Wanted

ToolInv ==
  /\ FilesInv
  /\ CommandInv
  /\ ErrorsTouchNothing
  /\ ExitZeroMeansWritten
  /\ PartialNeverLoads

\* The input and the history of a command fix what it wants.
LEMMA WantedFrame ==
  ASSUME UNCHANGED <<before, in_path>>
  PROVE  Wanted' = Wanted
  BY DEF Wanted

\* A source has a name that Compile knows.
LEMMA SourceName ==
  ASSUME NEW f, IsContents(f), f.kind = "source"
  PROVE  f.name \in DOMAIN Compile
  BY DEF IsContents, SourceFile, ImageFile, Absent

\* What fread delivers is contents again, and something.
LEMMA DeliveredType ==
  ASSUME NEW f, IsContents(f), f.kind # "absent", NEW g \in delivered(f)
  PROVE  IsContents(g) /\ g.kind # "absent"
<1>1. CASE g = f
  BY <1>1
<1>2. CASE f.kind = "source" /\ \E s \in Cuts[f.name] : g = SourceFile(s)
  <2>1. PICK s \in Cuts[f.name] : g = SourceFile(s)
    BY <1>2
  <2>2. f.name \in DOMAIN Compile
    BY <1>2, SourceName
  <2>3. s \in DOMAIN Compile
    BY <2>1, <2>2, ToolAssumption
  <2> QED
    BY <2>1, <2>3 DEF IsContents, SourceFile
<1>3. CASE /\ f.kind = "image"
           /\ \E k \in 0 .. f.img.size - 1 :
                 g = ImageFile(Partial(f.img, k))
  <2>1. PICK k \in 0 .. f.img.size - 1 : g = ImageFile(Partial(f.img, k))
    BY <1>3
  <2>2. IsFileImage(f.img)
    BY <1>3 DEF IsContents, SourceFile, Absent, IsFileImage
  <2>3. IsFileImage(Partial(f.img, k))
    BY <2>2, PartialIsImage
  <2> QED
    BY <2>1, <2>3 DEF IsContents, ImageFile, IsFileImage
<1> QED
  BY <1>1, <1>2, <1>3 DEF delivered

\* An emptied file is an image of no bytes.
LEMMA EmptiedType ==
  /\ IsFileImage(Emptied.img)
  /\ Emptied = ImageFile(Emptied.img)
  /\ IsContents(Emptied)
  /\ ~header_ok(Emptied.img)
<1> DEFINE i == Emptied.img
<1>1. /\ i.size = 0 /\ i.magic = FALSE
      /\ i.version = 0 /\ i.reserved = 0 /\ i.entry_point = 0
      /\ i.code_size = 0 /\ i.code_addr = 0
      /\ i.data_size = 0 /\ i.data_addr = 0 /\ i.body = <<>>
  BY DEF Emptied, ImageFile
<1>2. DOMAIN i = ImageFields
  BY DEF Emptied, ImageFile, ImageFields
<1>3. Emptied = ImageFile(i)
  BY DEF Emptied, ImageFile
<1> HIDE DEF i
<1>4. /\ i.size \in Nat /\ i.magic \in BOOLEAN /\ ~(i.size >= BVM_HEADER_SIZE)
      /\ i.body \in Seq(Byte)
  <2>1. i.size \in Nat /\ ~(i.size >= BVM_HEADER_SIZE)
    BY <1>1 DEF BVM_HEADER_SIZE
  <2>2. i.magic \in BOOLEAN
    BY <1>1, Zenon
  <2>3. <<>> \in Seq(Byte)
    OBVIOUS
  <2> QED
    BY <1>1, <2>1, <2>2, <2>3, Zenon
<1>5. 0 \in Byte /\ 0 \in Word
  BY DEF Byte, Word
<1>6. IsImage(i)
  BY <1>1, <1>4, <1>5, Zenon DEF IsImage
<1>7. ~header_ok(i)
  BY <1>4 DEF header_ok
<1>8. IsContents(ImageFile(i))
  BY <1>2, <1>6 DEF IsContents, ImageFile
<1> QED
  BY <1>2, <1>3, <1>6, <1>7, <1>8 DEF IsFileImage, i

\* A cut-off output: contents again, and refused or all there.
LEMMA PrefixType ==
  ASSUME IsContents(contents), NEW f \in prefixes
  PROVE  /\ IsContents(f)
         /\ ~header_ok(f.img) \/ LoadsAs(f.img, contents.img)
<1>1. CASE contents.kind = "image"
  <2>1. PICK k \in 0 .. contents.img.size - 1 :
           f = ImageFile(Partial(contents.img, k))
    BY <1>1 DEF prefixes
  <2>2. IsFileImage(contents.img)
    BY <1>1 DEF IsContents, SourceFile, Absent, IsFileImage
  <2>3. f.img = Partial(contents.img, k)
    BY <2>1 DEF ImageFile
  <2>4. IsFileImage(f.img)
    BY <2>2, <2>3, PartialIsImage
  <2>5. header_ok(f.img) => LoadsAs(f.img, contents.img)
    BY <2>2, <2>3, PartialLoadsAs
  <2> QED
    BY <2>1, <2>3, <2>4, <2>5 DEF IsContents, IsFileImage
<1>2. CASE contents.kind # "image"
  <2>1. f = Emptied
    BY <1>2 DEF prefixes
  <2> QED
    BY <2>1, EmptiedType
<1> QED
  BY <1>1, <1>2

-----------------------------------------------------------------------------
\* The invariant holds initially, and every step keeps it.

LEMMA ToolInitially == ToolInit => ToolInv
  BY ToolAssumption
     DEF ToolInit, ToolInv, FilesInv, CommandInv, ErrorsTouchNothing,
         ExitZeroMeansWritten, PartialNeverLoads

\* The output file now holds f.
Writes(f) == files' = [files EXCEPT ![out_path] = f]

\* A write to the output path leaves the other paths alone.
LEMMA OutputChanged ==
  ASSUME FilesInv, ErrorsTouchNothing, NEW f, IsContents(f),
         Writes(f), UNCHANGED <<in_path, out_path, before>>
  PROVE  /\ FilesInv'
         /\ \A q \in Paths \ {out_path'} : files'[q] = before'[q]
         /\ files'[out_path'] = f
<1>1. /\ files' = [q \in Paths |-> IF q = out_path THEN f ELSE files[q]]
      /\ out_path \in Paths
  BY DEF FilesInv, Writes
<1>2. files'[out_path] = f /\ \A q \in Paths \ {out_path} : files'[q] = files[q]
  BY <1>1
<1>3. files' = [q \in Paths |-> files'[q]]
  BY <1>1
<1>4. \A q \in Paths : IsContents(files[q])
  BY DEF FilesInv
<1>5. ASSUME NEW q \in Paths PROVE IsContents(files'[q])
  BY <1>2, <1>4
<1>6. \A q \in Paths \ {out_path} : files[q] = before[q]
  BY DEF ErrorsTouchNothing
<1>7. FilesInv'
  BY <1>3, <1>5 DEF FilesInv, IsContents
<1> QED
  BY <1>2, <1>6, <1>7

\* A command that gives up before it opens its output leaves everything as
\* it was.
LEMMA GivesUp ==
  ASSUME ToolInv, phase \in {"read", "image", "made"}, NEW n \in Int, exit(n),
         n # 0 \/ cmd = "dis", UNCHANGED files
  PROVE  ToolInv'
<1>1. files' = before' /\ phase' = "idle" /\ cmd' = cmd /\ exit_code' = n
      /\ UNCHANGED <<in_path, out_path, before>>
  BY DEF ToolInv, CommandInv, exit, command
<1>2. FilesInv'
  BY <1>1 DEF ToolInv, FilesInv, IsContents
<1>3. CommandInv'
  BY <1>1 DEF CommandInv
<1>4. ErrorsTouchNothing'
  BY <1>1 DEF ErrorsTouchNothing
<1>5. ExitZeroMeansWritten'
  BY <1>1 DEF ExitZeroMeansWritten
<1>6. PartialNeverLoads'
  BY <1>1 DEF PartialNeverLoads
<1> QED
  BY <1>2, <1>3, <1>4, <1>5, <1>6 DEF ToolInv

\* Only the arrival of new bytes in the output is left to show of a step
\* that ends asm after its output was opened.
LEMMA OutputEnds ==
  ASSUME ToolInv, phase \in {"write", "close"}, NEW f, f = contents \/ f \in prefixes,
         Writes(f), NEW n \in Int, exit(n), n = 1 => short,
         n = 0 /\ f # contents => lost' # "nothing",
         lost # "input" => lost' # "input", lost = "input" => lost' = "input"
  PROVE  ToolInv'
<1>1. /\ phase' = "idle" /\ exit_code' = n /\ cmd' = cmd /\ contents' = contents
      /\ UNCHANGED <<in_path, out_path, before, short>>
  BY DEF exit, command
<1>2. cmd = "asm" /\ IsContents(contents) /\ contents.kind # "absent"
  BY DEF ToolInv, CommandInv
<1>3. lost # "input" => contents = Wanted /\ Wanted # Absent
  BY <1>2 DEF ToolInv, CommandInv, Absent
<1>4. Wanted' = Wanted
  BY <1>1, WantedFrame
<1>5. IsContents(f)
  BY <1>2, PrefixType
<1>6. /\ FilesInv'
      /\ \A q \in Paths \ {out_path'} : files'[q] = before'[q]
      /\ files'[out_path'] = f
  BY <1>1, <1>5, OutputChanged DEF ToolInv
<1>7. CommandInv'
  BY <1>1 DEF CommandInv
<1>8. ErrorsTouchNothing'
  <2>1. cmd' # "dis" /\ ~(exit_code' = 1 /\ ~short')
    BY <1>1, <1>2
  <2> QED
    BY <1>6, <2>1 DEF ErrorsTouchNothing
<1>9. ExitZeroMeansWritten'
  BY <1>1, <1>3, <1>4, <1>6 DEF ExitZeroMeansWritten
<1>10. PartialNeverLoads'
  <2> SUFFICES ASSUME lost' # "input"
               PROVE  \/ f = Wanted
                      \/ ~header_ok(f.img)
                      \/ LoadsAs(f.img, Wanted.img)
    BY <1>4, <1>6 DEF PartialNeverLoads, header_ok, LoadsAs
  <2>1. contents = Wanted
    BY <1>3
  <2> QED
    BY <1>2, <2>1, PrefixType
<1> QED
  BY <1>6, <1>7, <1>8, <1>9, <1>10 DEF ToolInv

LEMMA ToolStep == ToolInv /\ [ToolNext]_toolVars => ToolInv'
<1> SUFFICES ASSUME ToolInv, [ToolNext]_toolVars PROVE ToolInv'
  OBVIOUS
<1>1. ASSUME NEW c \in {"asm", "dis"}, NEW i \in Paths, NEW o \in Paths,
             start(c, i, o)
      PROVE  ToolInv'
  <2>1. /\ phase' = "read" /\ files' = files /\ before' = files
        /\ exit_code' = -1 /\ in_path' \in Paths /\ out_path' \in Paths
    BY <1>1 DEF start
  <2>2. FilesInv'
    BY <2>1 DEF ToolInv, FilesInv, IsContents
  <2>3. CommandInv' /\ ErrorsTouchNothing'
    BY <2>1 DEF CommandInv, ErrorsTouchNothing
  <2>4. ExitZeroMeansWritten' /\ PartialNeverLoads'
    BY <2>1 DEF ExitZeroMeansWritten, PartialNeverLoads
  <2> QED
    BY <2>2, <2>3, <2>4 DEF ToolInv
<1>2. CASE read_file_fails
  BY <1>2, GivesUp DEF read_file_fails
<1>3. CASE read_file
  <2>1. /\ phase = "read" /\ phase' = "image" /\ files' = files
        /\ files = before /\ in_path \in Paths /\ exit_code' = -1
        /\ UNCHANGED <<cmd, in_path, out_path, before>>
        /\ IsContents(files[in_path]) /\ files[in_path].kind # "absent"
    BY <1>3 DEF read_file, command, ToolInv, CommandInv, FilesInv
  <2>2. /\ contents' \in delivered(files[in_path])
        /\ lost' = IF contents' = files[in_path] THEN "nothing" ELSE "input"
    BY <1>3 DEF read_file
  <2>3. IsContents(contents') /\ contents'.kind # "absent"
    BY <2>1, <2>2, DeliveredType
  <2>4. FilesInv'
    BY <2>1 DEF ToolInv, FilesInv, IsContents
  <2>5. CommandInv'
    BY <2>1, <2>2, <2>3 DEF CommandInv, IsContents
  <2>6. ErrorsTouchNothing'
    BY <2>1 DEF ErrorsTouchNothing
  <2>7. ExitZeroMeansWritten' /\ PartialNeverLoads'
    BY <2>1 DEF ExitZeroMeansWritten, PartialNeverLoads
  <2> QED
    BY <2>4, <2>5, <2>6, <2>7 DEF ToolInv
<1>4. CASE image_from_path
  <2>1. /\ phase = "image" /\ files' = files /\ lost' = lost
        /\ files = before /\ in_path \in Paths
        /\ IsContents(contents) /\ contents.kind # "absent"
        /\ lost # "input" => contents = before[in_path]
        /\ exit_code = -1
    BY <1>4 DEF image_from_path, ToolInv, CommandInv, FilesInv
  <2>2. ASSUME phase' = "made", UNCHANGED <<cmd, in_path, out_path, before>>,
               UNCHANGED exit_code, IsContents(contents'), contents'.kind # "absent",
               lost # "input" => contents' = Wanted
        PROVE  ToolInv'
    <3>1. Wanted' = Wanted
      BY <2>2, WantedFrame
    <3>2. FilesInv'
      BY <2>1, <2>2 DEF ToolInv, FilesInv, IsContents
    <3>3. CommandInv'
      BY <2>1, <2>2, <3>1 DEF CommandInv, IsContents
    <3>4. ErrorsTouchNothing'
      BY <2>1, <2>2 DEF ErrorsTouchNothing
    <3>5. ExitZeroMeansWritten' /\ PartialNeverLoads'
      BY <2>2 DEF ExitZeroMeansWritten, PartialNeverLoads
    <3> QED
      BY <3>2, <3>3, <3>4, <3>5 DEF ToolInv
  <2>3. CASE /\ in_path \in AsmPaths /\ compiles(contents)
             /\ contents' = ImageFile(Compile[contents.name])
             /\ phase' = "made" /\ UNCHANGED <<command, short, exit_code>>
    <3>1. contents.name \in DOMAIN Compile
      BY <2>1, <2>3, SourceName DEF compiles
    <3>2. IsContents(ImageFile(Compile[contents.name]))
      BY <2>3, <3>1, ToolAssumption DEF compiles
    <3>3. ImageFile(Compile[contents.name]).kind = "image"
      BY DEF ImageFile
    <3>4. lost # "input" => Wanted = ImageFile(Compile[contents.name])
      BY <2>1, <2>3 DEF Wanted
    <3> HIDE DEF ToolInv
    <3> QED
      BY <2>2, <2>3, <3>2, <3>3, <3>4 DEF command
  <2>4. CASE in_path \in AsmPaths /\ ~compiles(contents) /\ exit(1)
    BY <2>1, <2>4, GivesUp
  <2>5. CASE /\ in_path \notin AsmPaths
             /\ phase' = "made"
             /\ UNCHANGED <<command, contents, short, exit_code>>
    <3>1. lost # "input" => contents = Wanted
      BY <2>1, <2>5 DEF Wanted
    <3> QED
      BY <2>1, <2>2, <2>5, <3>1 DEF command
  <2> QED
    BY <1>4, <2>3, <2>4, <2>5 DEF image_from_path
<1>5. CASE open_output
  <2>1. /\ phase = "made" /\ cmd = "asm" /\ lost' = lost /\ in_path \in Paths
        /\ exit_code = -1
        /\ IsContents(contents) /\ contents.kind # "absent"
        /\ lost # "input" => contents = Wanted
    BY <1>5 DEF open_output, ToolInv, CommandInv, FilesInv
  <2>2. CASE "open" \in Faults /\ exit(1) /\ UNCHANGED files
    BY <2>1, <2>2, GivesUp
  <2>3. CASE /\ Writes(Emptied)
             /\ phase' = "write"
             /\ UNCHANGED <<command, contents, short, exit_code>>
    <3>1. /\ UNCHANGED <<cmd, in_path, out_path, before, contents>>
          /\ exit_code' = -1
      BY <2>1, <2>3 DEF command
    <3>2. Wanted' = Wanted
      BY <3>1, WantedFrame
    <3>3. /\ FilesInv'
          /\ \A q \in Paths \ {out_path'} : files'[q] = before'[q]
      BY <2>3, <3>1, EmptiedType, OutputChanged DEF ToolInv
    <3>4. CommandInv'
      BY <2>1, <2>3, <3>1, <3>2 DEF CommandInv, IsContents
    <3>5. ErrorsTouchNothing'
      <4>1. cmd' # "dis" /\ exit_code' # 1
        BY <2>1, <3>1
      <4> QED
        BY <3>3, <4>1 DEF ErrorsTouchNothing
    <3>6. ExitZeroMeansWritten' /\ PartialNeverLoads'
      BY <2>3 DEF ExitZeroMeansWritten, PartialNeverLoads
    <3> QED
      BY <3>3, <3>4, <3>5, <3>6 DEF ToolInv
  <2> QED
    BY <1>5, <2>2, <2>3 DEF open_output, Writes
<1>6. CASE write_output
  <2>1. /\ phase = "write" /\ phase' = "close"
        /\ UNCHANGED <<files, cmd, in_path, out_path, before, contents, lost>>
        /\ exit_code = -1 /\ exit_code' = -1
    BY <1>6 DEF write_output, command, ToolInv, CommandInv
  <2>2. Wanted' = Wanted
    BY <2>1, WantedFrame
  <2>3. FilesInv'
    BY <2>1 DEF ToolInv, FilesInv, IsContents
  <2>4. CommandInv'
    BY <2>1, <2>2 DEF ToolInv, CommandInv, IsContents
  <2>5. ErrorsTouchNothing'
    BY <2>1, <2>2 DEF ToolInv, ErrorsTouchNothing
  <2>6. ExitZeroMeansWritten' /\ PartialNeverLoads'
    BY <2>1 DEF ExitZeroMeansWritten, PartialNeverLoads
  <2> QED
    BY <2>3, <2>4, <2>5, <2>6 DEF ToolInv
<1>7. CASE close_output
  <2>1. PICK f \in closed :
          /\ Writes(f)
          /\ lost' = IF lost = "nothing" /\ ~short /\ f # contents
                     THEN "output" ELSE lost
    BY <1>7 DEF close_output, Writes
  <2>2. phase = "close" /\ exit(IF short THEN 1 ELSE 0)
    BY <1>7 DEF close_output
  <2>3. f = contents \/ f \in prefixes
    BY DEF closed
  <2>4. CASE short
    <3>1. exit(1) /\ lost' = lost
      BY <2>1, <2>2, <2>4
    <3> QED
      BY <2>1, <2>2, <2>3, <3>1, OutputEnds
  <2>5. CASE ~short
    <3>1. exit(0)
      BY <2>2, <2>5
    <3>2. /\ f # contents => lost' # "nothing"
          /\ lost # "input" => lost' # "input"
          /\ lost = "input" => lost' = "input"
      BY <2>1, <2>5
    <3> QED
      BY <2>1, <2>2, <2>3, <3>1, <3>2, OutputEnds
  <2> QED
    BY <2>4, <2>5
<1>8. CASE killed
  <2>1. PICK f \in prefixes \cup {contents} : Writes(f)
    BY <1>8 DEF killed, Writes
  <2>2. phase \in {"write", "close"} /\ exit(-1) /\ lost' = lost
    BY <1>8 DEF killed
  <2> QED
    BY <2>1, <2>2, OutputEnds
<1>9. CASE print_text
  <2>1. phase = "made" /\ cmd = "dis" /\ files' = files
    BY <1>9 DEF print_text
  <2>2. \E n \in {0, 1} : exit(n)
    BY <1>9 DEF print_text
  <2> QED
    BY <2>1, <2>2, GivesUp
<1>10. CASE UNCHANGED toolVars
  <2>1. UNCHANGED <<files, phase, cmd, in_path, out_path, before, contents,
                    short, exit_code, lost>>
    BY <1>10 DEF toolVars, command
  <2> QED
    BY <2>1 DEF ToolInv, FilesInv, CommandInv, ErrorsTouchNothing,
       ExitZeroMeansWritten, PartialNeverLoads, Wanted, IsContents, compiles,
       LoadsAs, header_ok
<1> QED
  BY <1>1, <1>2, <1>3, <1>4, <1>5, <1>6, <1>7, <1>8, <1>9, <1>10 DEF ToolNext

THEOREM ToolSafe == ToolSpec => []ToolInv
  BY ToolInitially, ToolStep, PTL DEF ToolSpec

\* Property ErrorsTouchNothing of Tool, of read_file, image_from_path and
\* cmd_asm (main.c): a command that fails, but for a short write, and every
\* dis leaves all files as they were, whatever the operating system does:
\* an input that is missing, cannot be read or does not assemble, and an
\* output that cannot be opened.
THEOREM ErrorsKeepFiles == ToolSpec => []ErrorsTouchNothing
  BY ToolSafe, PTL DEF ToolInv

\* Property ExitZeroMeansWritten of Tool, of the end of cmd_asm (main.c):
\* asm reports success only with the whole image written, save where fread
\* or fclose lost bytes that nobody looks for.
THEOREM ExitIsHonest == ToolSpec => []ExitZeroMeansWritten
  BY ToolSafe, PTL DEF ToolInv

\* Property PartialNeverLoads of Tool, of cmd_asm (main.c) against the
\* length check of loader.c: what a kill or a failed write leaves in the
\* output is refused, or loads as the whole image.
THEOREM PartialsRefused == ToolSpec => []PartialNeverLoads
  BY ToolSafe, PTL DEF ToolInv

-----------------------------------------------------------------------------
\* The reading of a text (lexer.c).

\* The reading of a text s, apart from the lexer's state.
At(s, i) == IF i <= Len(s) THEN s[i] ELSE NUL

NewlinesBefore(s, i) == Cardinality({k \in 1 .. i - 1 : At(s, k) = newline})

\* No line ends between i and j.
OneLine(s, i, j) == \A k \in i .. j - 1 : At(s, k) # newline

Blanks(s, i, j) ==
  \E m \in i .. j : /\ \A k \in i .. m - 1 : At(s, k) \in blank
                    /\ m < j => At(s, m) = ";"
                    /\ \A k \in m .. j - 1 : At(s, k) # newline

\* Blanks, and after a comment nothing but the end of its line.
Skipped(s, i, j) ==
  \E m \in i .. j : /\ \A k \in i .. m - 1 : At(s, k) \in blank
                    /\ m < j => At(s, m) = ";" /\ At(s, j) \in {NUL, newline}
                    /\ \A k \in m .. j - 1 : At(s, k) # newline

-----------------------------------------------------------------------------
\* Characters.

\* None of the characters the lexer takes for part of a token or a blank is
\* the NUL or a newline.
LEMMA Letters ==
  /\ NUL \notin alpha /\ newline \notin alpha
  /\ NUL \notin digit /\ newline \notin digit
  /\ NUL \notin xdigit /\ newline \notin xdigit
<1>1. NUL \notin alpha /\ newline \notin alpha
  BY DEF alpha, NUL, newline
<1>2. NUL \notin digit /\ newline \notin digit
  BY DEF digit, NUL, newline
<1>3. NUL \notin xdigit /\ newline \notin xdigit
  BY <1>2 DEF xdigit, NUL, newline
<1> QED
  BY <1>1, <1>2, <1>3

LEMMA Blank == NUL \notin blank /\ newline \notin blank
  BY Zenon DEF blank, NUL, newline

LEMMA Separator == NUL \notin separator /\ newline \notin separator
  BY Zenon DEF separator, NUL, newline

LEMMA Quote == /\ quote # NUL /\ quote # newline
               /\ backslash # NUL /\ backslash # newline /\ newline # NUL
  BY Zenon DEF quote, backslash, NUL, newline

LEMMA Marks == /\ ";" # NUL /\ ";" # newline /\ "." # NUL /\ "." # newline
               /\ "-" # NUL /\ "-" # newline /\ "_" # NUL /\ "_" # newline
               /\ "x" # NUL /\ "x" # newline /\ "X" # NUL /\ "X" # newline
               /\ ";" \notin blank
  BY Zenon DEF NUL, newline, blank

LEMMA EscapeLetters == NUL \notin Escapes /\ newline \notin Escapes
  BY Quote, Zenon DEF Escapes, NUL, newline

-----------------------------------------------------------------------------
\* Places in a text.

Text == Seq(STRING \ {NUL})

LEMMA Ends ==
  ASSUME NEW s \in Text, NEW i \in Nat, i > 0
  PROVE  At(s, i) = NUL <=> i > Len(s)
<1>1. Len(s) \in Nat
  BY DEF Text
<1>2. i <= Len(s) => s[i] # NUL
  BY <1>1 DEF Text
<1> QED
  BY <1>1, <1>2 DEF At

LEMMA LenText ==
  ASSUME NEW s \in Text
  PROVE  Len(s) \in Nat
  BY DEF Text

\* The lines before a place.
LEMMA CountNat ==
  ASSUME NEW s, NEW i \in Nat
  PROVE  /\ NewlinesBefore(s, i) \in Nat
         /\ IsFiniteSet({k \in 1 .. i - 1 : At(s, k) = newline})
<1> DEFINE K == {k \in 1 .. i - 1 : At(s, k) = newline}
<1>1. IsFiniteSet(1 .. i - 1)
  <2>1. 1 \in Int /\ i - 1 \in Int
    OBVIOUS
  <2> QED
    BY <2>1, FS_Interval
<1>2. K \subseteq 1 .. i - 1
  OBVIOUS
<1> HIDE DEF K
<1>3. IsFiniteSet(K)
  BY <1>1, <1>2, FS_Subset
<1>4. Cardinality(K) \in Nat
  BY <1>3, FS_CardinalityType
<1> QED
  BY <1>3, <1>4 DEF K, NewlinesBefore

LEMMA SameCount ==
  ASSUME NEW s, NEW i \in Nat, NEW j \in Nat, i > 0, i <= j, OneLine(s, i, j)
  PROVE  NewlinesBefore(s, i) = NewlinesBefore(s, j)
<1>1. {k \in 1 .. i - 1 : At(s, k) = newline}
        = {k \in 1 .. j - 1 : At(s, k) = newline}
  BY DEF OneLine
<1> QED
  BY <1>1 DEF NewlinesBefore

LEMMA NextCount ==
  ASSUME NEW s, NEW i \in Nat, i > 0, At(s, i) = newline
  PROVE  NewlinesBefore(s, i + 1) = NewlinesBefore(s, i) + 1
<1> DEFINE K == {k \in 1 .. i - 1 : At(s, k) = newline}
           L == {k \in 1 .. (i + 1) - 1 : At(s, k) = newline}
<1>1. L = K \cup {i} /\ i \notin K
  OBVIOUS
<1>2. IsFiniteSet(K)
  BY CountNat
<1> HIDE DEF K, L
<1>3. Cardinality(L) = Cardinality(K) + 1
  BY <1>1, <1>2, FS_AddElement
<1> QED
  BY <1>3 DEF K, L, NewlinesBefore

-----------------------------------------------------------------------------
\* The scanning loops.

\* A loop that starts inside the text and runs while the characters are not
\* in S ends at the first one that is, at the latest at the NUL.
LEMMA FirstOf ==
  ASSUME NEW s \in Text, NEW i \in 1 .. Len(s) + 1, NEW S, NUL \in S
  PROVE  \E j \in i .. Len(s) + 1 :
            At(s, j) \in S /\ \A k \in i .. j - 1 : At(s, k) \notin S
<1> DEFINE J == {j \in i .. Len(s) + 1 : At(s, j) \in S}
<1>1. Len(s) \in Nat
  BY LenText
<1>2. J \subseteq Nat
  BY <1>1
<1>3. Len(s) + 1 \in J
  <2>1. Len(s) + 1 \in i .. Len(s) + 1 /\ ~(Len(s) + 1 <= Len(s))
    BY <1>1
  <2> QED
    BY <2>1 DEF At
<1>4. J # {}
  BY <1>3
<1> HIDE DEF J
<1>5. PICK j \in J : \A k \in J : j <= k
  BY <1>2, <1>4, Least
<1>6. j \in i .. Len(s) + 1 /\ At(s, j) \in S
  BY DEF J
<1>7. ASSUME NEW k \in i .. j - 1 PROVE At(s, k) \notin S
  <2>1. k \in i .. Len(s) + 1 /\ ~(j <= k)
    BY <1>1, <1>6, <1>7
  <2> QED
    BY <1>5, <2>1 DEF J
<1> QED
  BY <1>6, <1>7

\* Where run_end stops.
LEMMA RunEnd ==
  ASSUME source \in Text, NEW i \in 1 .. Len(source) + 1, NEW S, NUL \notin S
  PROVE  /\ run_end(i, S) \in i .. Len(source) + 1
         /\ At(source, run_end(i, S)) \notin S
         /\ \A k \in i .. run_end(i, S) - 1 : At(source, k) \in S
<1> DEFINE T == {At(source, k) : k \in i .. Len(source) + 1} \ S
           Stops(j) == /\ ch(j) \notin S
                      /\ \A k \in i .. j - 1 : ch(k) \in S
<1>1. \A k : ch(k) = At(source, k)
  BY DEF ch, At
<1>2. \E j \in i .. Len(source) + 1 : Stops(j)
  <2>1. Len(source) \in Nat
    BY LenText
  <2>2. /\ Len(source) + 1 \in i .. Len(source) + 1
        /\ ~(Len(source) + 1 <= Len(source))
    BY <2>1
  <2>3. NUL \in T
    BY <2>2 DEF At
  <2> HIDE DEF T
  <2>4. PICK j \in i .. Len(source) + 1 :
          At(source, j) \in T /\ \A k \in i .. j - 1 : At(source, k) \notin T
    BY <2>3, FirstOf
  <2>5. \A k \in i .. j - 1 : k \in i .. Len(source) + 1
    BY <2>1
  <2> QED
    BY <1>1, <2>4, <2>5 DEF T
<1>3. run_end(i, S) = CHOOSE j \in i .. Len(source) + 1 : Stops(j)
  BY DEF run_end
<1>4. run_end(i, S) \in i .. Len(source) + 1 /\ Stops(run_end(i, S))
  <2> HIDE DEF Stops
  <2> QED
    BY <1>2, <1>3
<1> QED
  BY <1>1, <1>4

\* Where a comment stops.
LEMMA CommentEnd ==
  ASSUME source \in Text, p \in 1 .. Len(source) + 1
  PROVE  /\ comment_end \in p .. Len(source) + 1
         /\ At(source, comment_end) \in {NUL, newline}
         /\ OneLine(source, p, comment_end)
<1> DEFINE Stop == {NUL, newline}
           Stops(j) == /\ ch(j) \in Stop
                      /\ \A k \in p .. j - 1 : ch(k) \notin Stop
<1>1. \A k : ch(k) = At(source, k)
  BY DEF ch, At
<1>2. \E j \in p .. Len(source) + 1 : Stops(j)
  <2>1. NUL \in Stop
    OBVIOUS
  <2> HIDE DEF Stop
  <2> QED
    BY <1>1, <2>1, FirstOf
<1>3. comment_end = CHOOSE j \in p .. Len(source) + 1 : Stops(j)
  BY DEF comment_end
<1>4. comment_end \in p .. Len(source) + 1 /\ Stops(comment_end)
  <2> HIDE DEF Stops
  <2> QED
    BY <1>2, <1>3
<1>5. \A k \in p .. comment_end - 1 : At(source, k) # newline
  BY <1>1, <1>4
<1> QED
  BY <1>1, <1>4, <1>5 DEF OneLine

-----------------------------------------------------------------------------
\* What the steps have in common.

\* The lexer's place moves forward on the same line.
Moves ==
  /\ source' = source /\ line' = line
  /\ p' \in p .. Len(source) + 1 /\ OneLine(source, p, p')

\* One character that is neither the NUL nor a newline.
LEMMA OneChar ==
  ASSUME NEW s \in Text, NEW i \in 1 .. Len(s) + 1,
         At(s, i) # NUL, At(s, i) # newline
  PROVE  i + 1 \in i .. Len(s) + 1 /\ i + 1 \in 1 .. Len(s) + 1
           /\ OneLine(s, i, i + 1)
<1>1. Len(s) \in Nat /\ i \in Nat /\ i > 0
  BY LenText
<1>2. ~(i > Len(s))
  BY <1>1, Ends
<1>3. \A k \in i .. (i + 1) - 1 : k = i
  BY <1>1
<1> QED
  BY <1>1, <1>2, <1>3 DEF OneLine

\* Two pieces of a line.
LEMMA Joined ==
  ASSUME NEW s \in Text, NEW i \in 1 .. Len(s) + 1, NEW j \in i .. Len(s) + 1,
         NEW q \in j .. Len(s) + 1, OneLine(s, i, j), OneLine(s, j, q)
  PROVE  q \in i .. Len(s) + 1 /\ OneLine(s, i, q)
<1>1. Len(s) \in Nat
  BY LenText
<1>2. q \in i .. Len(s) + 1
  BY <1>1
<1>3. \A k \in i .. q - 1 : k \in i .. j - 1 \/ k \in j .. q - 1
  BY <1>1
<1> QED
  BY <1>2, <1>3 DEF OneLine

\* A run of characters of S, none of them a newline.
LEMMA Run ==
  ASSUME source \in Text, NEW i \in 1 .. Len(source) + 1, NEW S,
         NUL \notin S, newline \notin S
  PROVE  run_end(i, S) \in i .. Len(source) + 1
           /\ OneLine(source, i, run_end(i, S))
  BY RunEnd DEF OneLine

\* The sign and the prefix of a number.
LEMMA NumberPrefix ==
  ASSUME source \in Text, p \in 1 .. Len(source) + 1,
         ch(number_start(p)) \in digit, ch(p) \in digit \cup {"-"}
  PROVE  /\ digits_start(p) \in p .. Len(source) + 1
         /\ digits_start(p) \in 1 .. Len(source) + 1
         /\ OneLine(source, p, digits_start(p))
<1> DEFINE n == number_start(p)
<1>1. \A k : ch(k) = At(source, k)
  BY DEF ch, At
<1>2. Len(source) \in Nat
  BY LenText
<1>3. n \in p .. Len(source) + 1 /\ n \in 1 .. Len(source) + 1
        /\ OneLine(source, p, n)
  <2>1. CASE number_sign(p)
    <3>1. At(source, p) # NUL /\ At(source, p) # newline
      BY <1>1, <2>1, Marks DEF number_sign
    <3>2. n = p + 1
      BY <2>1 DEF number_start
    <3> QED
      BY <3>1, <3>2, OneChar
  <2>2. CASE ~number_sign(p)
    <3>1. n = p
      BY <2>2 DEF number_start
    <3>2. n \in p .. Len(source) + 1 /\ \A k \in p .. n - 1 : FALSE
      BY <1>2, <3>1
    <3> QED
      BY <3>1, <3>2 DEF OneLine
  <2> QED
    BY <2>1, <2>2
<1> HIDE DEF n
<1>4. CASE is_hex(p)
  <2>1. ch(n) \in digit /\ ch(n + 1) \in {"x", "X"} /\ digits_start(p) = n + 2
    BY <1>4 DEF is_hex, digits_start, n
  <2>2. /\ At(source, n) # NUL /\ At(source, n) # newline
        /\ At(source, n + 1) # NUL /\ At(source, n + 1) # newline
    BY <1>1, <2>1, Letters, Marks
  <2>3. /\ n + 1 \in n .. Len(source) + 1 /\ n + 1 \in 1 .. Len(source) + 1
        /\ OneLine(source, n, n + 1)
    BY <1>3, <2>2, OneChar
  <2>4. /\ (n + 1) + 1 \in n + 1 .. Len(source) + 1
        /\ OneLine(source, n + 1, (n + 1) + 1)
    BY <2>2, <2>3, OneChar
  <2>5. (n + 1) + 1 \in n .. Len(source) + 1 /\ OneLine(source, n, (n + 1) + 1)
    BY <1>3, <2>3, <2>4, Joined
  <2>6. (n + 1) + 1 \in p .. Len(source) + 1 /\ OneLine(source, p, (n + 1) + 1)
    BY <1>3, <2>5, Joined
  <2>7. (n + 1) + 1 = n + 2
    BY <1>2, <1>3
  <2>8. n + 2 \in p .. Len(source) + 1 /\ OneLine(source, p, n + 2)
    BY <2>6, <2>7
  <2> QED
    BY <1>2, <2>1, <2>8
<1>5. CASE ~is_hex(p)
  <2>1. digits_start(p) = n + 0
    BY <1>5 DEF digits_start, n
  <2>2. n + 0 = n
    BY <1>2, <1>3
  <2> QED
    BY <1>3, <2>1, <2>2
<1> QED
  BY <1>4, <1>5

-----------------------------------------------------------------------------
\* The lexer's actions, seen from outside: what is skipped, what becomes a
\* token, what is read of a string.

\* A token that begins at place i, and the place where it ends.
Pushes(i) ==
  \E t : /\ toks' = Append(toks, t)
         /\ t.line = line /\ t.first = i /\ t.after = p'

LEMMA TokFields ==
  ASSUME NEW type, NEW i, NEW j, NEW v, NEW bytes
  PROVE  /\ tok(type, i, j, v, bytes).line = line
         /\ tok(type, i, j, v, bytes).first = i
         /\ tok(type, i, j, v, bytes).after = j
  BY DEF tok

LEMMA PushShape ==
  ASSUME NEW type, NEW j, push(type, j), p' = j
  PROVE  Pushes(p)
  BY TokFields DEF push, Pushes

Skips ==
  /\ lstage = "top" /\ lstage' = "top" /\ toks' = toks /\ Moves
  /\ \/ At(source, p) \in blank /\ p' = p + 1
     \/ At(source, p) = ";" /\ At(source, p') \in {NUL, newline}
Takes == lstage = "top" /\ lstage' = "top" /\ Moves /\ Pushes(p)
EndsLine ==
  /\ lstage = "top" /\ lstage' = "top" /\ Pushes(p)
  /\ source' = source /\ At(source, p) = newline
  /\ p' = p + 1 /\ line' = line + 1
Finishes ==
  /\ lstage = "top" /\ lstage' = "done" /\ Pushes(p)
  /\ source' = source /\ At(source, p) = NUL /\ p' = p /\ line' = line
Opens ==
  lstage = "top" /\ lstage' = "string" /\ open' = p /\ toks' = toks /\ Moves
Reads ==
  /\ lstage = "string" /\ lstage' = "string" /\ open' = open
  /\ toks' = toks /\ Moves
Closes == lstage = "string" /\ lstage' = "top" /\ Pushes(open) /\ Moves
Fails ==
  /\ lstage' = "error" /\ source' = source /\ p' = p /\ line' = line
  /\ toks' = toks

Shape == \/ Skips \/ Takes \/ EndsLine \/ Finishes
         \/ Opens \/ Reads \/ Closes \/ Fails

Inside == source \in Text /\ p \in 1 .. Len(source) + 1

LEMMA ChAt == \A k : ch(k) = At(source, k)
  BY DEF ch, At

LEMMA ErrorShape == set_error => Fails
  BY DEF set_error, Fails

\* A step over one character that is neither the NUL nor a newline.
LEMMA OneMoves ==
  ASSUME Inside, At(source, p) # NUL, At(source, p) # newline,
         source' = source, line' = line, p' = p + 1
  PROVE  Moves
  BY OneChar DEF Inside, Moves

LEMMA SkipShape == Inside /\ (skip_blank \/ skip_comment) => Skips
<1> SUFFICES ASSUME Inside, skip_blank \/ skip_comment PROVE Skips
  OBVIOUS
<1>1. CASE skip_blank
  <2>1. /\ lstage = "top" /\ lstage' = "top" /\ toks' = toks /\ p' = p + 1
        /\ source' = source /\ line' = line /\ ch(p) \in blank
    BY <1>1 DEF skip_blank
  <2>2. At(source, p) \in blank
    BY <2>1, ChAt
  <2>3. Moves
    BY <2>1, <2>2, OneMoves, Blank
  <2> QED
    BY <2>1, <2>2, <2>3 DEF Skips
<1>2. CASE skip_comment
  <2>1. /\ lstage = "top" /\ lstage' = "top" /\ toks' = toks
        /\ p' = comment_end
        /\ source' = source /\ line' = line /\ ch(p) = ";"
    BY <1>2 DEF skip_comment
  <2>2. At(source, p) = ";"
    BY <2>1, ChAt
  <2>3. Moves /\ At(source, p') \in {NUL, newline}
    BY <2>1, CommentEnd DEF Inside, Moves
  <2> QED
    BY <2>1, <2>2, <2>3 DEF Skips
<1> QED
  BY <1>1, <1>2

LEMMA NewlineShape == lex_newline => EndsLine
<1> SUFFICES ASSUME lex_newline PROVE EndsLine
  OBVIOUS
<1>1. /\ lstage = "top" /\ lstage' = "top" /\ source' = source
      /\ ch(p) = newline /\ p' = p + 1 /\ line' = line + 1
      /\ push("TOK_NEWLINE", p + 1)
  BY DEF lex_newline
<1>2. Pushes(p)
  BY <1>1, PushShape
<1> QED
  BY <1>1, <1>2, ChAt DEF EndsLine

LEMMA PunctuationShape == Inside /\ lex_punctuation => Takes
<1> SUFFICES ASSUME Inside, lex_punctuation PROVE Takes
  OBVIOUS
<1>1. /\ lstage = "top" /\ lstage' = "top" /\ source' = source /\ line' = line
      /\ ch(p) \in separator /\ p' = p + 1
      /\ push(punctuation(ch(p)), p + 1)
  BY DEF lex_punctuation
<1>2. Pushes(p)
  BY <1>1, PushShape
<1>3. Moves
  BY <1>1, ChAt, OneMoves, Separator
<1> QED
  BY <1>1, <1>2, <1>3 DEF Takes

LEMMA DirectiveShape == Inside /\ lex_directive => Takes \/ Fails
<1> SUFFICES ASSUME Inside, lex_directive PROVE Takes \/ Fails
  OBVIOUS
<1> DEFINE q == run_end(p + 1, alpha)
<1>1. CASE q = p + 1
  BY <1>1, ErrorShape DEF lex_directive
<1>2. CASE q # p + 1
  <2>1. /\ lstage = "top" /\ ch(p) = "." /\ push("TOK_DIRECTIVE", q) /\ p' = q
        /\ source' = source /\ line' = line /\ lstage' = lstage
    BY <1>2 DEF lex_directive
  <2> HIDE DEF q
  <2>2. Pushes(p)
    BY <2>1, PushShape
  <2>3. At(source, p) # NUL /\ At(source, p) # newline
    BY <2>1, ChAt, Marks
  <2>4. /\ p + 1 \in p .. Len(source) + 1 /\ p + 1 \in 1 .. Len(source) + 1
        /\ OneLine(source, p, p + 1)
    BY <2>3, OneChar DEF Inside
  <2>5. q \in p + 1 .. Len(source) + 1 /\ OneLine(source, p + 1, q)
    BY <2>4, Run, Letters DEF Inside, q
  <2>6. q \in p .. Len(source) + 1 /\ OneLine(source, p, q)
    BY <2>4, <2>5, Joined DEF Inside
  <2> QED
    BY <2>1, <2>2, <2>6 DEF Takes, Moves
<1> QED
  BY <1>1, <1>2

LEMMA IdentifierShape == Inside /\ lex_identifier => Takes
<1> SUFFICES ASSUME Inside, lex_identifier PROVE Takes
  OBVIOUS
<1> DEFINE S == alpha \cup digit \cup {"_"}
           q == run_end(p, S)
<1>1. /\ lstage = "top" /\ push("TOK_IDENT", q) /\ p' = q
      /\ source' = source /\ line' = line /\ lstage' = lstage
  BY DEF lex_identifier
<1>2. NUL \notin S /\ newline \notin S
  BY Letters, Marks
<1> HIDE DEF S
<1>3. q \in p .. Len(source) + 1 /\ OneLine(source, p, q)
  BY <1>2, Run DEF Inside
<1> HIDE DEF q
<1>4. Pushes(p)
  BY <1>1, PushShape
<1> QED
  BY <1>1, <1>3, <1>4 DEF Takes, Moves

LEMMA NumberShape == Inside /\ lex_number => Takes \/ Fails
<1> SUFFICES ASSUME Inside, lex_number PROVE Takes \/ Fails
  OBVIOUS
<1> DEFINE d == digits_start(p)
           Bad == \/ ch(number_start(p)) \notin digit
                  \/ ch(d) \notin number_digits(p)
           q == run_end(d, number_digits(p))
           v == accumulated(d, q, number_base(p))
           w == IF number_sign(p) THEN Negate(v) ELSE v
<1>1. CASE Bad
  BY <1>1, ErrorShape DEF lex_number
<1>2. CASE ~Bad
  <2>1. /\ lstage = "top" /\ ch(p) \in digit \cup {"-"}
        /\ toks' = Append(toks, tok("TOK_NUMBER", p, q, w, <<>>)) /\ p' = q
        /\ source' = source /\ line' = line /\ lstage' = lstage
    BY <1>2 DEF lex_number
  <2>2. ch(number_start(p)) \in digit
    BY <1>2
  <2> HIDE DEF d, Bad, v, w
  <2>3. /\ d \in p .. Len(source) + 1 /\ d \in 1 .. Len(source) + 1
        /\ OneLine(source, p, d)
    BY <2>1, <2>2, NumberPrefix DEF Inside, d
  <2>4. NUL \notin number_digits(p) /\ newline \notin number_digits(p)
    BY Letters DEF number_digits
  <2>5. q \in d .. Len(source) + 1 /\ OneLine(source, d, q)
    BY <2>3, <2>4, Run DEF Inside
  <2> HIDE DEF q
  <2>6. q \in p .. Len(source) + 1 /\ OneLine(source, p, q)
    BY <2>3, <2>5, Joined DEF Inside
  <2>7. Pushes(p)
    BY <2>1, TokFields DEF Pushes
  <2> QED
    BY <2>1, <2>6, <2>7 DEF Takes, Moves
<1> QED
  BY <1>1, <1>2

LEMMA EndShape == lex_end => Finishes
<1> SUFFICES ASSUME lex_end PROVE Finishes
  OBVIOUS
<1>1. /\ lstage = "top" /\ lstage' = "done" /\ source' = source
      /\ ch(p) = NUL /\ p' = p /\ line' = line /\ push("TOK_EOF", p)
  BY DEF lex_end
<1>2. Pushes(p)
  BY <1>1, PushShape
<1> QED
  BY <1>1, <1>2, ChAt DEF Finishes

\* The characters of a string literal.
LEMMA OpenShape == Inside /\ open_string => Opens
<1> SUFFICES ASSUME Inside, open_string PROVE Opens
  OBVIOUS
<1>1. /\ lstage = "top" /\ lstage' = "string" /\ open' = p /\ p' = p + 1
      /\ source' = source /\ line' = line /\ toks' = toks /\ ch(p) = quote
  BY DEF open_string
<1>2. Moves
  BY <1>1, ChAt, OneMoves, Quote
<1> QED
  BY <1>1, <1>2 DEF Opens

LEMMA CloseShape == Inside /\ close_string => Closes
<1> SUFFICES ASSUME Inside, close_string PROVE Closes
  OBVIOUS
<1>1. /\ lstage = "string" /\ lstage' = "top" /\ p' = p + 1
      /\ source' = source /\ line' = line /\ ch(p) = quote
      /\ toks' = Append(toks, tok("TOK_STRING", open, p + 1, Zero(Limbs64), buf))
  BY DEF close_string
<1>2. Moves
  BY <1>1, ChAt, OneMoves, Quote
<1>3. Pushes(open)
  BY <1>1, TokFields DEF Pushes
<1> QED
  BY <1>1, <1>2, <1>3 DEF Closes

LEMMA StoreShape ==
  ASSUME NEW b, NEW n, store_byte(b, n), lstage = "string"
  PROVE  /\ p' = p + n /\ lstage' = "string" /\ open' = open
         /\ toks' = toks /\ source' = source /\ line' = line
  BY DEF store_byte

LEMMA CharShape == Inside /\ string_char => Reads
<1> SUFFICES ASSUME Inside, string_char PROVE Reads
  OBVIOUS
<1>1. /\ lstage = "string" /\ ch(p) # NUL /\ ch(p) # newline
      /\ store_byte(code(ch(p)), 1)
  BY DEF string_char
<1>2. /\ p' = p + 1 /\ lstage' = "string" /\ open' = open
      /\ toks' = toks /\ source' = source /\ line' = line
  BY <1>1, StoreShape
<1>3. Moves
  BY <1>1, <1>2, ChAt, OneMoves
<1> QED
  BY <1>1, <1>2, <1>3 DEF Reads

\* Two characters, and four.
LEMMA TwoChars ==
  ASSUME NEW s \in Text, NEW i \in 1 .. Len(s) + 1,
         At(s, i) # NUL, At(s, i) # newline,
         At(s, i + 1) # NUL, At(s, i + 1) # newline
  PROVE  /\ i + 2 \in i .. Len(s) + 1 /\ i + 2 \in 1 .. Len(s) + 1
         /\ OneLine(s, i, i + 2)
<1>1. /\ i + 1 \in i .. Len(s) + 1 /\ i + 1 \in 1 .. Len(s) + 1
      /\ OneLine(s, i, i + 1)
  BY OneChar
<1>2. /\ (i + 1) + 1 \in i + 1 .. Len(s) + 1 /\ (i + 1) + 1 \in 1 .. Len(s) + 1
      /\ OneLine(s, i + 1, (i + 1) + 1)
  BY <1>1, OneChar
<1>3. (i + 1) + 1 \in i .. Len(s) + 1 /\ OneLine(s, i, (i + 1) + 1)
  BY <1>1, <1>2, Joined
<1>4. (i + 1) + 1 = i + 2
  BY LenText
<1> QED
  BY <1>2, <1>3, <1>4

LEMMA EscapeShape == Inside /\ string_escape => Reads
<1> SUFFICES ASSUME Inside, string_escape PROVE Reads
  OBVIOUS
<1>1. /\ lstage = "string" /\ ch(p) = backslash /\ ch(p + 1) \in Escapes
      /\ store_byte(escape_value(ch(p + 1)), 2)
  BY DEF string_escape
<1>2. /\ p' = p + 2 /\ lstage' = "string" /\ open' = open
      /\ toks' = toks /\ source' = source /\ line' = line
  BY <1>1, StoreShape
<1>3. /\ At(source, p) # NUL /\ At(source, p) # newline
      /\ At(source, p + 1) # NUL /\ At(source, p + 1) # newline
  BY <1>1, ChAt, Quote, EscapeLetters
<1>4. p + 2 \in p .. Len(source) + 1 /\ OneLine(source, p, p + 2)
  BY <1>3, TwoChars DEF Inside
<1> QED
  BY <1>1, <1>2, <1>4 DEF Reads, Moves

LEMMA HexShape == Inside /\ string_hex => Reads
<1> SUFFICES ASSUME Inside, string_hex PROVE Reads
  OBVIOUS
<1>1. /\ lstage = "string" /\ ch(p) = backslash /\ ch(p + 1) = "x"
      /\ ch(p + 2) \in xdigit /\ ch(p + 3) \in xdigit
      /\ store_byte(hex_value, 4)
  BY DEF string_hex, is_hex_escape
<1>2. /\ p' = p + 4 /\ lstage' = "string" /\ open' = open
      /\ toks' = toks /\ source' = source /\ line' = line
  BY <1>1, StoreShape
<1>3. /\ At(source, p) # NUL /\ At(source, p) # newline
      /\ At(source, p + 1) # NUL /\ At(source, p + 1) # newline
      /\ At(source, p + 2) # NUL /\ At(source, p + 2) # newline
      /\ At(source, p + 3) # NUL /\ At(source, p + 3) # newline
  BY <1>1, ChAt, Quote, Marks, Letters
<1>4. /\ p + 2 \in p .. Len(source) + 1 /\ p + 2 \in 1 .. Len(source) + 1
      /\ OneLine(source, p, p + 2)
  BY <1>3, TwoChars DEF Inside
<1>5. (p + 2) + 1 = p + 3 /\ (p + 2) + 2 = p + 4
  BY LenText DEF Inside
<1>6. /\ (p + 2) + 2 \in p + 2 .. Len(source) + 1
      /\ OneLine(source, p + 2, (p + 2) + 2)
  BY <1>3, <1>4, <1>5, TwoChars DEF Inside
<1>7. (p + 2) + 2 \in p .. Len(source) + 1 /\ OneLine(source, p, (p + 2) + 2)
  BY <1>4, <1>6, Joined DEF Inside
<1>8. p + 4 \in p .. Len(source) + 1 /\ OneLine(source, p, p + 4)
  BY <1>5, <1>7
<1> QED
  BY <1>1, <1>2, <1>8 DEF Reads, Moves

\* Every step of the lexer has one of the eight shapes.
LEMMA EveryShape == Inside /\ LexNext => Shape
<1>1. lex_unexpected \/ string_fails => Fails
  BY ErrorShape DEF lex_unexpected, string_fails
<1> QED
  BY <1>1, SkipShape, NewlineShape, PunctuationShape, DirectiveShape,
     IdentifierShape, NumberShape, EndShape, OpenShape, CloseShape, CharShape,
     EscapeShape, HexShape DEF LexNext, Shape

-----------------------------------------------------------------------------
\* The inductive invariant.

IsList == \E S : toks \in Seq(S)

LineInv ==
  /\ line = 1 + NewlinesBefore(source, p)
  /\ \A k \in DOMAIN toks :
       toks[k].line = 1 + NewlinesBefore(source, toks[k].first)

\* Where the last token ended.
Previous == IF Len(toks) = 0 THEN 1 ELSE toks[Len(toks)].after

TokenInv ==
  \A k \in DOMAIN toks :
    Blanks(source, IF k = 1 THEN 1 ELSE toks[k - 1].after, toks[k].first)

\* What lies between the last token and the lexer's place.
PlaceInv ==
  /\ lstage = "top" => Skipped(source, Previous, p)
  /\ lstage = "string" => /\ Blanks(source, Previous, open)
                          /\ open \in 1 .. p /\ OneLine(source, open, p)
  /\ lstage = "done" => /\ Len(toks) > 0
                        /\ toks[Len(toks)].first = Len(source) + 1

LexInv == /\ source \in Texts /\ p \in 1 .. Len(source) + 1 /\ Previous \in Nat
          /\ IsList /\ LineInv /\ TokenInv /\ PlaceInv

LEMMA SkippedIsBlanks ==
  ASSUME NEW s, NEW i, NEW j, Skipped(s, i, j)
  PROVE  Blanks(s, i, j)
  BY DEF Skipped, Blanks

LEMMA NothingSkipped ==
  ASSUME NEW s, NEW i \in Nat
  PROVE  Skipped(s, i, i)
<1>1. i \in i .. i /\ ~(i < i) /\ \A k \in i .. i - 1 : FALSE
  OBVIOUS
<1> QED
  BY <1>1 DEF Skipped

LEMMA Appended ==
  ASSUME NEW S, NEW s \in Seq(S), NEW t
  PROVE  /\ Append(s, t) \in Seq(S \cup {t})
         /\ Len(Append(s, t)) = Len(s) + 1
         /\ DOMAIN Append(s, t) = 1 .. Len(s) + 1
         /\ Append(s, t)[Len(s) + 1] = t
         /\ \A k \in 1 .. Len(s) : Append(s, t)[k] = s[k]
         /\ DOMAIN s = 1 .. Len(s) /\ Len(s) \in Nat
<1>1. s \in Seq(S \cup {t}) /\ t \in S \cup {t}
  OBVIOUS
<1> QED
  BY <1>1

\* The parts of the invariant about the tokens, after a push.
ListInv ==
  /\ IsList /\ TokenInv
  /\ \A k \in DOMAIN toks :
       toks[k].line = 1 + NewlinesBefore(source, toks[k].first)

LEMMA PushKeeps ==
  ASSUME ListInv, NEW i, Pushes(i), source' = source,
         line = 1 + NewlinesBefore(source, i), Blanks(source, Previous, i)
  PROVE  /\ ListInv' /\ Previous' = p'
         /\ Len(toks)' > 0 /\ toks'[Len(toks')].first = i
<1>1. PICK t : /\ toks' = Append(toks, t)
               /\ t.line = line /\ t.first = i /\ t.after = p'
  BY DEF Pushes
<1>2. PICK S : toks \in Seq(S)
  BY DEF ListInv, IsList
<1> DEFINE n == Len(toks)
<1>3. /\ toks' \in Seq(S \cup {t})
      /\ Len(toks') = n + 1 /\ DOMAIN toks' = 1 .. n + 1
      /\ toks'[n + 1] = t
      /\ \A k \in 1 .. n : toks'[k] = toks[k]
      /\ DOMAIN toks = 1 .. n /\ n \in Nat
  BY <1>1, <1>2, Appended
<1> HIDE DEF n
<1>4. IsList'
  BY <1>3 DEF IsList
<1>5. Previous' = p'
  <2>1. n + 1 # 0
    BY <1>3
  <2> QED
    BY <1>1, <1>3, <2>1 DEF Previous
<1>6. \A k \in DOMAIN toks' :
         toks'[k].line = 1 + NewlinesBefore(source', toks'[k].first)
  <2> TAKE k \in DOMAIN toks'
  <2>1. CASE k = n + 1
    BY <1>1, <1>3, <2>1
  <2>2. CASE k # n + 1
    <3>1. k \in 1 .. n
      BY <1>3, <2>2
    <3> QED
      BY <1>3, <3>1 DEF ListInv
  <2> QED
    BY <2>1, <2>2
<1>7. TokenInv'
  <2> SUFFICES ASSUME NEW k \in DOMAIN toks'
               PROVE  Blanks(source', IF k = 1 THEN 1 ELSE toks'[k - 1].after,
                             toks'[k].first)
    BY DEF TokenInv
  <2>1. CASE k = n + 1
    <3>1. (IF k = 1 THEN 1 ELSE toks'[k - 1].after) = Previous
      <4>1. CASE n = 0
        BY <2>1, <4>1 DEF Previous, n
      <4>2. CASE n # 0
        <5>1. k # 1 /\ k - 1 = n /\ n \in 1 .. n
          BY <1>3, <2>1, <4>2
        <5> QED
          BY <1>3, <4>2, <5>1 DEF Previous, n
      <4> QED
        BY <4>1, <4>2
    <3> QED
      BY <1>1, <1>3, <2>1, <3>1
  <2>2. CASE k # n + 1
    <3>1. k \in 1 .. n /\ (k # 1 => k - 1 \in 1 .. n)
      BY <1>3, <2>2
    <3>2. toks'[k] = toks[k] /\ (k # 1 => toks'[k - 1] = toks[k - 1])
      BY <1>3, <3>1
    <3>3. Blanks(source, IF k = 1 THEN 1 ELSE toks[k - 1].after, toks[k].first)
      BY <1>3, <3>1 DEF ListInv, TokenInv
    <3>4. CASE k = 1
      BY <3>2, <3>3, <3>4
    <3>5. CASE k # 1
      BY <3>2, <3>3, <3>5
    <3> QED
      BY <3>4, <3>5
  <2> QED
    BY <2>1, <2>2
<1>8. Len(toks)' > 0 /\ toks'[Len(toks')].first = i
  BY <1>1, <1>3
<1> QED
  BY <1>4, <1>5, <1>6, <1>7, <1>8 DEF ListInv

LEMMA ListKeeps ==
  ASSUME ListInv, toks' = toks, source' = source
  PROVE  ListInv' /\ Previous' = Previous
  BY DEF ListInv, IsList, TokenInv, Previous

\* A move keeps the place inside the source and the count of its lines.
LEMMA MoveKeeps ==
  ASSUME Inside, Moves, line = 1 + NewlinesBefore(source, p)
  PROVE  /\ p' \in 1 .. Len(source') + 1 /\ p' \in Nat
         /\ line' = 1 + NewlinesBefore(source', p')
<1>1. Len(source) \in Nat
  BY LenText DEF Inside
<1>2. /\ source' = source /\ line' = line
      /\ p' \in p .. Len(source) + 1 /\ OneLine(source, p, p')
  BY DEF Moves
<1>3. /\ p \in Nat /\ p' \in Nat /\ p > 0 /\ p <= p'
      /\ p' \in 1 .. Len(source) + 1
  BY <1>1, <1>2 DEF Inside
<1>4. NewlinesBefore(source, p) = NewlinesBefore(source, p')
  BY <1>2, <1>3, SameCount
<1> QED
  BY <1>2, <1>3, <1>4

LEMMA InvParts ==
  ASSUME LexInv
  PROVE  Inside /\ ListInv /\ p \in Nat
<1>1. source \in Text
  BY TextsAssumption DEF LexInv, Text
<1>2. Len(source) \in Nat
  BY <1>1, LenText
<1> QED
  BY <1>1, <1>2 DEF LexInv, Inside, ListInv, LineInv

\* The invariant from its parts.
LEMMA InvFrom ==
  ASSUME source' \in Texts, p' \in 1 .. Len(source') + 1, Previous' \in Nat,
         ListInv', line' = 1 + NewlinesBefore(source', p'), PlaceInv'
  PROVE  LexInv'
  BY DEF LexInv, ListInv, LineInv

LEMMA SkipsKeep ==
  ASSUME LexInv, Skips
  PROVE  LexInv'
<1>1. Inside /\ ListInv /\ p \in Nat
  BY InvParts
<1>2. /\ lstage = "top" /\ lstage' = "top" /\ toks' = toks /\ Moves
      /\ source' = source /\ p' \in p .. Len(source) + 1
      /\ OneLine(source, p, p')
  BY DEF Skips, Moves
<1>3. p' \in 1 .. Len(source') + 1 /\ p' \in Nat
        /\ line' = 1 + NewlinesBefore(source', p')
  BY <1>1, <1>2, MoveKeeps DEF LexInv, LineInv
<1>4. ListInv' /\ Previous' = Previous
  BY <1>1, <1>2, ListKeeps
<1> DEFINE i == Previous
<1>5. i \in Nat /\ Skipped(source, i, p)
  BY <1>2 DEF LexInv, PlaceInv
<1>6. PICK m \in i .. p :
        /\ \A k \in i .. m - 1 : At(source, k) \in blank
        /\ m < p => At(source, m) = ";" /\ At(source, p) \in {NUL, newline}
        /\ \A k \in m .. p - 1 : At(source, k) # newline
  BY <1>5 DEF Skipped
<1> HIDE DEF i
<1>61. m \in Nat /\ i <= m /\ m <= p /\ i <= p
  BY <1>1, <1>5
<1>7. At(source, p) \in blank \/ At(source, p) = ";"
  BY DEF Skips
<1>8. m = p
  <2>1. ~(m < p)
    BY <1>6, <1>7, Blank, Marks
  <2> QED
    BY <1>61, <1>1, <2>1
<1>9. Skipped(source, i, p')
  <2>1. CASE At(source, p) \in blank /\ p' = p + 1
    <3>1. /\ p' \in i .. p' /\ ~(p' < p')
          /\ \A k \in i .. p' - 1 : k \in i .. m - 1 \/ k = p
          /\ \A k \in p' .. p' - 1 : FALSE
      <4>1. p' = p + 1
        BY <2>1
      <4> QED
        BY <1>61, <1>1, <1>3, <1>5, <1>8, <4>1
    <3>2. \A k \in i .. p' - 1 : At(source, k) \in blank
      BY <1>6, <2>1, <3>1
    <3> QED
      BY <3>1, <3>2 DEF Skipped
  <2>2. CASE At(source, p) = ";" /\ At(source, p') \in {NUL, newline}
    <3>1. p \in i .. p'
      <4>1. p <= p'
        BY <1>1, <1>2, <1>3
      <4> QED
        BY <1>61, <1>1, <1>3, <1>5, <4>1
    <3>2. \A k \in i .. p - 1 : At(source, k) \in blank
      BY <1>6, <1>8
    <3>3. \A k \in p .. p' - 1 : At(source, k) # newline
      BY <1>2 DEF OneLine
    <3> QED
      BY <2>2, <3>1, <3>2, <3>3 DEF Skipped
  <2> QED
    BY <2>1, <2>2 DEF Skips
<1>10. PlaceInv'
  BY <1>2, <1>4, <1>9 DEF PlaceInv, i
<1> QED
  BY <1>2, <1>3, <1>4, <1>5, <1>10, InvFrom DEF LexInv, i

\* A token at the lexer's place.
LEMMA TokenKeeps ==
  ASSUME LexInv, lstage = "top", Pushes(p), source' = source
  PROVE  /\ ListInv' /\ Previous' = p'
         /\ Len(toks)' > 0 /\ toks'[Len(toks')].first = p
<1>1. ListInv
  BY InvParts
<1>2. Blanks(source, Previous, p)
  BY SkippedIsBlanks DEF LexInv, PlaceInv
<1>3. line = 1 + NewlinesBefore(source, p)
  BY DEF LexInv, LineInv
<1> QED
  BY <1>1, <1>2, <1>3, PushKeeps

LEMMA TakesKeep ==
  ASSUME LexInv, Takes
  PROVE  LexInv'
<1>1. lstage = "top" /\ lstage' = "top" /\ Moves /\ Pushes(p)
        /\ source' = source
  BY DEF Takes, Moves
<1>2. Inside /\ line = 1 + NewlinesBefore(source, p) /\ source \in Texts
  BY InvParts DEF LexInv, LineInv
<1>3. p' \in 1 .. Len(source') + 1 /\ p' \in Nat
        /\ line' = 1 + NewlinesBefore(source', p')
  BY <1>1, <1>2, MoveKeeps
<1>4. ListInv' /\ Previous' = p'
  BY <1>1, TokenKeeps
<1>5. Skipped(source', p', p')
  BY <1>3, NothingSkipped
<1>6. PlaceInv'
  BY <1>1, <1>4, <1>5 DEF PlaceInv
<1> QED
  BY <1>1, <1>2, <1>3, <1>4, <1>6, InvFrom

LEMMA EndsLineKeeps ==
  ASSUME LexInv, EndsLine
  PROVE  LexInv'
<1>1. /\ lstage = "top" /\ lstage' = "top" /\ Pushes(p)
      /\ source' = source /\ At(source, p) = newline
      /\ p' = p + 1 /\ line' = line + 1
  BY DEF EndsLine
<1>2. /\ Inside /\ p \in Nat /\ source \in Texts
      /\ line = 1 + NewlinesBefore(source, p)
  BY InvParts DEF LexInv, LineInv
<1>3. Len(source) \in Nat /\ p > 0
  BY <1>2, LenText DEF Inside
<1>4. ~(p > Len(source))
  BY <1>1, <1>2, <1>3, Ends, Quote DEF Inside
<1>5. p' \in 1 .. Len(source') + 1 /\ p' \in Nat
  BY <1>1, <1>2, <1>3, <1>4
<1>6. line' = 1 + NewlinesBefore(source', p')
  <2>1. NewlinesBefore(source, p + 1) = NewlinesBefore(source, p) + 1
    BY <1>1, <1>2, <1>3, NextCount
  <2>2. NewlinesBefore(source, p) \in Nat
    BY <1>2, CountNat
  <2> QED
    BY <1>1, <1>2, <2>1, <2>2
<1>7. ListInv' /\ Previous' = p'
  BY <1>1, TokenKeeps
<1>8. Skipped(source', p', p')
  BY <1>5, NothingSkipped
<1>9. PlaceInv'
  BY <1>1, <1>7, <1>8 DEF PlaceInv
<1> QED
  BY <1>1, <1>2, <1>5, <1>6, <1>7, <1>9, InvFrom

LEMMA FinishesKeeps ==
  ASSUME LexInv, Finishes
  PROVE  LexInv'
<1>1. /\ lstage = "top" /\ lstage' = "done" /\ Pushes(p)
      /\ source' = source /\ At(source, p) = NUL /\ p' = p /\ line' = line
  BY DEF Finishes
<1>2. /\ Inside /\ p \in Nat /\ p \in 1 .. Len(source) + 1
      /\ line = 1 + NewlinesBefore(source, p) /\ source \in Texts
  BY InvParts DEF LexInv, LineInv
<1>3. Len(source) \in Nat /\ p > 0
  BY <1>2, LenText DEF Inside
<1>4. p > Len(source)
  BY <1>1, <1>2, <1>3, Ends DEF Inside
<1>5. p = Len(source) + 1
  BY <1>2, <1>3, <1>4
<1>6. /\ ListInv' /\ Previous' = p'
      /\ Len(toks)' > 0 /\ toks'[Len(toks')].first = p
  BY <1>1, TokenKeeps
<1>7. PlaceInv'
  BY <1>1, <1>5, <1>6 DEF PlaceInv
<1> QED
  BY <1>1, <1>2, <1>6, <1>7, InvFrom

LEMMA OpensKeep ==
  ASSUME LexInv, Opens
  PROVE  LexInv'
<1>1. /\ lstage = "top" /\ lstage' = "string" /\ open' = p /\ toks' = toks
      /\ Moves /\ source' = source /\ OneLine(source, p, p')
      /\ p' \in p .. Len(source) + 1
  BY DEF Opens, Moves
<1>2. /\ Inside /\ ListInv /\ p \in Nat /\ p \in 1 .. Len(source) + 1
      /\ line = 1 + NewlinesBefore(source, p) /\ source \in Texts
      /\ Previous \in Nat
  BY InvParts DEF LexInv, LineInv
<1>3. p' \in 1 .. Len(source') + 1 /\ p' \in Nat
        /\ line' = 1 + NewlinesBefore(source', p')
  BY <1>1, <1>2, MoveKeeps
<1>4. ListInv' /\ Previous' = Previous
  BY <1>1, <1>2, ListKeeps
<1>5. Blanks(source, Previous, p)
  BY <1>1, SkippedIsBlanks DEF LexInv, PlaceInv
<1>6. open' \in 1 .. p'
  BY <1>1, <1>2, <1>3
<1>7. PlaceInv'
  BY <1>1, <1>4, <1>5, <1>6 DEF PlaceInv
<1> QED
  BY <1>1, <1>2, <1>3, <1>4, <1>7, InvFrom

LEMMA ReadsKeep ==
  ASSUME LexInv, Reads
  PROVE  LexInv'
<1>1. /\ lstage = "string" /\ lstage' = "string" /\ open' = open /\ toks' = toks
      /\ Moves /\ source' = source /\ OneLine(source, p, p')
      /\ p' \in p .. Len(source) + 1
  BY DEF Reads, Moves
<1>2. /\ Inside /\ ListInv /\ p \in Nat /\ p \in 1 .. Len(source) + 1
      /\ line = 1 + NewlinesBefore(source, p) /\ source \in Texts
      /\ Previous \in Nat
  BY InvParts DEF LexInv, LineInv
<1>3. p' \in 1 .. Len(source') + 1 /\ p' \in Nat
        /\ line' = 1 + NewlinesBefore(source', p')
  BY <1>1, <1>2, MoveKeeps
<1>4. ListInv' /\ Previous' = Previous
  BY <1>1, <1>2, ListKeeps
<1>5. /\ Blanks(source, Previous, open)
      /\ open \in 1 .. p /\ OneLine(source, open, p)
  BY <1>1 DEF LexInv, PlaceInv
<1>6. Len(source) \in Nat /\ p <= p'
  BY <1>1, <1>2, LenText DEF Inside
<1>7. /\ open \in 1 .. p' /\ open \in 1 .. Len(source) + 1
      /\ p \in open .. Len(source) + 1
  BY <1>2, <1>3, <1>5, <1>6
<1>8. OneLine(source, open, p')
  BY <1>1, <1>2, <1>5, <1>7, Joined DEF Inside
<1>9. PlaceInv'
  BY <1>1, <1>4, <1>5, <1>7, <1>8 DEF PlaceInv
<1> QED
  BY <1>1, <1>2, <1>3, <1>4, <1>9, InvFrom

LEMMA ClosesKeeps ==
  ASSUME LexInv, Closes
  PROVE  LexInv'
<1>1. /\ lstage = "string" /\ lstage' = "top" /\ Moves /\ Pushes(open)
      /\ source' = source
  BY DEF Closes, Moves
<1>2. /\ Inside /\ ListInv /\ p \in Nat
      /\ line = 1 + NewlinesBefore(source, p) /\ source \in Texts
  BY InvParts DEF LexInv, LineInv
<1>3. p' \in 1 .. Len(source') + 1 /\ p' \in Nat
        /\ line' = 1 + NewlinesBefore(source', p')
  BY <1>1, <1>2, MoveKeeps
<1>4. /\ Blanks(source, Previous, open)
      /\ open \in 1 .. p /\ OneLine(source, open, p)
  BY <1>1 DEF LexInv, PlaceInv
<1>5. open \in Nat /\ open > 0 /\ open <= p
  BY <1>2, <1>4
<1>6. line = 1 + NewlinesBefore(source, open)
  BY <1>2, <1>4, <1>5, SameCount
<1>7. ListInv' /\ Previous' = p'
  BY <1>1, <1>2, <1>4, <1>6, PushKeeps
<1>8. Skipped(source', p', p')
  BY <1>3, NothingSkipped
<1>9. PlaceInv'
  BY <1>1, <1>7, <1>8 DEF PlaceInv
<1> QED
  BY <1>1, <1>2, <1>3, <1>7, <1>9, InvFrom

LEMMA FailsKeeps ==
  ASSUME LexInv, Fails
  PROVE  LexInv'
<1>1. /\ lstage' = "error" /\ source' = source /\ p' = p /\ line' = line
      /\ toks' = toks
  BY DEF Fails
<1>2. /\ ListInv /\ p \in 1 .. Len(source) + 1
      /\ line = 1 + NewlinesBefore(source, p) /\ source \in Texts
      /\ Previous \in Nat
  BY InvParts DEF LexInv, LineInv
<1>3. ListInv' /\ Previous' = Previous
  BY <1>1, <1>2, ListKeeps
<1>4. PlaceInv'
  BY <1>1 DEF PlaceInv
<1> QED
  BY <1>1, <1>2, <1>3, <1>4, InvFrom

LEMMA LexInitInv == LexInit => LexInv
<1> SUFFICES ASSUME LexInit PROVE LexInv
  OBVIOUS
<1>1. /\ source \in Texts /\ p = 1 /\ line = 1 /\ lstage = "top" /\ toks = <<>>
  BY DEF LexInit
<1>2. source \in Text /\ Len(source) \in Nat
  BY <1>1, TextsAssumption, LenText DEF Text
<1>3. Previous = 1 /\ DOMAIN toks = {} /\ IsList
  <2>1. toks \in Seq({}) /\ Len(toks) = 0
    BY <1>1
  <2> QED
    BY <1>1, <2>1 DEF Previous, IsList
<1>4. NewlinesBefore(source, 1) = 0
  <2>1. {k \in 1 .. 1 - 1 : At(source, k) = newline} = {}
    OBVIOUS
  <2>2. Cardinality({}) = 0
    BY FS_EmptySet
  <2> QED
    BY <2>1, <2>2 DEF NewlinesBefore
<1>5. Skipped(source, 1, 1)
  BY NothingSkipped
<1>6. LineInv /\ TokenInv
  BY <1>1, <1>3, <1>4 DEF LineInv, TokenInv
<1>7. PlaceInv
  BY <1>1, <1>3, <1>5 DEF PlaceInv
<1>8. p \in 1 .. Len(source) + 1
  BY <1>1, <1>2
<1> QED
  BY <1>1, <1>3, <1>6, <1>7, <1>8 DEF LexInv

\* The lexer's invariant, for every text: it never leaves the source, its
\* line is the line of its place, and what lies between the last token and
\* its place is blank or the inside of a string literal.
THEOREM LexerSafe == LexSpec => []LexInv
<1>1. LexInv /\ [LexNext]_lexVars => LexInv'
  <2> SUFFICES ASSUME LexInv, [LexNext]_lexVars PROVE LexInv'
    OBVIOUS
  <2>1. CASE LexNext
    <3>1. Shape
      BY <2>1, EveryShape, InvParts
    <3> QED
      BY <3>1, SkipsKeep, TakesKeep, EndsLineKeeps, FinishesKeeps, OpensKeep,
         ReadsKeep, ClosesKeeps, FailsKeeps DEF Shape
  <2>2. CASE UNCHANGED lexVars
    BY <2>2 DEF lexVars, LexInv, IsList, LineInv, TokenInv, PlaceInv, Previous
  <2> QED
    BY <2>1, <2>2
<1> QED
  BY <1>1, LexInitInv, PTL DEF LexSpec

\* The lexer reads no character behind the terminating NUL, whatever the
\* text (lexer.c: the two and four characters of an escape, the prefix of a
\* number and every scanning loop).
THEOREM ReadsInside == LexSpec => []ReadsInsideSource
<1>1. LexInv => ReadsInsideSource
  BY DEF LexInv, ReadsInsideSource
<1> QED
  BY <1>1, LexerSafe, PTL

\* Every token carries the line it begins on, whatever the text (lexer.c:
\* line is counted at newlines only, and no other step passes one).
THEOREM LinesCorrect == LexSpec => []LinesAreRight
<1>1. LexInv => LinesAreRight
  <2>1. \A i : newlines_before(i) = NewlinesBefore(source, i)
    BY ChAt DEF newlines_before, NewlinesBefore
  <2> QED
    BY <2>1 DEF LexInv, LineInv, LinesAreRight
<1> QED
  BY <1>1, LexerSafe, PTL

\* Apart from blanks and comments every character of every text belongs to
\* exactly one token, and the last token stands at the end (lexer.c: p after
\* each token).
THEOREM LosesNothing == LexSpec => []NothingIsLost
<1>1. LexInv => NothingIsLost
  <2>1. \A i, j : Blanks(source, i, j) => OnlyBlanks(i, j)
    BY ChAt DEF Blanks, OnlyBlanks
  <2> QED
    BY <2>1 DEF LexInv, TokenInv, PlaceInv, NothingIsLost
<1> QED
  BY <1>1, LexerSafe, PTL

-----------------------------------------------------------------------------
\* Number literals, in terms of the text.
Sign(s, i) == At(s, i) = "-"
NumberStart(s, i) == IF Sign(s, i) THEN i + 1 ELSE i
Hex(s, i) == LET n == NumberStart(s, i)
             IN  At(s, n) = "0" /\ At(s, n + 1) \in {"x", "X"}
Base(s, i) == IF Hex(s, i) THEN 16 ELSE 10
DigitsStart(s, i) == NumberStart(s, i) + (IF Hex(s, i) THEN 2 ELSE 0)

\* The digits at i .. j - 1, accumulated in n limbs.
Accumulated(s, i, j, base, n) ==
  LET acc[k \in i - 1 .. j - 1] ==
        IF k < i THEN Zero(n)
        ELSE MulAdd(acc[k - 1], base, digit_value(At(s, k)))
  IN  acc[j - 1]

SpelledOut(s, i, j, n) ==
  LET m == Accumulated(s, DigitsStart(s, i), j, Base(s, i), n)
  IN  IF Sign(s, i) THEN Negate(m) ELSE m

LEMMA NumberParts ==
  /\ \A i : number_sign(i) <=> Sign(source, i)
  /\ \A i : number_start(i) = NumberStart(source, i)
  /\ \A i : is_hex(i) <=> Hex(source, i)
  /\ \A i : number_base(i) = Base(source, i)
  /\ \A i : digits_start(i) = DigitsStart(source, i)
<1>1. \A i : number_sign(i) <=> Sign(source, i)
  BY ChAt DEF number_sign, Sign
<1>2. \A i : number_start(i) = NumberStart(source, i)
  BY <1>1 DEF number_start, NumberStart
<1>3. \A i : is_hex(i) <=> Hex(source, i)
  BY <1>2, ChAt DEF is_hex, Hex
<1>4. \A i : number_base(i) = Base(source, i)
  BY <1>3 DEF number_base, Base
<1>5. \A i : digits_start(i) = DigitsStart(source, i)
  BY <1>2, <1>3 DEF digits_start, DigitsStart
<1> QED
  BY <1>1, <1>2, <1>3, <1>4, <1>5

LEMMA AccumulatedOfState ==
  ASSUME NEW i, NEW j, NEW base
  PROVE  accumulated(i, j, base) = Accumulated(source, i, j, base, Limbs64)
  BY DEF accumulated, Accumulated, ch, At

LEMMA MagnitudeOfState ==
  ASSUME NEW t
  PROVE  Magnitude(t) = Accumulated(source, digits_start(t.first), t.after,
                                    number_base(t.first), Wider)
  BY DEF Magnitude, Accumulated, ch, At

\* The digits have values.
LEMMA DigitCodes ==
  ASSUME NEW x \in xdigit
  PROVE  \E i \in DOMAIN Printable : Printable[i] = x
<1>1. DOMAIN Printable = 1 .. 95
  BY DEF Printable
<1>2. /\ Printable[17] = "0" /\ Printable[18] = "1" /\ Printable[19] = "2"
      /\ Printable[20] = "3" /\ Printable[21] = "4" /\ Printable[22] = "5"
      /\ Printable[23] = "6" /\ Printable[24] = "7" /\ Printable[25] = "8"
      /\ Printable[26] = "9"
  BY DEF Printable
<1>3. /\ Printable[34] = "A" /\ Printable[35] = "B" /\ Printable[36] = "C"
      /\ Printable[37] = "D" /\ Printable[38] = "E" /\ Printable[39] = "F"
  BY DEF Printable
<1>4. /\ Printable[66] = "a" /\ Printable[67] = "b" /\ Printable[68] = "c"
      /\ Printable[69] = "d" /\ Printable[70] = "e" /\ Printable[71] = "f"
  BY DEF Printable
<1>5. CASE x \in digit
  BY <1>1, <1>2, <1>5 DEF digit
<1>6. CASE x \in {"A", "B", "C", "D", "E", "F"}
  BY <1>1, <1>3, <1>6
<1>7. CASE x \in {"a", "b", "c", "d", "e", "f"}
  BY <1>1, <1>4, <1>7
<1>8. x \in digit \/ x \in {"A", "B", "C", "D", "E", "F"}
        \/ x \in {"a", "b", "c", "d", "e", "f"}
  BY DEF xdigit
<1> QED
  BY <1>5, <1>6, <1>7, <1>8

LEMMA DigitValue ==
  ASSUME NEW x \in xdigit
  PROVE  digit_value(x) \in Int
<1> DEFINE place == CHOOSE i \in DOMAIN Printable : Printable[i] = x
<1>1. place \in DOMAIN Printable
  BY DigitCodes, Zenon
<1>2. DOMAIN Printable = 1 .. 95
  BY DEF Printable
<1>3. code(x) = 9 \/ code(x) = 13 \/ code(x) = 31 + place
  BY Zenon DEF code
<1> HIDE DEF place
<1>4. code(x) \in Int
  BY <1>1, <1>2, <1>3
<1> QED
  BY <1>4 DEF digit_value

\* The characters from i to before j have values as digits.
AllDigits(s, i, j) == \A k \in i .. j - 1 : At(s, k) \in xdigit

\* f accumulates the digits from i on.
IsAccumulation(f, s, i, j, base, n) ==
  /\ f[i - 1] = Zero(n)
  /\ \A k \in i .. j - 1 : f[k] = MulAdd(f[k - 1], base, digit_value(At(s, k)))

Accumulates(s, i, j, base, n) ==
  \E f \in [i - 1 .. j - 1 -> WideNum(n)] :
    /\ IsAccumulation(f, s, i, j, base, n)
    /\ Accumulated(s, i, j, base, n) = f[j - 1]

LEMMA Accumulation ==
  ASSUME NEW s, NEW i \in Nat, NEW j \in Nat, i <= j, AllDigits(s, i, j),
         NEW base \in Nat, NEW n \in Nat, n > 0
  PROVE  Accumulates(s, i, j, base, n)
<1> DEFINE V == WideNum(n)
           z == Zero(n)
           d == [k \in i .. j - 1 |-> digit_value(At(s, k))]
           F == [x \in (i .. j - 1) \X V |-> MulAdd(x[2], base, d[x[1]])]
           E(u) == [k \in i - 1 .. j - 1 |->
                      IF k < i THEN Zero(n)
                      ELSE MulAdd(u[k - 1], base, digit_value(At(s, k)))]
           t == CHOOSE u : u = E(u)
<1>1. ASSUME NEW k \in i .. j - 1
      PROVE  d[k] \in Int /\ d[k] = digit_value(At(s, k))
  BY DigitValue DEF AllDigits
<1> HIDE DEF d
<1>2. z \in V
  BY ZeroWide
<1>3. ASSUME NEW v \in V, NEW k \in i .. j - 1 PROVE MulAdd(v, base, d[k]) \in V
  BY <1>1, MulAddWide
<1>4. F \in [(i .. j - 1) \X V -> V]
  <2> HIDE DEF V
  <2>1. ASSUME NEW x \in (i .. j - 1) \X V PROVE MulAdd(x[2], base, d[x[1]]) \in V
    BY <1>3
  <2> QED
    BY <2>1
<1>5. PICK f \in [i - 1 .. j - 1 -> V] : Recurs(f, i, j - 1, z, F)
  <2> HIDE DEF F, V, z
  <2>1. i \in Int /\ j - 1 \in Int
    OBVIOUS
  <2> QED
    BY <1>2, <1>4, <2>1, Recursion
<1> HIDE DEF V, z
<1>6. ASSUME NEW k \in i - 1 .. j - 1
      PROVE  f[k] = IF k < i THEN z ELSE MulAdd(f[k - 1], base, d[k])
  <2>1. f[k] = IF k < i THEN z ELSE F[<<k, f[k - 1]>>]
    <3> HIDE DEF F
    <3> QED
      BY <1>5 DEF Recurs
  <2>2. CASE k < i
    BY <2>1, <2>2
  <2>3. CASE ~(k < i)
    <3>1. k \in i .. j - 1 /\ k - 1 \in i - 1 .. j - 1
      BY <2>3
    <3>2. <<k, f[k - 1]>> \in (i .. j - 1) \X V
      BY <3>1
    <3>3. F[<<k, f[k - 1]>>] = MulAdd(f[k - 1], base, d[k])
      BY <3>2
    <3> HIDE DEF F
    <3> QED
      BY <2>1, <2>3, <3>3
  <2> QED
    BY <2>2, <2>3
<1> HIDE DEF F
<1>7. ASSUME NEW k \in i - 1 .. j - 1, ~(k < i) PROVE k \in i .. j - 1
  BY <1>7
<1>8. ASSUME NEW u, NEW k \in i - 1 .. j - 1
      PROVE  E(u)[k] = IF k < i THEN z ELSE MulAdd(u[k - 1], base, d[k])
  <2>1. E(u)[k] = IF k < i THEN Zero(n)
                  ELSE MulAdd(u[k - 1], base, digit_value(At(s, k)))
    OBVIOUS
  <2> HIDE DEF E
  <2> QED
    BY <1>1, <1>7, <2>1 DEF z
<1>9. f = E(f)
  <2>1. E(f) = [k \in i - 1 .. j - 1 |-> E(f)[k]]
    OBVIOUS
  <2> HIDE DEF E
  <2> QED
    BY <1>6, <1>8, <2>1
<1>10. t = E(t)
  <2> HIDE DEF E
  <2> QED
    BY <1>9
<1>11. Accumulated(s, i, j, base, n) = t[j - 1]
  BY DEF Accumulated
<1> HIDE DEF t, E
<1>12. ASSUME NEW k \in i - 1 .. j - 1
       PROVE  t[k] = IF k < i THEN z ELSE MulAdd(t[k - 1], base, d[k])
  BY <1>8, <1>10
<1>13. ASSUME NEW k \in i - 1 .. j - 1 PROVE t[k] = f[k]
  <2> DEFINE S == {m \in i - 1 .. j - 1 : t[m] = f[m]}
  <2>1. i - 1 \in Int /\ j - 1 \in Int /\ i - 1 \in S
    BY <1>6, <1>12
  <2>2. ASSUME NEW m \in i - 1 .. j - 1, m > i - 1, m - 1 \in S PROVE m \in S
    BY <1>6, <1>12, <2>2
  <2> HIDE DEF S
  <2>3. \A m \in i - 1 .. j - 1 : m \in S
    BY <2>1, <2>2, IntervalInduction
  <2> QED
    BY <2>3 DEF S
<1>14. i - 1 \in i - 1 .. j - 1 /\ j - 1 \in i - 1 .. j - 1 /\ i - 1 < i
  OBVIOUS
<1>15. IsAccumulation(f, s, i, j, base, n)
  <2>1. f[i - 1] = Zero(n)
    BY <1>6, <1>14 DEF z
  <2>2. ASSUME NEW k \in i .. j - 1 PROVE f[k] = MulAdd(f[k - 1], base, d[k])
    <3>1. k \in i - 1 .. j - 1 /\ ~(k < i)
      OBVIOUS
    <3> QED
      BY <1>6, <3>1
  <2> QED
    BY <1>1, <2>1, <2>2 DEF IsAccumulation
<1>16. Accumulated(s, i, j, base, n) = f[j - 1]
  BY <1>11, <1>13, <1>14
<1> QED
  BY <1>15, <1>16 DEF V, Accumulates

\* The value in four limbs is the value in more of them, cut off.
LEMMA AccumulatedLow ==
  ASSUME NEW s, NEW i \in Nat, NEW j \in Nat, i <= j, AllDigits(s, i, j),
         NEW base \in Nat, NEW n \in Nat, n >= 4
  PROVE  /\ Accumulated(s, i, j, base, n) \in WideNum(n)
         /\ Low64(Accumulated(s, i, j, base, n)) = Accumulated(s, i, j, base, Limbs64)
<1>1. n > 0 /\ Limbs64 = 4 /\ 4 \in Nat /\ 4 > 0
  BY DEF Limbs64
<1>2. PICK f \in [i - 1 .. j - 1 -> WideNum(n)] :
        /\ IsAccumulation(f, s, i, j, base, n)
        /\ Accumulated(s, i, j, base, n) = f[j - 1]
  <2>1. Accumulates(s, i, j, base, n)
    BY <1>1, Accumulation
  <2> QED
    BY <2>1 DEF Accumulates
<1>3. PICK g \in [i - 1 .. j - 1 -> WideNum(4)] :
        /\ IsAccumulation(g, s, i, j, base, 4)
        /\ Accumulated(s, i, j, base, 4) = g[j - 1]
  <2>1. Accumulates(s, i, j, base, 4)
    BY <1>1, Accumulation
  <2> QED
    BY <2>1 DEF Accumulates
<1>4. ASSUME NEW k \in i .. j - 1
      PROVE  /\ f[k] = MulAdd(f[k - 1], base, digit_value(At(s, k)))
             /\ g[k] = MulAdd(g[k - 1], base, digit_value(At(s, k)))
             /\ digit_value(At(s, k)) \in Int
  BY <1>2, <1>3, DigitValue DEF IsAccumulation, AllDigits
<1>5. Low64(f[i - 1]) = g[i - 1]
  <2>1. f[i - 1] = Zero(n) /\ g[i - 1] = Zero(4)
    BY <1>2, <1>3 DEF IsAccumulation
  <2>2. \A k \in 1 .. 4 : k \in 1 .. n
    OBVIOUS
  <2>3. Low64(Zero(n)) = [k \in 1 .. 4 |-> 0]
    BY <2>2 DEF Low64, Limbs64, Zero
  <2> QED
    BY <2>1, <2>3 DEF Zero
<1> DEFINE S == {k \in i - 1 .. j - 1 : Low64(f[k]) = g[k]}
<1>6. i - 1 \in Int /\ j - 1 \in Int /\ i - 1 \in S
  BY <1>5
<1>7. ASSUME NEW k \in i - 1 .. j - 1, k > i - 1, k - 1 \in S PROVE k \in S
  <2>1. k \in i .. j - 1 /\ k - 1 \in i - 1 .. j - 1
    BY <1>7
  <2>2. Low64(f[k - 1]) = g[k - 1]
    BY <1>7
  <2>3. f[k - 1] \in WideNum(n)
    BY <2>1
  <2> DEFINE v == f[k - 1]
             d == digit_value(At(s, k))
  <2>4. d \in Int /\ f[k] = MulAdd(v, base, d) /\ g[k] = MulAdd(Low64(v), base, d)
    BY <1>4, <2>1, <2>2
  <2>5. v \in WideNum(n)
    BY <2>3
  <2> HIDE DEF v, d, S
  <2>6. MulAdd(Low64(v), base, d) = Low64(MulAdd(v, base, d))
    BY <2>4, <2>5, MulAddLow
  <2> QED
    BY <2>1, <2>4, <2>6 DEF S
<1> HIDE DEF S
<1>8. \A k \in i - 1 .. j - 1 : k \in S
  BY <1>6, <1>7, IntervalInduction
<1>9. j - 1 \in i - 1 .. j - 1
  OBVIOUS
<1> QED
  BY <1>1, <1>2, <1>3, <1>8, <1>9 DEF S

\* Token t spells a number.
NumberAt(s, t) ==
  /\ DigitsStart(s, t.first) \in Nat /\ t.after \in Nat
  /\ DigitsStart(s, t.first) <= t.after
  /\ AllDigits(s, DigitsStart(s, t.first), t.after)
  /\ t.num_value = SpelledOut(s, t.first, t.after, Limbs64)

NumInv ==
  /\ IsList
  /\ \A k \in DOMAIN toks :
       toks[k].type = "TOK_NUMBER" => NumberAt(source, toks[k])

\* A step adds at most one token, and a number only as it is spelled.
Numbers ==
  /\ source' = source
  /\ \/ toks' = toks
     \/ \E t : /\ toks' = Append(toks, t)
               /\ t.type = "TOK_NUMBER" => NumberAt(source, t)

LEMMA TokType ==
  ASSUME NEW type, NEW i, NEW j, NEW v, NEW bytes
  PROVE  /\ tok(type, i, j, v, bytes).type = type
         /\ tok(type, i, j, v, bytes).num_value = v
  BY DEF tok

LEMMA PushNumbers ==
  ASSUME NEW type, NEW j, push(type, j), type # "TOK_NUMBER", source' = source
  PROVE  Numbers
  BY TokType DEF push, Numbers

LEMMA LexNumberNumbers == Inside /\ lex_number => Numbers
<1> SUFFICES ASSUME Inside, lex_number PROVE Numbers
  OBVIOUS
<1> DEFINE d == digits_start(p)
           S == number_digits(p)
           Bad == \/ ch(number_start(p)) \notin digit
                  \/ ch(d) \notin S
           q == run_end(d, S)
           v == accumulated(d, q, number_base(p))
           w == IF number_sign(p) THEN Negate(v) ELSE v
           t == tok("TOK_NUMBER", p, q, w, <<>>)
<1>1. CASE Bad
  BY <1>1 DEF lex_number, set_error, Numbers
<1>2. CASE ~Bad
  <2>1. /\ ch(p) \in digit \cup {"-"}
        /\ toks' = Append(toks, t) /\ source' = source
    BY <1>2 DEF lex_number
  <2>2. ch(number_start(p)) \in digit
    BY <1>2
  <2>3. t.first = p /\ t.after = q /\ t.num_value = w
    BY TokFields, TokType
  <2>4. w = IF number_sign(p) THEN Negate(v) ELSE v
    OBVIOUS
  <2>5. v = accumulated(d, q, number_base(p))
    OBVIOUS
  <2> HIDE DEF d, Bad, v, w, t
  <2>6. d \in 1 .. Len(source) + 1
    BY <2>1, <2>2, NumberPrefix DEF Inside, d
  <2>7. NUL \notin S /\ newline \notin S /\ S \subseteq xdigit
    BY Letters DEF number_digits, xdigit
  <2> HIDE DEF S
  <2>8. q \in d .. Len(source) + 1 /\ \A k \in d .. q - 1 : At(source, k) \in S
    BY <2>6, <2>7, RunEnd DEF Inside
  <2> HIDE DEF q
  <2>9. d \in Nat /\ q \in Nat /\ d <= q
    BY <2>6, <2>8, LenText DEF Inside
  <2>10. AllDigits(source, d, q)
    BY <2>7, <2>8 DEF AllDigits
  <2>11. d = DigitsStart(source, p)
    BY NumberParts DEF d
  <2>12. v = Accumulated(source, DigitsStart(source, p), q, Base(source, p), Limbs64)
    BY <2>5, <2>11, NumberParts, AccumulatedOfState
  <2>13. w = SpelledOut(source, p, q, Limbs64)
    BY <2>4, <2>12, NumberParts DEF SpelledOut
  <2>14. NumberAt(source, t)
    BY <2>3, <2>9, <2>10, <2>11, <2>13 DEF NumberAt
  <2> QED
    BY <2>1, <2>14 DEF Numbers
<1> QED
  BY <1>1, <1>2

LEMMA EveryNumbers == Inside /\ LexNext => Numbers
<1> SUFFICES ASSUME Inside, LexNext PROVE Numbers
  OBVIOUS
<1>1. CASE skip_blank \/ skip_comment
  BY <1>1 DEF skip_blank, skip_comment, Numbers
<1>2. CASE lex_newline
  BY <1>2, PushNumbers DEF lex_newline
<1>3. CASE lex_punctuation
  <2>1. ch(p) \in separator /\ push(punctuation(ch(p)), p + 1) /\ source' = source
    BY <1>3 DEF lex_punctuation
  <2>2. punctuation(ch(p)) # "TOK_NUMBER"
    BY <2>1, Zenon DEF punctuation, separator
  <2> QED
    BY <2>1, <2>2, PushNumbers
<1>4. CASE lex_directive
  <2> DEFINE q == run_end(p + 1, alpha)
  <2>1. CASE q = p + 1
    BY <1>4, <2>1 DEF lex_directive, set_error, Numbers
  <2>2. CASE q # p + 1
    <3>1. push("TOK_DIRECTIVE", q) /\ source' = source
      BY <1>4, <2>2 DEF lex_directive
    <3> HIDE DEF q
    <3> QED
      BY <3>1, PushNumbers
  <2> QED
    BY <2>1, <2>2
<1>5. CASE lex_identifier
  <2> DEFINE q == run_end(p, alpha \cup digit \cup {"_"})
  <2>1. push("TOK_IDENT", q) /\ source' = source
    BY <1>5 DEF lex_identifier
  <2> HIDE DEF q
  <2> QED
    BY <2>1, PushNumbers
<1>6. CASE lex_number
  BY <1>6, LexNumberNumbers
<1>7. CASE lex_unexpected \/ string_fails
  BY <1>7 DEF lex_unexpected, string_fails, set_error, Numbers
<1>8. CASE lex_end
  BY <1>8, PushNumbers DEF lex_end
<1>9. CASE open_string
  BY <1>9 DEF open_string, Numbers
<1>10. CASE close_string
  <2> DEFINE t == tok("TOK_STRING", open, p + 1, Zero(Limbs64), buf)
  <2>1. toks' = Append(toks, t) /\ source' = source
    BY <1>10 DEF close_string
  <2>2. t.type = "TOK_STRING"
    BY TokType
  <2> HIDE DEF t
  <2> QED
    BY <2>1, <2>2 DEF Numbers
<1>11. CASE string_char \/ string_escape \/ string_hex
  <2>1. toks' = toks /\ source' = source
    BY <1>11 DEF string_char, string_escape, string_hex, store_byte
  <2> QED
    BY <2>1 DEF Numbers
<1> QED
  BY <1>1, <1>2, <1>3, <1>4, <1>5, <1>6, <1>7, <1>8, <1>9, <1>10, <1>11 DEF LexNext

LEMMA NumbersKeep ==
  ASSUME NumInv, Numbers
  PROVE  NumInv'
<1>1. PICK S : toks \in Seq(S)
  BY DEF NumInv, IsList
<1>2. CASE toks' = toks
  BY <1>2 DEF NumInv, Numbers, IsList
<1>3. CASE \E t : /\ toks' = Append(toks, t)
                  /\ t.type = "TOK_NUMBER" => NumberAt(source, t)
  <2>1. PICK t : /\ toks' = Append(toks, t)
                 /\ t.type = "TOK_NUMBER" => NumberAt(source, t)
    BY <1>3
  <2>2. /\ toks' \in Seq(S \cup {t})
        /\ DOMAIN toks' = 1 .. Len(toks) + 1 /\ toks'[Len(toks) + 1] = t
        /\ \A k \in 1 .. Len(toks) : toks'[k] = toks[k]
        /\ DOMAIN toks = 1 .. Len(toks) /\ Len(toks) \in Nat
    BY <1>1, <2>1, Appended
  <2>3. ASSUME NEW k \in 1 .. Len(toks) + 1, toks'[k].type = "TOK_NUMBER"
        PROVE  NumberAt(source, toks'[k])
    <3>1. CASE k = Len(toks) + 1
      BY <2>1, <2>2, <2>3, <3>1
    <3>2. CASE k # Len(toks) + 1
      <4>1. k \in 1 .. Len(toks)
        BY <2>2, <3>2
      <4> QED
        BY <2>2, <2>3, <4>1 DEF NumInv
    <3> QED
      BY <3>1, <3>2
  <2> QED
    BY <2>2, <2>3 DEF NumInv, Numbers, IsList
<1> QED
  BY <1>2, <1>3 DEF Numbers

\* What the four limbs of a number hold of the number spelled.
LEMMA NumberExact ==
  ASSUME NEW t, NumberAt(source, t)
  PROVE  Fits63(Magnitude(t)) => SignExtend(t.num_value, Wider) = Spelled(t)
<1> DEFINE s == source
           i == DigitsStart(s, t.first)
           j == t.after
           b == Base(s, t.first)
           m == Magnitude(t)
           a == Accumulated(s, i, j, b, Limbs64)
           neg == Sign(s, t.first)
<1>1. Wider \in Nat /\ Wider >= 4
  BY WiderAssumption DEF Limbs64
<1>2. i \in Nat /\ j \in Nat /\ i <= j /\ AllDigits(s, i, j)
  BY DEF NumberAt
<1>3. b \in Nat
  BY DEF Base
<1>4. m = Accumulated(s, i, j, b, Wider)
  BY MagnitudeOfState, NumberParts
<1>5. t.num_value = IF neg THEN Negate(a) ELSE a
  BY DEF NumberAt, SpelledOut
<1>6. Spelled(t) = IF neg THEN Negate(m) ELSE m
  BY NumberParts DEF Spelled
<1>7. Fits63(m) <=> /\ m[4] < 32768 /\ \A k \in 4 + 1 .. Len(m) : m[k] = 0
  BY DEF Fits63, Limbs64
<1> HIDE DEF s, i, j, b, m, a, neg
<1>8. m \in WideNum(Wider) /\ Low64(m) = a
  BY <1>1, <1>2, <1>3, <1>4, AccumulatedLow DEF a
<1>9. m \in WideNum(Wider)
  BY <1>8
<1>10. Negate(Low64(m)) = Low64(Negate(m))
  BY <1>1, <1>9, NegateLow
<1>11. t.num_value = Low64(Spelled(t))
  BY <1>5, <1>6, <1>8, <1>10
<1>12. ASSUME Fits63(m) PROVE SignExtend(t.num_value, Wider) = Spelled(t)
  <2>1. Len(m) = Wider
    BY <1>9 DEF WideNum
  <2>2. Small(m, Wider)
    BY <1>7, <1>12, <2>1 DEF Small
  <2>3. /\ SignExtend(Low64(m), Wider) = m
        /\ SignExtend(Low64(Negate(m)), Wider) = Negate(m)
    BY <1>1, <1>9, <2>2, SmallExact
  <2> QED
    BY <1>6, <1>11, <2>3
<1> QED
  BY <1>12 DEF m

\* In any text, a number literal that int64_t can hold has exactly the value
\* it spells (lexer.c: the loops over decimal and hexadecimal digits and the
\* sign).
THEOREM NumbersExact == LexSpec => []NumbersKeepTheirValue
<1>1. LexInit => NumInv
  <2> SUFFICES ASSUME LexInit PROVE NumInv
    OBVIOUS
  <2>1. toks = <<>>
    BY DEF LexInit
  <2>2. toks \in Seq({}) /\ DOMAIN toks = {}
    BY <2>1
  <2> QED
    BY <2>2 DEF NumInv, IsList
<1>2. NumInv /\ LexInv /\ [LexNext]_lexVars => NumInv'
  <2> SUFFICES ASSUME NumInv, LexInv, [LexNext]_lexVars PROVE NumInv'
    OBVIOUS
  <2>1. CASE LexNext
    <3>1. Inside
      BY InvParts
    <3> QED
      BY <2>1, <3>1, EveryNumbers, NumbersKeep
  <2>2. CASE UNCHANGED lexVars
    BY <2>2 DEF lexVars, NumInv, IsList
  <2> QED
    BY <2>1, <2>2
<1>3. NumInv => NumbersKeepTheirValue
  <2> SUFFICES ASSUME NumInv, NEW k \in DOMAIN toks, toks[k].type = "TOK_NUMBER"
               PROVE  LET t == toks[k]
                      IN  Fits63(Magnitude(t)) => SignExtend(t.num_value, Wider) = Spelled(t)
    BY DEF NumbersKeepTheirValue
  <2> DEFINE t == toks[k]
  <2>1. NumberAt(source, t)
    BY DEF NumInv
  <2> HIDE DEF t
  <2>2. Fits63(Magnitude(t)) => SignExtend(t.num_value, Wider) = Spelled(t)
    BY <2>1, NumberExact
  <2> QED
    BY <2>2 DEF t
<1> QED
  BY <1>1, <1>2, <1>3, LexerSafe, PTL DEF LexSpec
=============================================================================
