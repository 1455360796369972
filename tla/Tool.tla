-------------------------------- MODULE Tool --------------------------------
(***************************************************************************)
(* `bytevm asm` and `bytevm dis` around the file system (main.c: read_file,*)
(* image_from_path, cmd_asm, cmd_dis), command after command on the same   *)
(* files.  A file holds a source, known by its name, or the bytes of an    *)
(* image; assemble() is the table Compile.  Faults are what the operating  *)
(* system may do to a command: fail to open or to read, read or write      *)
(* fewer bytes, fail to flush, kill the process.                           *)
(***************************************************************************)
EXTENDS Image

CONSTANTS
  Paths, AsmPaths,      \* all paths, and those that end in .asm
  InitialFiles,         \* Paths -> contents
  Compile,              \* source name |-> image, Rejected where it has errors
  Cuts,                 \* source name |-> the sources a short read makes of it
  Faults,               \* the faults that may happen
  MaxCommands           \* bound on the number of commands

Rejected == [size |-> 0, body |-> <<>>]

Absent == [kind |-> "absent", name |-> "none", img |-> Rejected]
SourceFile(s) == [kind |-> "source", name |-> s, img |-> Rejected]
ImageFile(i) == [kind |-> "image", name |-> "none", img |-> i]

\* What a path may hold: nothing, a source, or bytes read as an image.
IsContents(f) ==
  \/ f = Absent
  \/ \E s \in DOMAIN Compile : f = SourceFile(s)
  \/ f = ImageFile(f.img) /\ IsImage(f.img) /\ DOMAIN f.img = ImageFields

ASSUME ToolAssumption ==
  /\ AsmPaths \subseteq Paths
  /\ MaxCommands \in Nat
  /\ DOMAIN Cuts = DOMAIN Compile
  /\ \A s \in DOMAIN Cuts : Cuts[s] \subseteq DOMAIN Compile
  /\ \A s \in DOMAIN Compile :
        Compile[s] = Rejected \/ IsContents(ImageFile(Compile[s]))
  /\ InitialFiles = [q \in Paths |-> InitialFiles[q]]
  /\ \A q \in Paths : IsContents(InitialFiles[q])

\* The first k bytes of an image; its fields lie in the first sixteen.
Partial(i, k) ==
  [i EXCEPT !.size = k,
            !.body = SubSeq(@, 1, IF k < BVM_HEADER_SIZE THEN 0
                                  ELSE k - BVM_HEADER_SIZE)]

VARIABLES
  files,                \* Paths -> contents
  phase,                \* where the command is
  cmd, in_path, out_path,
  contents,             \* what it has in memory: the file, then the image
  short,                \* fwrite wrote fewer bytes than asked
  exit_code,            \* of the last command, -1 while it runs or if killed
  commands,             \* how many were started
  before,               \* history: the files when the command started
  lost                  \* history: the first bytes lost unnoticed, "input" that
                        \* fread did not deliver or "output" that fclose
                        \* did not write, or "nothing"

command == <<cmd, in_path, out_path, commands, before>>
toolVars == <<files, phase, command, contents, short, exit_code, lost>>

ToolInit ==
  /\ files = InitialFiles
  /\ phase = "idle"
  /\ cmd = "asm" /\ in_path \in Paths /\ out_path = in_path
  /\ contents = Absent /\ short = FALSE
  /\ exit_code = -1
  /\ commands = 0
  /\ before = files
  /\ lost = "nothing"

start(c, i, o) ==
  /\ phase = "idle" /\ commands < MaxCommands
  /\ phase' = "read"
  /\ cmd' = c /\ in_path' = i /\ out_path' = o
  /\ contents' = Absent /\ short' = FALSE
  /\ exit_code' = -1
  /\ commands' = commands + 1
  /\ before' = files
  /\ lost' = "nothing"
  /\ UNCHANGED files

exit(n) ==
  /\ phase' = "idle"
  /\ exit_code' = n
  /\ UNCHANGED <<command, contents, short>>

\* Mutant: the output is opened, and so emptied, before the source is read.
read_file_fails_late ==
  /\ phase = "read"
  /\ files[in_path].kind = "absent" \/ "read" \in Faults
  /\ files' = [files EXCEPT ![out_path] = Absent]
  /\ exit(1)
  /\ UNCHANGED lost

\* No such file, no seek, no size, no memory.
read_file_fails ==
  /\ phase = "read"
  /\ files[in_path].kind = "absent" \/ "read" \in Faults
  /\ exit(1)
  /\ UNCHANGED <<files, lost>>

\* What fread delivers; nobody compares it with the length.
delivered(f) ==
  {f} \cup
  IF "short_read" \notin Faults THEN {}
  ELSE CASE f.kind = "source" -> {SourceFile(s) : s \in Cuts[f.name]}
         [] f.kind = "image" ->
              {ImageFile(Partial(f.img, k)) : k \in 0 .. f.img.size - 1}
         [] OTHER -> {}

read_file ==
  /\ phase = "read" /\ files[in_path].kind # "absent"
  /\ contents' \in delivered(files[in_path])
  /\ lost' = IF contents' = files[in_path] THEN "nothing" ELSE "input"
  /\ phase' = "image"
  /\ UNCHANGED <<files, command, short, exit_code>>

compiles(f) == f.kind = "source" /\ Compile[f.name] # Rejected

\* image_from_path: a file that is not named .asm is an image already; an
\* image named .asm is no source.
image_from_path ==
  /\ phase = "image"
  /\ \/ /\ in_path \in AsmPaths /\ compiles(contents)
        /\ contents' = ImageFile(Compile[contents.name])
        /\ phase' = "made"
        /\ UNCHANGED <<command, short, exit_code>>
     \/ /\ in_path \in AsmPaths /\ ~compiles(contents)
        /\ exit(1)
     \/ /\ in_path \notin AsmPaths
        /\ phase' = "made"
        /\ UNCHANGED <<command, contents, short, exit_code>>
  /\ UNCHANGED <<files, lost>>

Emptied == ImageFile([size |-> 0, magic |-> FALSE, version |-> 0,
             reserved |-> 0, entry_point |-> 0, code_size |-> 0,
             code_addr |-> 0, data_size |-> 0, data_addr |-> 0, body |-> <<>>])

\* fopen(out_path, "wb") empties the file.
open_output ==
  /\ phase = "made" /\ cmd = "asm"
  /\ \/ /\ files' = [files EXCEPT ![out_path] = Emptied]
        /\ phase' = "write"
        /\ UNCHANGED <<command, contents, short, exit_code>>
     \/ /\ "open" \in Faults
        /\ exit(1)
        /\ UNCHANGED files
  /\ UNCHANGED lost

\* The contents of the output file once some, or all, of the bytes are out.
prefixes == IF contents.kind = "image"
            THEN {ImageFile(Partial(contents.img, k)) :
                    k \in 0 .. contents.img.size - 1}
            ELSE {Emptied}

\* fwrite: the bytes go to the stdio buffer, some perhaps to the file.
write_output ==
  /\ phase = "write"
  /\ short' \in {FALSE} \cup (IF "short_write" \in Faults THEN {TRUE} ELSE {})
  /\ phase' = "close"
  /\ UNCHANGED <<files, command, contents, exit_code, lost>>

\* What fclose may leave in the output file.
closed ==
  (IF short THEN {} ELSE {contents})
    \cup (IF short \/ "flush" \in Faults THEN prefixes ELSE {})

\* Mutant: a short write is not noticed.
close_output_unchecked ==
  /\ phase = "close"
  /\ \E f \in closed :
       /\ files' = [files EXCEPT ![out_path] = f]
       /\ lost' = IF lost = "nothing" /\ ~short /\ f # contents
                  THEN "output" ELSE lost
  /\ exit(0)

\* fclose: what is still buffered is written, and nobody looks whether that
\* worked; then the result of fwrite decides.
close_output ==
  /\ phase = "close"
  /\ \E f \in closed :
       /\ files' = [files EXCEPT ![out_path] = f]
       /\ lost' = IF lost = "nothing" /\ ~short /\ f # contents
                  THEN "output" ELSE lost
  /\ exit(IF short THEN 1 ELSE 0)

\* The process is killed while the output is open.
killed ==
  /\ "kill" \in Faults /\ phase \in {"write", "close"}
  /\ \E f \in prefixes \cup {contents} : files' = [files EXCEPT ![out_path] = f]
  /\ exit(-1)
  /\ UNCHANGED lost

\* The image is handed to disassemble() and its text goes to stdout.
D == INSTANCE Disassembler
       WITH given <- contents.img, dstage <- "check", dpc <- 0, text <- <<>>

print_text ==
  /\ phase = "made" /\ cmd = "dis"
  /\ exit(IF contents.kind = "image" /\ D!accepts_image THEN 0 ELSE 1)
  /\ UNCHANGED <<files, lost>>

ToolNext ==
  \/ \E i, o \in Paths : start("asm", i, o)
  \/ \E i \in Paths : start("dis", i, i)
  \/ read_file_fails \/ read_file \/ image_from_path
  \/ open_output \/ write_output \/ close_output \/ killed
  \/ print_text

ToolSpec == ToolInit /\ [][ToolNext]_toolVars

-----------------------------------------------------------------------------
\* What the command would make of its input were it read in full.
Wanted ==
  LET f == before[in_path]
  IN  IF in_path \notin AsmPaths THEN f
      ELSE IF compiles(f) THEN ImageFile(Compile[f.name]) ELSE Absent

\* DESIGN.md section 11.3: no partial .bvm is written on error.  A command
\* that exits with 1 because its input is missing or cannot be read or does
\* not assemble, or because its output cannot be opened, leaves all files as
\* they were, the output of an earlier asm included: of all errors only a
\* short write leaves a trace.  So does every dis, and an asm changes at
\* most its output (main.c: read_file, image_from_path, cmd_asm, cmd_dis).
ErrorsTouchNothing ==
  /\ cmd = "dis" \/ (exit_code = 1 /\ ~short) => files = before
  /\ \A q \in Paths \ {out_path} : files[q] = before[q]

\* asm exits with 0 only if the output file holds the whole image of the
\* input (main.c: the check of fwrite's result), or if bytes were lost in
\* one of the two calls whose result main.c does not look at.
ExitZeroMeansWritten ==
  phase = "idle" /\ cmd = "asm" /\ exit_code = 0 =>
    files[out_path] = Wanted \/ lost # "nothing"

\* All of an image's code and data are in the file, and vm_load makes of it
\* what it makes of another.
LoadsAs(i, j) ==
  /\ Len(i.body) >= i.code_size + i.data_size
  /\ i.entry_point = j.entry_point
  /\ limit_of(i) = limit_of(j)
  /\ loaded_memory(i) = loaded_memory(j)

\* Whatever happened to the output of asm, a kill, a short write and a
\* failed flush included, the file it leaves behind is the file that was
\* there, one that run and debug refuse (loader.c: the length check), or one
\* that loads as the whole image does: only bytes after the code and data,
\* which an image that was not assembled may have, can be missing from it.
PartialNeverLoads ==
  phase = "idle" /\ cmd = "asm" /\ Wanted # Absent /\ lost # "input" =>
    \/ files[out_path] \in {Wanted, before[out_path]}
    \/ ~header_ok(files[out_path].img)
    \/ LoadsAs(files[out_path].img, Wanted.img)
=============================================================================
