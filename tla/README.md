# A verification of ByteVM

TLA+ modules for ByteVM (a 16-bit virtual machine in C: CPU, memory, loader,
debugger, assembler, disassembler and command line), TLC models of small
instances, and TLAPS proofs of the properties that matter most for every
program. `src/...` below is the repository; `DESIGN.md` is `src/docs/DESIGN.md`.

## 1. The system

| Component | State it keeps | Operations | What makes it correct |
|---|---|---|---|
| CPU, memory (`cpu.c`, `memory.c`) | R0-R7, PC, SP, FLAGS; 64 KB | get/set flag, 8/16-bit read and write | little endian, every address wraps, every cell stays a byte |
| Decoder (`instruction.c`, `opcode.h`) | none | `instruction_decode` | illegal opcodes, modes and registers are refused and the PC is not moved |
| VM core (`vm.c`) | the above, `halted`, `last_error`, `error_pc`, `stack_limit` | `vm_init`, `vm_step`, 33 instructions | exact flags; the stack is a stack and never meets the program; a fault changes nothing and can be explained |
| READ_INT (`vm.c`) | stdin | `read_int_from_stdin` | decimal number modulo 65536 |
| Loader (`loader.c`) | none of its own | `vm_load` | all or nothing; the loaded machine depends on the file alone |
| CLI (`main.c`) | step counter; files | `run`, `asm`, `dis`, `debug` | `run` always returns, its exit status can be trusted; `asm` reports success only for a complete file and an error costs no file |
| Debugger (`debugger.c`) | breakpoint array, retained image | 11 commands | breakpoints stop `continue`, `reset` reproduces the boot, dumps show what is there |
| Lexer (`assembler/lexer.c`, `token.h`) | place and line in the source, token list | `lex` | stays inside the source, loses nothing, lines and values are right |
| Assembler (`assembler.c`, `assembler/parser.c`, `symtab.c`) | tokens, symbol table, section cursors, scratch buffers | `assemble` | both passes agree on addresses; the image holds the program and is one the loader accepts |
| Disassembler (`disassembler.c`) | none | `disassemble`, `disassemble_one` | re-assembling its output gives the same bytes |

Interaction. Everything is sequential and by calls. A *host* (the CLI's `run`
loop, a debugger command, a test) owns a `VM` and calls `vm_load` and `vm_step`
on it; `vm_step` calls the decoder on memory and one handler. The debugger
keeps the image and calls `vm_load` again for `reset`. In a session READ_INT
and the command loop read the same stdin. `assemble` runs lexer, pass one and
pass two over one source; `asm` writes its image to a file, `run` and `debug`
load it, `dis` turns it back into a source. They meet in the image format and
in the decoder's table of legal modes, which loader, assembler, disassembler
and VM each read in their own way.

What is hard here is not concurrency. It is long sequences of legal
instructions and commands (push, call, store and reload in any order), the
boundaries of 16-bit arithmetic (SP and addresses near 0xFFFF, a region that
ends at 0x10000, operands around 0x8000, shift counts of 16), state that must
not survive a fault or a reload, loops that must end at a limit, two passes and
two programs that must agree on every address and spelling, and an operating
system that may fail a command half way. The list,
each at its line, is under `hazards` in `PROJECT.json`.

## 2. Modules

```
Memory <- Instruction <- Alu <- VM <--- Loader <- Machine <- Cli
   ^          ^            ^              |        ^  <--- Debugger
   |          |         AluCheck          |  StackMachine   BreakpointSet
   +- Image <-+---------------------------+
        ^     |
        |     +- Assembler, Disassembler <- RoundTrip      Tokens
        +------- Tool                                      Wide <- Lexer, ReadInt
```

| Module | Models | Correspondence |
|---|---|---|
| `Memory` | `memory.c` | a memory is the function of its non-zero cells, so equal contents are equal values; `mem_*` return the new memory |
| `Instruction` | `opcode.h`, `instruction.c` | `op1_modes`/`op2_modes` are OPCODE_TABLE; `instruction_decode` returns result, opcode, operands and the PC after it |
| `Alu` | arithmetic of `exec_add` .. `exec_cmp`, the jump conditions, `cpu_*_flag` | FLAGS is the set of its set bits; words are naturals below 2^16 and every sum is reduced `% 65536` |
| `VM` | `vm.c` | one action `exec_X(i)` per handler, `vm_step` as halted / decode failure / execution; `result` is the return value |
| `Image` | the `.bvm` format as `loader.c` checks and copies it | a file is its length, header fields and body; `header_ok` are the checks, `loaded_memory` the two copies |
| `Loader` | `loader.c`: the effect on a VM | `load_accepted` is the whole change of the machine |
| `Machine` | a VM and its host | `Load` and `Step` in any order after the first accepted load; holds the properties of the machine |
| `StackMachine` | abstract: a bounded stack of words | implemented by `Machine` under `stack <- live_stack` |
| `Cli` | `main.c`: `cmd_run` | open, load, step until halted or MAX_STEPS, exit |
| `Debugger` | `main.c`: `cmd_debug`, `debugger.c` | one action per command; `step` and `continue` are loops of one `vm_step` per action |
| `Tool` | `main.c`: `read_file`, `image_from_path`, `cmd_asm`, `cmd_dis` | one action per library call that may fail; files live on between commands |
| `Tokens` | `token.h` | a token with the payload of its type |
| `Lexer` | `lexer.c` | one action per token, per character inside a string |
| `Assembler` | `parser.c`, `symtab.c`, `assembler.c` | one action per statement of pass one, per statement of pass two, one for the image |
| `Disassembler` | `disassembler.c` | header checks, one action per turn of the sweep, the data section; `disassemble_one` |
| `RoundTrip` | `asm`, `dis`, `asm` in a row | `HandOver` and `HandBack` pass the image and the text on |
| `ReadInt` | `vm.c`: `read_int_from_stdin` | one action per `getchar`, any number of calls on one input |
| `Wide` | 64-bit integers of lexer and READ_INT | sequences of 16-bit limbs, because TLC's integers have 32 bits |
| `BreakpointSet` | abstract: a set of addresses with a capacity, and the answers | implemented by `Debugger`'s array |
| `AluCheck` | nothing; walks over operand pairs | reference definitions of the arithmetic |
| `Files` | nothing; encodes small programs for the models | |
| `MC*` | TLC instances | |
| `CoreLemmas` | nothing; lemmas on memory, decoding, arithmetic, images, recursion and numbers of many limbs | |
| `MachineProofs`, `AluProofs`, `ReadIntProofs` | TLAPS proofs about `Machine`, `AluCheck`, `ReadInt` | |
| `HostProofs` | TLAPS proofs about `Cli` and `Debugger`, the hosts of the machine | |
| `SourceProofs` | TLAPS proofs about `Tool` and `Lexer` | |
| `ProgramProofs` <- `RoundTripProofs` | TLAPS proofs about `Assembler` and `Disassembler` in `RoundTrip`; that the round trip returns the image | |

Abstractions. The bitwise operators of C are operations on the set of one
bits. MUL's 32-bit product appears as its low half and `high_half`, because
TLC's integers are 32 bits wide and signed. C's xor-and-mask overflow formulas
are the comparisons of sign bits they compute. In `VM`, READ_INT obtains any
word of `InputWords`; `ReadInt` shows which word that is. What a program prints
is kept as the last item; what the debugger prints is the outcome told to the
user (and the extent of a dump). In `Cli` and `Debugger`, opening a file or
assembling it succeeds or fails in one step; `Tool` takes the same calls apart
and knows `assemble` as a table.

Between lexer and parser lies the token list: `Lexer` produces it from
characters, `Assembler` and `Disassembler` use it, with keywords in upper case
(the C code compares them without regard to case) and with integers, not
limbs, as numbers. The names a source may use are the constant `Names`. What `dis` prints is the list the lexer would make of it.
Messages, growing arrays and running out of memory are left out. A scratch
buffer of the assembler is a memory; a byte read from behind it is any byte of
`PastBuffer`, and a store behind it hits padding or a field that is set
afterwards (`parser.h`), which holds for the short statements of the models.
Signed overflow in the lexer wraps, as in the Makefile's `-O0` build.

History variables (`last_call`, `passed`, `boot`, `extent`, `starts`, `before`, `lost`)
record what a property needs and influence nothing.

Definitions named `..._late`, `..._unmasked` and so on, each with a comment
"Mutant", are plausible errors in the definition that follows them: replacing
it by the mutant must violate the property listed with it in `PROJECT.json`.

## 3. Runs

| Run | Instance | Shows |
|---|---|---|
| `machine` | all programs of 1 to 4 instructions from PUSH (immediate, register), POP, CALL, RET, JMP, STORE into the code, STORE across two stack slots, HALT, with code at 65496, so 3 to 11 words fit; programs ending at 0xFFFE, 0xFFFF and 0x10000; three operand pairs, each followed by every pair of instructions from a pool with all opcodes, all modes and every failure; reload at any time. Files with regions at the bottom, at the top and around each other, entry points at and outside both ends, short and long files, wrong fixed fields: any of them (`Swapped`) loaded over any other, accepted or refused, at any moment | `TypeOK`, `StackAboveProgram`, `FaultExplained`, `StepReturnsLastError`, `LoadedExactly`, `ProgramChangesOnlyByStore`, `ImplementsStack`, `PopDeliversTop` |
| `alu` | all pairs of 30 boundary operands, with flags clear and set | `CompareThenJump`, `AddSubExact`, `MulDivExact`, `LogicExact`, `ShiftsCompose` |
| `cli` | two instructions that halt, exit, fault, read, loop or fill the stack; MAX_STEPS = 3, which some programs reach exactly with their last step; two refused files | `ExitStatusTrusted`, `RunReturns` |
| `debugger` | a program that fills the stack, one that overwrites itself, one that spins, one refused; step limit 4, two breakpoints, five addresses and five counts including bad ones | `ContinueStopsAtBreakpoint`, `StopReasonIsTrue`, `ResetReproducesBoot`, `StackDumpIsLiveStack`, `ContinueLeavesBreakpoint`, `ImplementsSet`, `CommandsReturn` |
| `assembler` | all sources of up to three lines from a pool that covers every statement and operand form and every way a line can be wrong; every legal instruction form with and without data and gaps; sources that start just below the top of memory; images from elsewhere: all code of up to four of eight bytes at the bottom of memory and one byte below its top, data before, inside, next to and far from the code, refused images. What assembles is disassembled, and what disassembles is assembled again | `AsmTypeOK`, `StatementsInOrder`, `ImageLoads`, `ImageHoldsProgram`, `RoundTripExact`, `AssembledIsReproducible`, `SweepStaysInCode`, `DebuggerShowsSame`, `CallsAdvance` |
| `lexer` | all texts of up to four of ten characters, all string bodies of up to four of six characters, a small program, numbers at the ends of 16, 32 and 63 bits, spelled out in `Wider` = 6 limbs, and longer ones | `ReadsInsideSource`, `LinesAreRight`, `NothingIsLost`, `NumbersKeepTheirValue` |
| `read_int` | all inputs of up to five of six characters and numbers around 2^16, 2^32, 2^64 and 10^30, three calls | `ReadsInputExactly` |
| `tool` | two commands, on all pairs of four paths (equal ones too), one of them an image with bytes behind its code and data; failing open, read, write and flush, short reads, kill | `ErrorsTouchNothing`, `ExitZeroMeansWritten`, `PartialNeverLoads` |
| `debugger_step`, `assembler_overlap`, `roundtrip_top`, `lexer_range` | the instance of `debugger`; a few sources that reach the top of memory; a line with a literal of 65 bits | disagreements: see below |

Why the bounds are enough. The machine has no data structure that grows but
the stack; near the top of memory it is full after a few pushes, so every
boundary of the limit is reached by loops over four instructions. Guard bytes
at address 0 stop programs that run off the top. Decoding, faults and reloads
need one instruction to set up a condition and one to meet it. MAX_STEPS,
CONTINUE_STEP_LIMIT and DEBUGGER_MAX_BREAKPOINTS are compared and counted up
to, never computed with, so 3, 4 and 2 behave as 10000000 and 64 do. The
assembler's state between two lines is the counters, the labels and the
section: one line sets up a condition, a second meets it, a third refers to
either; .org puts the counters at the end of memory in one line. The lexer
looks at most three characters ahead. The longest instruction has six bytes,
but after four bytes of code the sweep has met each way a decode can end. In
`tool` the second command meets whatever the first left behind. The proofs
remove the bounds where they apply (section 4).

Deadlock is checked in `machine` and `alu`; in the other runs the process, the call or the input really ends.

Fairness. `CliSpec` assumes weak fairness of the process's own steps: a C loop
that is scheduled goes on, and the only call that may block is a read of stdin,
which the model completes. `DbgSpec` assumes it of the debugger's running
command only; the user need not type. `assemble` and `disassemble` are pure
loops over memory; that they return needs no fairness in the model, because
`CallsAdvance` exhibits a natural number that each of their steps brings down.

Four runs expect a violation, because the documentation and the code disagree:

- `debugger_step`: DESIGN.md section 13 says that `continue`/`step` stop at a
  breakpoint. `debugger.c:92` runs `step n` through it.
- `assembler_overlap`: DESIGN.md section 11.2 says that an `.org` back over
  bytes already emitted in its section is an error. The counter of
  `parser.c:495` wraps when a statement ends at 0x10000, and `parser.c:519`
  compares with what is left of it: `NOP`, `.org 0xFFFE`, `NOP`, `.org 0`,
  `HALT` assembles, with the HALT on the first NOP (`OrgKeepsClear`).
- `roundtrip_top`: `disassembler.h` promises that assembling the disassembly
  gives the image back. `disassembler.c:324` computes the end of code that
  reaches the top of memory as 0 and prints none of it.
- `lexer_range`: DESIGN.md section 11.4 says that a literal outside
  [-32768, 65535] is an error. `lexer.c:267` (and `:262` for hexadecimal)
  accumulates without a check and wraps, so the parser, which looks at the
  value, never hears of it: `MOV R0, 18446744073709551617` is `MOV R0, 1`
  (`OutOfRangeStaysOut`). `NumbersKeepTheirValue` promises the value only for
  literals that an `int64_t` can hold.

Also met while modelling; the models behave this way, but no run expects a
violation of it:

- DESIGN.md line 918 says that `stack` dumps memory from SP to 0xFFFF, and the
  comment at `debugger.c:208` counts 0xFFFF - SP live bytes. The code
  (`debugger.c:214`) leaves out the free slot at SP: it dumps from SP + 2, in
  all 0xFFFE - SP bytes. `StackDumpIsLiveStack` states what the code does,
  which is the stack of section 6 (SP is the next free slot), and so
  contradicts the letter of both texts.
- DESIGN.md section 10 rejects a file when the two half-open ranges overlap;
  `loader.c:44` also rejects an empty data range strictly inside the code.
- `parser.c:865` truncates the value of `.word` unchecked. DESIGN.md names a
  range for the immediates of instructions only (section 11.4);
  `ImageHoldsProgram` compares the stored word with the value modulo 2^16.
- An exit status of 1 need not be an error: a program that halts with R0 = 1
  exits with it too. `ExitStatusTrusted` says what each status can mean.
- `main.c:27` says that `read_file` reads a whole file; `main.c:56` takes
  whatever `fread` delivers for the whole. `main.c:166` ignores the result of
  `fclose`. `Tool` has both faults and records in `lost` when one of them went
  unnoticed; `ExitZeroMeansWritten` and `PartialNeverLoads` say what still
  holds then, and that nothing else makes exit status 0 untrue.

The passing runs state what holds around these: `Fits` (no counter ever lost a
bit) and `Describable` (code that fills all 64 KB has size 0 in the header) in
`Assembler`, `Reproducible` (code ends below the top, data behind it, nothing
the language cannot express) in `RoundTrip`.

## 4. Proofs

TLAPS checks these theorems for every set of images, sources, files and texts,
every input and every limit. The assumptions are the ASSUMEs of the modules:
images are well-formed files, each a record of its length, header fields and
body, and those in `Swapped` are among them; inputs are words, limits are positive; a source
of the assembler is a list of tokens that ends with TOK_EOF, as the lexer
makes them; a text is a C string, so no character of it is the NUL; no
character of an input is EOF; the width `Wider` in which a literal is spelled
out is at least 64 bits; what a file system holds is nothing, a source or the
bytes of an image.

| Theorem | Module | Statement |
|---|---|---|
| `TypeCorrect` | `MachineProofs` | `Spec => []TypeOK` |
| `StackSafe` | `MachineProofs` | `Spec => []StackAboveProgram` |
| `ProgramSafe` | `MachineProofs` | `Spec => ProgramChangesOnlyByStore` |
| `StepResult` | `MachineProofs` | `Spec => []StepReturnsLastError` |
| `FaultsExplained` | `MachineProofs` | `Spec => []FaultExplained` |
| `LoadExact` | `MachineProofs` | `Spec => []LoadedExactly` |
| `PopsDeliver` | `MachineProofs` | `Spec => PopDeliversTop` |
| `MachineImplementsStack` | `MachineProofs` | `Spec => ImplementsStack`: the machine implements `StackMachine` |
| `CompareThenJumpCorrect`, `AddSubCorrect`, `MulDivCorrect`, `LogicCorrect`, `ShiftsCorrect` | `AluProofs` | the five properties of `AluCheck`, for all words and flags |
| `CliImplementsMachine`, `ExitStatusCorrect` | `HostProofs` | `CliSpec => Spec`, and the exit status |
| `DebuggerImplementsMachine`, `ContinueCorrect`, `ContinueMovesOn`, `StackDumpCorrect`, `ResetCorrect`, `StopReasons` | `HostProofs` | `DbgSpec => Spec`, and five properties of sessions |
| `DebuggerImplementsSet` | `HostProofs` | `DbgSpec => ImplementsSet`: the array implements `BreakpointSet` |
| `ErrorsKeepFiles`, `ExitIsHonest`, `PartialsRefused` | `SourceProofs` | `ErrorsTouchNothing`, `ExitZeroMeansWritten`, `PartialNeverLoads` |
| `ReadsInside`, `LinesCorrect`, `LosesNothing`, `NumbersExact` | `SourceProofs` | `ReadsInsideSource`, `LinesAreRight`, `NothingIsLost`, `NumbersKeepTheirValue` |
| `ReadIntExact` | `ReadIntProofs` | `ReadsInputExactly` |
| `AssemblerTyped`, `LayoutInOrder`, `AssembledLoads`, `ProgramExact` | `ProgramProofs` | `AsmTypeOK`, `StatementsInOrder`, `ImageLoads`, `ImageHoldsProgram` |
| `SweepBounded`, `DebuggerAgrees`, `CallsReturn`, `AssembledReproducible` | `ProgramProofs` | `SweepStaysInCode`, `DebuggerShowsSame`, `CallsAdvance`, `AssembledIsReproducible` |
| `RoundTripReturns` | `RoundTripProofs` | `RoundTripExact`: assembling the disassembly gives the image back |

The argument. `StackAboveProgram` is not inductive: that a push stays above the
program follows from `stack_limit`, which nothing in the property mentions.
`IInv` adds the missing parts: `VmType` and `HostType` (types); `StackInv` (SP
is even, and at or above the limit unless the stack is empty); `LimitInv` (once
an image is accepted, it passes the checks and the limit is its `limit_of`);
and `ErrorInv` (a machine that still runs has no error recorded).
`FaultExplained` and `StepReturnsLastError` are proved inductive relative to
it: a step of a running machine records an error together with the state that
explains it, and a halted machine keeps both. `ExecuteType` has one step per
handler for the types; `SpFrame` and `FaultOrSucceed` say what a handler may do
to SP and to the error record, which is all the other parts need. `CoreLemmas`
holds the facts about memory, decoding and arithmetic they rest on. Because
`run` and `debug` are shown to implement `Machine`'s specification, `IInv` and
every theorem about the machine hold of them, and `HostProofs` uses it.

The two refinements. Under `stack <- live_stack` a PUSH or CALL is a push, a
POP or RET a pop, a load a clear; every other handler, STORE included, leaves
the abstract stack alone or overwrites one or two words of it, and the read-after-write
lemmas of `CoreLemmas` say which. The capacity of the abstract stack is what
the image leaves above itself. For the breakpoints `ArrayInv` adds what the
mapping forgets: the array holds no address twice and never more than its
capacity, so that removing one element removes one address.

Arithmetic. MUL's result is the product modulo 2^16 whichever of signed and
unsigned is meant (`LowHalf`), also when both flags are set. Its flags rest on `HighHalf` (the byte-wise upper half is the
quotient of the product by 2^16) and `TooLarge` (which is non-zero exactly if
one factor exceeds 65535 divided by the other); the shifts on `ShiftedOut` (the
bit lost by a shift by n is the top bit after a shift by n - 1); the bitwise
operations on `BitsRoundTrip` (a word is the sum of the weights of its bits),
`LinearSum` and `OtherBits`.

Files. `ToolInv` joins the three properties to `FilesInv` (contents are well
formed) and `CommandInv`: what a command holds in memory is its input or what
it wants to write, unless a read lost bytes, and no file changes before the
output is opened. From then on only a short write makes the exit status 1
(`OutputEnds`), so every other error comes from `GivesUp`, which finds the
files as they were.

Lexer. `EveryShape` shows that each step skips blanks, takes a token, ends a
line, reads inside a string literal, finishes or fails, and that none but
`lex_newline` passes a newline or anything the NUL. `RunEnd` and `CommentEnd`
show that the scanning loops end inside the source (its NUL is in the set they
stop at, and a set of naturals has a least element). `LexInv` adds to the
properties what lies between the last token and the current place.

Loops over digits. The lexer and READ_INT compute a number digit by digit, and
both properties compare it with one spelled out by a recursive function. Two
lemmas of `CoreLemmas` replace induction over an operator, which the provers
cannot instantiate: `IntervalInduction` has a set as its parameter and rests on
the least element of its complement, and `Recursion` shows that a recursive
function over an interval satisfies its equation. `MulAddSum` names the carries
of a multiplication in limbs; from them `MulAddLow` and `NegateLow` follow
(the low 64 bits of a result depend on the low 64 bits of the operands only) and
`SmallExact` (a number below 2^63 and its negative survive sign extension).
`NumInv` says of every number token which digits it spells; `AccumulatedLow`
compares the four limbs of the code with the `Wider` ones of the property digit
by digit. For READ_INT, `ReadInv` follows a call from the place where it found
the input: white space up to the current character, then a sign and digits
whose value modulo 2^16 is the low limb; `NextPlace` shows that reading one more
digit multiplies by ten and adds, and `Answered` keeps what earlier calls
returned and where they stopped.

Assembler and disassembler. `RTInv` is the conjunction of `AsmShape` (types of
the parser's state and of the statements), `Layout` (while the program fits,
the counters of both sections are where their last statement ended, every
statement lies below the counter, data starts behind code), `ImageMade` (the
image is the one `make_image` builds) and `DisShape` (the sweep runs on an
accepted image and its PC is in the code). `ImageHoldsProgram` is about both
passes and needs `ProgramInv`, which adds `Labels` (a label's address is in the
symbol table and is that of the next statement that occupies memory) and
`Buffers` (after k statements of pass two, the scratch buffers hold exactly the
bytes of the first k at the addresses pass one gave them; an address is written
once, because the layout is in order).

Round trip. `RoundTripExact` compares the image at the end with the one given,
two programs later; `ReturnInv` says what holds in between, in three parts.

1. `Printed`: the text is a path. A configuration is a place in the text, an
   active section and its counter; each line dis prints (a newline, a section
   header, an `.org`, an instruction, a `.byte`) leads
   from one to the next, and the whole text from the first line to the end of
   the image (`Path`). The steps of the sweep extend the path by a line
   (`SweepPrinted`), the data region by a block of lines (`PathBlock`). It is a
   set of configurations, not a sequence, so that no induction over the text is
   needed.
2. `OnPath`: the parser follows it. At each kind of line exactly one statement
   of the parser applies (`AtDirective`, `AtInstruction`, ...), and it does not
   fail. The centre is `InstructionReadBack`: the spelling of an operand
   (`OperandPrinted`) is parsed as that operand, and the mode the assembler
   infers from the brackets and the opcode is the one decoded
   (`ModeReadBack`), for all 33 opcodes and all modes.
3. `Tracked`: what has been placed so far is the image. The bytes of every
   statement are the image's at its address (`AllRight`; `InstructionWritten`:
   an instruction encodes to the bytes it was decoded from), and the
   statements of a section cover it up to its counter (`Covered`).

At the end of the path the statements cover both regions, pass two leaves their
bytes in the buffers (`BufferByte`, from `Buffers` above), and the image made
of those has the same header and the same body (`SameSections`, `SameBytes`,
`ImageReturns`).

Only model-checked: `RunReturns` and `CommandsReturn`, because liveness under
fairness is out of the prover's reach. Every other property of a passing run is
a theorem.

## 5. Not modelled

Message texts, the names in `vm_result_str` and `instruction_opcode_name`, the
usage text and the dispatch on `argv`. Running out of memory and the growing of
arrays (`tokenlist_push`, `statement_list_push`, `symtab_define`, `Out`).
Parsing of the debugger's command lines beyond the outcome of `parse_number`.
READ_INT sharing standard input with the debugger's command loop: the program
then reads what the user types as commands, and no document says what should
happen. Tests and examples are not part of the program.

## 6. Plan

Done: memory, decoder, arithmetic, VM core, loader, machine, abstract stack;
command line; debugger and abstract breakpoint set; READ_INT; lexer, assembler,
disassembler and their round trip; `asm`, `dis` and the file system; the
machine's invariant and the theorems above, the round trip and the numbers of
lexer and READ_INT among them. What is left:

1. A natural number that each step of `run` and of a debugger command brings
   down, as `CallsAdvance` does for `assemble` and `disassemble`: the part of
   `RunReturns` and `CommandsReturn` that could be proved.
2. The session as a whole: READ_INT reading from the standard input of the
   debugger's command loop (section 5).
