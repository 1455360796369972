------------------------------ MODULE Debugger ------------------------------
(***************************************************************************)
(* `bytevm debug` (main.c: cmd_debug, debugger.c): a session that loads an *)
(* image and executes the user's commands on the machine.  step and        *)
(* continue run several vm_step calls, one action each; every other        *)
(* command is one action.                                                  *)
(*                                                                         *)
(* An argument is the number the user typed, or NotANumber when it is      *)
(* missing or no number (a default is typed out).  What a command prints   *)
(* is abstracted to the outcome it tells, and the bytes a dump shows.      *)
(***************************************************************************)
EXTENDS Machine, FiniteSets

CONSTANTS
  Args,                        \* addresses the user types
  Counts,                      \* counts the user types
  CONTINUE_STEP_LIMIT,         \* 10000000 in debugger.c
  DEBUGGER_MAX_BREAKPOINTS     \* 64 in debugger.h

NotANumber == -1

ASSUME ArgsAssumption == Args \subseteq Int /\ Counts \subseteq Int
ASSUME LimitsAssumption ==
  /\ CONTINUE_STEP_LIMIT \in Nat \ {0}
  /\ DEBUGGER_MAX_BREAKPOINTS \in Nat \ {0}

VARIABLES
  activity,        \* "start", "prompt", "step", "continue" or "ended"
  breakpoints,     \* the array, as a sequence
  count,           \* how many vm_step calls the current step command wants
  stepped,         \* vm_step calls the current command has made
  report,          \* what the last command told the user
  passed,          \* history: PCs the current command executed after its
                   \*   first instruction
  boot             \* history: the machine as first loaded

local == <<count, stepped, passed>>
dbgVars == <<vars, activity, breakpoints, report, local, boot>>

\* struct VM.
machine == <<r, pc, sp, flags, mem, halted, last_error, error_pc, stack_limit>>

Line(kind) == [kind |-> kind, from |-> 0, bytes |-> 0]

\* A line that names an address.
LineAt(kind, addr) == [kind |-> kind, from |-> addr, bytes |-> 0]

DbgInit ==
  /\ Init
  /\ activity = "start"
  /\ breakpoints = <<>>
  /\ count = 0
  /\ stepped = 0
  /\ report = Line("none")
  /\ passed = {}
  /\ boot = <<>>

\* cmd_debug up to the first prompt: an image, vm_load, debugger_init, and
\* the line of report_stop.  No image or no memory, or a refused image,
\* ends the session.
start ==
  /\ activity = "start"
  /\ \/ /\ Load(image)
        /\ result' = "VM_OK"
        /\ activity' = "prompt"
        /\ report' = Line("stopped")
        /\ boot' = machine'
     \/ /\ \/ Load(image) /\ result' # "VM_OK"
           \/ UNCHANGED vars
        /\ activity' = "ended"
        /\ report' = Line("refused")
        /\ UNCHANGED boot
  /\ UNCHANGED <<breakpoints, local>>

-----------------------------------------------------------------------------
has_breakpoint(addr) == \E i \in DOMAIN breakpoints : breakpoints[i] = addr

\* parse_number accepts what fits in 16 bits.
parse_number(arg) == arg \in Word

\* A command that runs nothing prints a line and is over.
reply(line) ==
  /\ activity = "prompt"
  /\ report' = line
  /\ UNCHANGED <<activity, local, boot>>

\* A command that ran the machine is over: its variables are gone.
finish(line) ==
  /\ activity' = "prompt"
  /\ report' = Line(line)
  /\ count' = 0
  /\ stepped' = 0
  /\ passed' = {}
  /\ UNCHANGED <<vars, breakpoints, boot>>

\* report_stop: halted, or where execution stands.
report_stop == IF halted THEN "halted" ELSE "stopped"

\* Mutant: the steps are not counted.
command_step_uncounted ==
  /\ Step
  /\ UNCHANGED <<breakpoints, count, report, boot, stepped, passed>>

\* vm_step on behalf of the current command.
command_step ==
  /\ Step
  /\ stepped' = stepped + 1
  /\ passed' = IF stepped = 0 THEN {} ELSE passed \cup {pc}
  /\ UNCHANGED <<breakpoints, count, report, boot>>

\* step n: it runs n instructions or until the machine halts.
cmd_step(n) ==
  \/ /\ ~parse_number(n)
     /\ reply(Line("error"))
     /\ UNCHANGED <<vars, breakpoints>>
  \/ /\ parse_number(n)
     /\ activity = "prompt"
     /\ activity' = "step"
     /\ count' = n
     /\ UNCHANGED <<vars, breakpoints, report, stepped, passed, boot>>

step_loop ==
  /\ activity = "step"
  /\ stepped < count /\ ~halted
  /\ command_step
  /\ UNCHANGED activity

step_ends ==
  /\ activity = "step"
  /\ ~(stepped < count /\ ~halted)
  /\ finish(report_stop)

\* Mutant: the breakpoint at the PC is looked at before the first step.
cmd_continue_checks_first ==
  \/ /\ halted
     /\ reply(Line("halted"))
     /\ UNCHANGED <<vars, breakpoints>>
  \/ /\ ~halted /\ has_breakpoint(pc)
     /\ reply(Line("breakpoint"))
     /\ UNCHANGED <<vars, breakpoints>>
  \/ /\ ~halted /\ ~has_breakpoint(pc)
     /\ activity = "prompt"
     /\ activity' = "continue"
     /\ command_step

\* continue: the first instruction is executed whatever the breakpoints.
cmd_continue ==
  \/ /\ halted
     /\ reply(Line("halted"))
     /\ UNCHANGED <<vars, breakpoints>>
  \/ /\ ~halted
     /\ activity = "prompt"
     /\ activity' = "continue"
     /\ command_step

\* Mutant: the first breakpoint check comes one instruction late.
continue_loop_late ==
  /\ activity = "continue"
  /\ ~halted /\ stepped < CONTINUE_STEP_LIMIT
  /\ \/ /\ has_breakpoint(pc) /\ stepped > 1
        /\ finish("breakpoint")
     \/ /\ ~(has_breakpoint(pc) /\ stepped > 1)
        /\ command_step
        /\ UNCHANGED activity

continue_loop ==
  /\ activity = "continue"
  /\ ~halted /\ stepped < CONTINUE_STEP_LIMIT
  /\ \/ /\ has_breakpoint(pc)
        /\ finish("breakpoint")
     \/ /\ ~has_breakpoint(pc)
        /\ command_step
        /\ UNCHANGED activity

\* Mutant: the limit is looked at before the machine.
continue_ends_limit_first ==
  /\ activity = "continue"
  /\ ~(~halted /\ stepped < CONTINUE_STEP_LIMIT)
  /\ finish(IF stepped = CONTINUE_STEP_LIMIT THEN "step_limit" ELSE "halted")

continue_ends ==
  /\ activity = "continue"
  /\ ~(~halted /\ stepped < CONTINUE_STEP_LIMIT)
  /\ finish(IF halted THEN "halted" ELSE "step_limit")

-----------------------------------------------------------------------------
cmd_break(arg) ==
  /\ \/ /\ ~parse_number(arg)
        /\ reply(Line("error"))
        /\ UNCHANGED breakpoints
     \/ /\ parse_number(arg) /\ has_breakpoint(arg)
        /\ reply(LineAt("already_set", arg))
        /\ UNCHANGED breakpoints
     \/ /\ parse_number(arg) /\ ~has_breakpoint(arg)
        /\ Len(breakpoints) = DEBUGGER_MAX_BREAKPOINTS
        /\ reply(Line("too_many"))
        /\ UNCHANGED breakpoints
     \/ /\ parse_number(arg) /\ ~has_breakpoint(arg)
        /\ Len(breakpoints) # DEBUGGER_MAX_BREAKPOINTS
        /\ reply(LineAt("set", arg))
        /\ breakpoints' = Append(breakpoints, arg)
  /\ UNCHANGED vars

\* Mutant: the count shrinks but nothing moves into the gap.
without_moving(addr) == SubSeq(breakpoints, 1, Len(breakpoints) - 1)

\* The first match is overwritten by the last element.
without(addr) ==
  LET i == CHOOSE k \in DOMAIN breakpoints :
             /\ breakpoints[k] = addr
             /\ \A j \in 1 .. k - 1 : breakpoints[j] # addr
      n == Len(breakpoints)
  IN  SubSeq([breakpoints EXCEPT ![i] = breakpoints[n]], 1, n - 1)

cmd_delete(arg) ==
  /\ \/ /\ ~parse_number(arg)
        /\ reply(Line("error"))
        /\ UNCHANGED breakpoints
     \/ /\ parse_number(arg) /\ has_breakpoint(arg)
        /\ reply(LineAt("removed", arg))
        /\ breakpoints' = without(arg)
     \/ /\ parse_number(arg) /\ ~has_breakpoint(arg)
        /\ reply(LineAt("no_breakpoint", arg))
        /\ UNCHANGED breakpoints
  /\ UNCHANGED vars

\* reset loads the retained image again and keeps the breakpoints.
cmd_reset ==
  /\ Load(image)
  /\ reply(Line(IF result' = "VM_OK" THEN "reset" ELSE "error"))
  /\ UNCHANGED breakpoints

-----------------------------------------------------------------------------
\* Commands that only look.

\* registers, help, an unknown command and a blank line.
cmd_registers ==
  /\ reply(Line("registers"))
  /\ UNCHANGED <<vars, breakpoints>>

cmd_memory(addr, n) ==
  /\ reply(IF parse_number(addr) /\ parse_number(n) /\ n > 0
            THEN [kind |-> "memory", from |-> addr, bytes |-> n]
            ELSE Line("error"))
  /\ UNCHANGED <<vars, breakpoints>>

\* disassemble reads memory with disassemble_one, one instruction at a time.
cmd_disassemble(addr, n) ==
  /\ reply(IF parse_number(addr) /\ parse_number(n) /\ n > 0
            THEN Line("disassembly")
            ELSE Line("error"))
  /\ UNCHANGED <<vars, breakpoints>>

\* Mutant: the free slot is skipped but counted.
stack_dump_past_top ==
  [kind |-> "stack", from |-> (sp + 2) % 65536, bytes |-> 65535 - sp + 1]

\* From the word below the free slot to the top of memory.
stack_dump == [kind |-> "stack", from |-> (sp + 2) % 65536,
               bytes |-> 65535 - sp + 1 - 2]

cmd_stack ==
  /\ \/ sp = CPU_INITIAL_SP /\ reply(Line("stack_is_empty"))
     \/ sp # CPU_INITIAL_SP /\ reply(stack_dump)
  /\ UNCHANGED <<vars, breakpoints>>

\* quit, or the end of the input.
quit ==
  /\ activity = "prompt"
  /\ activity' = "ended"
  /\ UNCHANGED <<vars, breakpoints, report, local, boot>>

-----------------------------------------------------------------------------
\* What the debugger does next by itself, and what the user may type.
Running == start \/ step_loop \/ step_ends \/ continue_loop \/ continue_ends

debugger_execute ==
  \/ \E n \in Counts : cmd_step(n)
  \/ \E arg \in Args : cmd_break(arg) \/ cmd_delete(arg)
  \/ cmd_continue
  \/ cmd_reset
  \/ cmd_registers
  \/ \E addr \in Args, n \in Counts :
        cmd_memory(addr, n) \/ cmd_disassemble(addr, n)
  \/ cmd_stack

DbgNext == Running \/ debugger_execute \/ quit

\* A command the user has given runs to its end; the user may stop typing.
DbgSpec == DbgInit /\ [][DbgNext]_dbgVars /\ WF_dbgVars(Running)

-----------------------------------------------------------------------------
Breakpoints == {breakpoints[i] : i \in DOMAIN breakpoints}

\* `continue` never executes an instruction a breakpoint is set on, except
\* the one it starts from, and it never looks past one that it lands on
\* (DESIGN.md section 13; debugger.c: cmd_continue).
ContinueStopsAtBreakpoint ==
  activity = "continue" => passed \cap Breakpoints = {}

\* `continue` leaves the breakpoint it stands on: it answers with one only
\* after it has executed an instruction, so that a user stopped at a
\* breakpoint gets on with each `continue`, also in a loop that comes back
\* to the same one (DESIGN.md section 13; debugger.c: cmd_continue).
ContinueLeavesBreakpoint ==
  [][activity' = "prompt" /\ report'.kind = "breakpoint" => stepped > 0]_dbgVars

\* The reason a stop is reported with is true of the machine the user then
\* looks at, also when the last step that `continue` may take halts or
\* faults the program (debugger.c: cmd_continue, report_stop).
StopReasonIsTrue ==
  activity = "prompt" =>
    CASE report.kind = "breakpoint" -> ~halted /\ pc \in Breakpoints
      [] report.kind \in {"step_limit", "stopped"} -> ~halted
      [] report.kind = "halted" -> halted
      [] OTHER -> TRUE

\* DESIGN.md section 13 says the same of `step`.
StepStopsAtBreakpoint ==
  activity = "step" => passed \cap Breakpoints = {}

\* break and delete over the array with its swap-with-last removal
\* implement a set of addresses with a capacity; the session's other
\* commands, reset included, leave it alone (debugger.c: cmd_break,
\* cmd_delete, cmd_reset).
Set == INSTANCE BreakpointSet WITH
         set <- Breakpoints,
         answer <- report.kind,
         named <- report.from,
         Addresses <- Args,
         Capacity <- DEBUGGER_MAX_BREAKPOINTS
ImplementsSet == Set!Spec

\* reset reproduces the as-loaded machine exactly, whatever the program
\* did to its registers, its stack and its own code (loader.h, DESIGN.md
\* section 13; debugger.c: cmd_reset).
ResetReproducesBoot ==
  activity = "prompt" /\ report.kind = "reset" => machine = boot

\* A dump covers the words of a stack, up to the top of memory.
Shows(dump, words) ==
  /\ dump.bytes = 2 * Len(words)
  /\ dump.kind = "stack" => dump.from + dump.bytes = 65536

\* `stack` dumps the words pushed and not yet popped, all of them and
\* nothing else, up to the top of memory (debugger.c: cmd_stack).  It is
\* the code's reading of its command: DESIGN.md section 13 has the dump
\* start two bytes earlier, at the free slot SP, and the comment above the
\* code counts one byte more.
StackDumpIsLiveStack ==
  activity = "prompt" /\ report.kind \in {"stack", "stack_is_empty"} =>
    Shows(report, live_stack)

\* Every command comes back to the prompt, also when the program loops
\* forever (debugger.c: CONTINUE_STEP_LIMIT).
CommandsReturn ==
  (activity \in {"step", "continue"}) ~> (activity = "prompt")
=============================================================================
