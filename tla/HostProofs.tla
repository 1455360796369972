----------------------------- MODULE HostProofs -----------------------------
(***************************************************************************)
(* The two programs that drive the machine, `bytevm run` and the debugger, *)
(* do so only as Machine.tla allows.  The exit status of the one can be    *)
(* trusted; in the other `continue` respects every breakpoint, `reset`     *)
(* restores the loaded machine and `stack` shows the stack: for every      *)
(* image, session and set of limits.                                       *)
(***************************************************************************)
EXTENDS Cli, Debugger, MachineProofs, FiniteSetTheorems

-----------------------------------------------------------------------------
\* `bytevm run`.

\* The machine is untouched before the load; while the program runs, the
\* last call returned what the machine records; the status, once chosen,
\* says so.
CliInv ==
  /\ phase \in {"open", "load", "run", "exited"}
  /\ phase \in {"open", "load"} => ~booted /\ ~halted
  /\ phase = "run" => booted /\ result = last_error
  /\ ExitStatusTrusted

\* Every step of cmd_run that calls the machine is a step of Machine.
LEMMA CliStepIsMachineStep ==
  ASSUME IInv, [CliNext]_cliVars
  PROVE  [Next]_vars
<1>1. image \in Offered
  BY DEF IInv, HostType, Offered
<1>2. CASE load_image
  BY <1>1, <1>2 DEF load_image, Next
<1>3. CASE run_step
  BY <1>3 DEF run_step, Next
<1>4. CASE open_fails \/ open_image \/ run_ends
  BY <1>4 DEF open_fails, open_image, run_ends
<1>5. CASE UNCHANGED cliVars
  BY <1>5 DEF cliVars
<1> QED
  BY <1>2, <1>3, <1>4, <1>5 DEF CliNext

\* `bytevm run` implements the machine's specification (main.c: cmd_run).
THEOREM CliImplementsMachine == CliSpec => Spec
<1>1. CliInit => Init
  BY DEF CliInit
<1>2. Init => IInv
  BY InitInv
<1>3. IInv /\ [CliNext]_cliVars => IInv'
  BY CliStepIsMachineStep, NextInv
<1>4. IInv /\ [CliNext]_cliVars => [Next]_vars
  BY CliStepIsMachineStep
<1> QED
  BY <1>1, <1>2, <1>3, <1>4, PTL DEF CliSpec, Spec

\* The exit status distinguishes a program that halted by itself from every
\* fault, refused file and exhausted step limit (main.c: cmd_run).
THEOREM ExitStatusCorrect == CliSpec => []ExitStatusTrusted
<1>1. CliInit => CliInv
  BY Zenon DEF CliInit, Init, vm_init, CliInv, ExitStatusTrusted
<1>2. IInv /\ CliInv /\ [CliNext]_cliVars => CliInv'
  <2> SUFFICES ASSUME IInv, CliInv, [CliNext]_cliVars
               PROVE  CliInv'
    OBVIOUS
  <2>1. CASE open_fails
    BY <2>1 DEF open_fails, CliInv, ExitStatusTrusted, vars
  <2>2. CASE open_image
    BY <2>2 DEF open_image, CliInv, ExitStatusTrusted, vars
  <2>3. CASE load_image
    <3>1. CASE load_accepted(image)
      <4>1. booted' /\ result' = "VM_OK" /\ last_error' = "VM_OK"
        BY <2>3, <3>1 DEF load_image, Load, load_accepted
      <4>2. phase' = "run"
        BY <2>3, <4>1 DEF load_image
      <4> QED
        BY <4>1, <4>2 DEF CliInv, ExitStatusTrusted
    <3>2. CASE load_rejected(image)
      <4>1. /\ result' = "VM_ERR_BAD_BYTECODE_HEADER" /\ halted' = halted
            /\ ~header_ok(image)
        BY <3>2 DEF load_rejected, vm
      <4>2. ~booted /\ ~booted'
        BY <2>3, <4>1 DEF load_image, Load, CliInv
      <4>3. phase' = "exited" /\ exit_code' = 1
        BY <2>3, <4>1 DEF load_image
      <4> QED
        BY <4>2, <4>3 DEF CliInv, ExitStatusTrusted
    <3> QED
      BY <2>3, <3>1, <3>2 DEF load_image, Load, vm_load
  <2>4. CASE run_step
    <3>1. result' = last_error' /\ booted'
      BY <2>4, StepInv DEF run_step, Step, IInv
    <3>2. phase' = "run"
      BY <2>4 DEF run_step
    <3> QED
      BY <3>1, <3>2 DEF CliInv, ExitStatusTrusted
  <2>5. CASE run_ends
    <3>1. /\ booted' = booted /\ halted' = halted /\ result' = result
          /\ last_error' = last_error /\ r' = r /\ phase' = "exited"
      BY <2>5 DEF run_ends, vars
    <3>2. booted /\ result = last_error
      BY <2>5 DEF run_ends, CliInv
    <3>3. exit_code' = IF last_error # "VM_OK" \/ ~halted THEN 1
                                                          ELSE r[0] % 256
      BY <2>5 DEF run_ends
    <3>4. ExitStatusTrusted'
      BY <3>1, <3>2, <3>3 DEF ExitStatusTrusted
    <3> QED
      BY <3>1, <3>4 DEF CliInv
  <2>6. CASE UNCHANGED cliVars
    BY <2>6 DEF cliVars, vars, run, CliInv, ExitStatusTrusted
  <2> QED
    BY <2>1, <2>2, <2>3, <2>4, <2>5, <2>6 DEF CliNext
<1>3. CliInv => ExitStatusTrusted
  BY DEF CliInv
<1> QED
  BY <1>1, <1>2, <1>3, CliImplementsMachine, Invariant, PTL DEF CliSpec
-----------------------------------------------------------------------------
\* The debugger.

\* The machine an image boots into.
BootOf(img) ==
  <<[x \in Register |-> 0], img.entry_point, CPU_INITIAL_SP, {},
    loaded_memory(img), FALSE, "VM_OK", 0, limit_of(img)>>

\* A command finds its counters clear.
PromptInv == activity \in {"start", "prompt"} => stepped = 0 /\ passed = {}

\* A session goes on only with an image that was accepted.
BootInv ==
  activity \notin {"start", "ended"} =>
    header_ok(image) /\ boot = BootOf(image)

\* `stack` only looks.
LEMMA StackFrame ==
  ASSUME cmd_stack
  PROVE  /\ activity = "prompt" /\ activity' = activity
         /\ UNCHANGED <<vars, breakpoints, boot, count, stepped, passed>>
         /\ \/ sp = CPU_INITIAL_SP /\ report' = Line("stack_is_empty")
            \/ sp # CPU_INITIAL_SP /\ report' = stack_dump
  BY DEF cmd_stack, reply, local

\* The kind of the last line printed.
Kind == report.kind

LEMMA StackKind == cmd_stack => Kind' # "reset"
<1> SUFFICES ASSUME cmd_stack PROVE Kind' # "reset"
  OBVIOUS
<1>1. CASE report' = Line("stack_is_empty")
  BY <1>1 DEF Kind, Line
<1>2. CASE report' = stack_dump
  BY <1>2 DEF Kind, stack_dump
<1> QED
  BY <1>1, <1>2, StackFrame

\* The commands that run or only look leave the machine to vm_step.
LEMMA DbgStepIsMachineStep ==
  ASSUME IInv, [DbgNext]_dbgVars
  PROVE  [Next]_vars
<1>1. image \in Offered
  BY DEF IInv, HostType, Offered
<1>2. CASE Load(image)
  BY <1>1, <1>2 DEF Next
<1>3. CASE Step
  BY <1>3 DEF Next
<1>4. \/ Load(image) \/ Step \/ UNCHANGED vars
  <2>1. CASE Running
    BY <2>1 DEF Running, start, step_loop, step_ends, continue_loop,
                continue_ends, finish, command_step
  <2>2. CASE debugger_execute
    <3>1. CASE \E n \in Counts : cmd_step(n)
      BY <3>1 DEF cmd_step
    <3>2. CASE \E arg \in Args : cmd_break(arg) \/ cmd_delete(arg)
      BY <3>2 DEF cmd_break, cmd_delete
    <3>3. CASE \E addr \in Args, n \in Counts :
                 cmd_memory(addr, n) \/ cmd_disassemble(addr, n)
      BY <3>3 DEF cmd_memory, cmd_disassemble
    <3>4. CASE cmd_registers \/ cmd_stack
      BY <3>4, StackFrame DEF cmd_registers
    <3>5. CASE cmd_continue
      BY <3>5 DEF cmd_continue, command_step
    <3>6. CASE cmd_reset
      BY <3>6 DEF cmd_reset
    <3> QED
      BY <2>2, <3>1, <3>2, <3>3, <3>4, <3>5, <3>6 DEF debugger_execute
  <2>3. CASE quit
    BY <2>3 DEF quit
  <2>4. CASE UNCHANGED dbgVars
    BY <2>4 DEF dbgVars
  <2> QED
    BY <2>1, <2>2, <2>3, <2>4 DEF DbgNext
<1> QED
  BY <1>2, <1>3, <1>4

\* A debugger session implements the machine's specification
\* (debugger.c: every command).
THEOREM DebuggerImplementsMachine == DbgSpec => Spec
<1>1. DbgInit => Init
  BY DEF DbgInit
<1>2. Init => IInv
  BY InitInv
<1>3. IInv /\ [DbgNext]_dbgVars => IInv'
  BY DbgStepIsMachineStep, NextInv
<1>4. IInv /\ [DbgNext]_dbgVars => [Next]_vars
  BY DbgStepIsMachineStep
<1> QED
  BY <1>1, <1>2, <1>3, <1>4, PTL DEF DbgSpec, Spec

-----------------------------------------------------------------------------
\* `continue` never executes an instruction a breakpoint is set on, except
\* the one it starts from (debugger.c: cmd_continue).
THEOREM ContinueCorrect == DbgSpec => []ContinueStopsAtBreakpoint
<1> DEFINE I == PromptInv /\ ContinueStopsAtBreakpoint
<1>1. DbgInit => I
  BY DEF DbgInit, PromptInv, ContinueStopsAtBreakpoint
<1>2. I /\ [DbgNext]_dbgVars => I'
  <2> SUFFICES ASSUME I, [DbgNext]_dbgVars PROVE I'
    OBVIOUS
  <2>1. ASSUME activity' = activity, UNCHANGED <<stepped, passed, breakpoints>>
        PROVE  I'
    BY <2>1 DEF PromptInv, ContinueStopsAtBreakpoint, Breakpoints
  <2>2. ASSUME activity = "prompt", activity' = activity,
               UNCHANGED <<stepped, passed>>
        PROVE  I'
    BY <2>2 DEF PromptInv, ContinueStopsAtBreakpoint
  <2>3. ASSUME NEW line, finish(line)
        PROVE  I'
    BY <2>3 DEF finish, PromptInv, ContinueStopsAtBreakpoint
  <2>4. CASE start
    BY <2>4 DEF start, local, PromptInv, ContinueStopsAtBreakpoint
  <2>5. CASE step_loop
    BY <2>5 DEF step_loop, PromptInv, ContinueStopsAtBreakpoint
  <2>6. CASE continue_loop
    <3>1. CASE ~has_breakpoint(pc) /\ command_step /\ UNCHANGED activity
      <4>1. activity = "continue" /\ passed \cap Breakpoints = {}
        BY <2>6 DEF continue_loop, ContinueStopsAtBreakpoint
      <4>2. pc \notin Breakpoints
        BY <3>1 DEF has_breakpoint, Breakpoints
      <4>3. passed' \subseteq passed \cup {pc} /\ Breakpoints' = Breakpoints
        BY <3>1 DEF command_step, Breakpoints
      <4> QED
        BY <3>1, <4>1, <4>2, <4>3 DEF PromptInv, ContinueStopsAtBreakpoint
    <3> QED
      BY <2>3, <2>6, <3>1 DEF continue_loop
  <2>7. CASE step_ends \/ continue_ends
    BY <2>3, <2>7 DEF step_ends, continue_ends
  <2>8. CASE \E n \in Counts : cmd_step(n)
    <3>1. CASE reply(Line("error"))
      BY <2>2, <3>1 DEF reply, local
    <3>2. CASE activity' = "step"
      BY <3>2 DEF PromptInv, ContinueStopsAtBreakpoint
    <3> QED
      BY <2>8, <3>1, <3>2 DEF cmd_step
  <2>9. CASE cmd_continue
    <3>1. CASE activity = "prompt" /\ activity' = "continue" /\ command_step
      <4>1. stepped = 0
        BY <3>1 DEF PromptInv
      <4>2. passed' = {}
        BY <3>1, <4>1 DEF command_step
      <4> QED
        BY <3>1, <4>2 DEF PromptInv, ContinueStopsAtBreakpoint
    <3>2. CASE reply(Line("halted")) /\ UNCHANGED <<vars, breakpoints>>
      BY <2>2, <3>2 DEF reply, local
    <3> QED
      BY <2>9, <3>1, <3>2 DEF cmd_continue
  <2>10. CASE \E arg \in Args : cmd_break(arg) \/ cmd_delete(arg)
    BY <2>2, <2>10 DEF cmd_break, cmd_delete, reply, local
  <2>11. CASE \E addr \in Args, n \in Counts :
                cmd_memory(addr, n) \/ cmd_disassemble(addr, n)
    BY <2>2, <2>11 DEF cmd_memory, cmd_disassemble, reply, local
  <2>12. CASE cmd_reset \/ cmd_registers
    BY <2>2, <2>12 DEF cmd_reset, cmd_registers, reply, local
  <2>13. CASE cmd_stack
    BY <2>2, <2>13, StackFrame
  <2>14. CASE quit
    BY <2>14 DEF quit, local, PromptInv, ContinueStopsAtBreakpoint
  <2>15. CASE UNCHANGED dbgVars
    BY <2>1, <2>15 DEF dbgVars, local
  <2>16. CASE Running
    BY <2>4, <2>5, <2>6, <2>7, <2>16 DEF Running
  <2>17. CASE debugger_execute
    BY <2>8, <2>9, <2>10, <2>11, <2>12, <2>13, <2>17 DEF debugger_execute
  <2> QED
    BY <2>14, <2>15, <2>16, <2>17 DEF DbgNext
<1> QED
  BY <1>1, <1>2, PTL DEF DbgSpec

-----------------------------------------------------------------------------
\* What a session does between two states at the prompt: it leaves the
\* machine alone, or resets it, or comes back from a command that ran it.
LEMMA PromptSteps ==
  ASSUME [DbgNext]_dbgVars, activity' = "prompt"
  PROVE  \/ activity = "prompt" /\ UNCHANGED <<vars, report, boot>>
         \/ /\ UNCHANGED <<vars, boot>>
            /\ Kind' \notin {"reset", "stack", "stack_is_empty"}
         \/ activity = "prompt" /\ cmd_stack
         \/ activity = "prompt" /\ cmd_reset
         \/ activity = "start" /\ start
<1> DEFINE Quiet == /\ UNCHANGED <<vars, boot>>
                    /\ Kind' \notin {"reset", "stack", "stack_is_empty"}
<1>1. ASSUME NEW k, finish(k),
             k \in {"halted", "stopped", "breakpoint", "step_limit"}
      PROVE  Quiet
  BY <1>1 DEF finish, Line, Kind
<1>2. ASSUME NEW k, reply(k), UNCHANGED vars,
             k.kind \notin {"reset", "stack", "stack_is_empty"}
      PROVE  Quiet
  BY <1>2 DEF reply, Kind
<1> HIDE DEF Quiet
<1>3. CASE Running
  <2>1. CASE start
    BY <2>1 DEF start
  <2>2. CASE step_loop
    BY <2>2 DEF step_loop
  <2>3. CASE step_ends
    BY <1>1, <2>3 DEF step_ends, report_stop, Quiet
  <2>4. CASE continue_loop
    <3>1. CASE UNCHANGED activity
      BY <2>4, <3>1 DEF continue_loop
    <3> QED
      BY <1>1, <2>4, <3>1 DEF continue_loop, Quiet
  <2>5. CASE continue_ends
    BY <1>1, <2>5 DEF continue_ends, Quiet
  <2> QED
    BY <1>3, <2>1, <2>2, <2>3, <2>4, <2>5 DEF Running
<1>4. CASE debugger_execute
  <2>1. CASE \E n \in Counts : cmd_step(n)
    <3>1. Quiet
      BY <1>2, <2>1 DEF cmd_step, Line
    <3> QED
      BY <3>1 DEF Quiet
  <2>2. CASE \E arg \in Args : cmd_break(arg) \/ cmd_delete(arg)
    <3>1. Quiet
      BY <1>2, <2>2 DEF cmd_break, cmd_delete, Line, LineAt
    <3> QED
      BY <3>1 DEF Quiet
  <2>3. CASE \E addr \in Args, n \in Counts :
               cmd_memory(addr, n) \/ cmd_disassemble(addr, n)
    <3>1. Quiet
      BY <1>2, <2>3 DEF cmd_memory, cmd_disassemble, Line
    <3> QED
      BY <3>1 DEF Quiet
  <2>4. CASE cmd_registers
    <3>1. Quiet
      BY <1>2, <2>4 DEF cmd_registers, Line
    <3> QED
      BY <3>1 DEF Quiet
  <2>5. CASE cmd_continue
    <3>1. Quiet
      BY <1>2, <2>5 DEF cmd_continue, Line
    <3> QED
      BY <3>1 DEF Quiet
  <2>6. CASE cmd_stack \/ cmd_reset
    BY <2>6, StackFrame DEF cmd_reset, reply
  <2> QED
    BY <1>4, <2>1, <2>2, <2>3, <2>4, <2>5, <2>6 DEF debugger_execute
<1>5. CASE quit
  BY <1>5 DEF quit
<1>6. CASE UNCHANGED dbgVars
  BY <1>6 DEF dbgVars
<1> QED
  BY <1>3, <1>4, <1>5, <1>6 DEF DbgNext

\* The start of a session prints where the program stands.
LEMMA StartKind == start => Kind' \in {"stopped", "refused"}
<1> SUFFICES ASSUME start PROVE Kind' \in {"stopped", "refused"}
  OBVIOUS
<1>1. report' = Line("stopped") \/ report' = Line("refused")
  BY DEF start
<1> QED
  BY <1>1 DEF Kind, Line

\* After the start the image and the record of the boot stay.
LEMMA SessionFrame ==
  ASSUME [DbgNext]_dbgVars
  PROVE  \/ start
         \/ /\ boot' = boot /\ image' = image
            /\ activity \in {"start", "ended"} => activity' = activity
<1> DEFINE Kept == /\ boot' = boot /\ image' = image
                   /\ activity \in {"start", "ended"} => activity' = activity
<1>1. ASSUME NEW k, finish(k), activity \in {"step", "continue"} PROVE Kept
  BY <1>1 DEF finish, vars
<1>2. ASSUME NEW k, reply(k), image' = image PROVE Kept
  BY <1>2 DEF reply
<1>3. ASSUME command_step, activity \notin {"start", "ended"}
      PROVE  Kept
  BY <1>3 DEF command_step, Step
<1>4. UNCHANGED vars => image' = image
  BY DEF vars
<1> HIDE DEF Kept
<1>5. CASE Running
  <2>1. CASE step_loop
    BY <1>3, <2>1 DEF step_loop, Kept
  <2>2. CASE step_ends \/ continue_ends
    <3> DEFINE k == IF halted THEN "halted" ELSE "step_limit"
    <3> HIDE DEF k
    <3>1. activity \in {"step", "continue"}
            /\ (finish(report_stop) \/ finish(k))
      BY <2>2 DEF step_ends, continue_ends, k
    <3> QED
      BY <1>1, <3>1 DEF Kept
  <2>3. CASE continue_loop
    <3>1. CASE command_step /\ UNCHANGED activity
      BY <1>3, <2>3, <3>1 DEF continue_loop, Kept
    <3> QED
      BY <1>1, <2>3, <3>1 DEF continue_loop, Kept
  <2> QED
    BY <1>5, <2>1, <2>2, <2>3 DEF Running
<1>6. CASE debugger_execute
  <2>1. CASE \E n \in Counts : cmd_step(n)
    <3>1. CASE \E k : reply(k) /\ UNCHANGED vars
      BY <1>2, <1>4, <3>1 DEF Kept
    <3>2. CASE activity = "prompt" /\ activity' = "step"
                 /\ UNCHANGED <<vars, boot>>
      BY <1>4, <3>2 DEF Kept
    <3> QED
      BY <2>1, <3>1, <3>2 DEF cmd_step
  <2>2. CASE \E arg \in Args : cmd_break(arg) \/ cmd_delete(arg)
    <3>1. Kept
      BY <1>2, <1>4, <2>2 DEF cmd_break, cmd_delete
    <3> QED
      BY <3>1 DEF Kept
  <2>3. CASE \E addr \in Args, n \in Counts :
               cmd_memory(addr, n) \/ cmd_disassemble(addr, n)
    <3>1. \E k : reply(k) /\ UNCHANGED vars
      BY <2>3 DEF cmd_memory, cmd_disassemble
    <3> QED
      BY <1>2, <1>4, <3>1 DEF Kept
  <2>4. CASE cmd_registers \/ cmd_stack
    <3>1. Kept
      BY <1>2, <1>4, <2>4 DEF cmd_registers, cmd_stack
    <3> QED
      BY <3>1 DEF Kept
  <2>5. CASE cmd_continue
    <3>1. CASE reply(Line("halted")) /\ UNCHANGED <<vars, breakpoints>>
      BY <1>2, <1>4, <3>1 DEF Kept
    <3> QED
      BY <1>3, <2>5, <3>1 DEF cmd_continue, Kept
  <2>6. CASE cmd_reset
    <3>1. image' = image
      BY <2>6 DEF cmd_reset, Load
    <3>2. \E k : reply(k)
      BY <2>6 DEF cmd_reset
    <3> QED
      BY <1>2, <3>1, <3>2 DEF Kept
  <2> QED
    BY <1>6, <2>1, <2>2, <2>3, <2>4, <2>5, <2>6 DEF debugger_execute
<1>7. CASE quit
  BY <1>4, <1>7 DEF quit
<1>8. CASE UNCHANGED dbgVars
  BY <1>4, <1>8 DEF dbgVars
<1> QED
  BY <1>5, <1>6, <1>7, <1>8 DEF DbgNext

LEMMA LiveStackFrame ==
  ASSUME UNCHANGED <<mem, sp>>
  PROVE  live_stack' = live_stack
  BY DEF live_stack, depth

LEMMA StackDumped ==
  ASSUME VmType, StackInv, cmd_stack
  PROVE  Shows(report', live_stack')
<1>1. sp \in Nat /\ sp < 65536 /\ sp % 2 = 0
  BY DEF VmType, StackInv, Word
<1>2. sp <= 65534
  BY <1>1
<1>3. depth \in Nat /\ 2 * depth = 65534 - sp
  BY <1>1, <1>2 DEF depth, CPU_INITIAL_SP
<1>empty. sp = CPU_INITIAL_SP => depth = 0
  BY <1>3 DEF CPU_INITIAL_SP
<1>4. Len(live_stack) = depth
  BY <1>3 DEF live_stack
<1>5. live_stack' = live_stack
  <2>1. UNCHANGED <<mem, sp>>
    BY StackFrame DEF vars
  <2> QED
    BY <2>1, LiveStackFrame
<1>6. CASE sp = CPU_INITIAL_SP /\ report' = Line("stack_is_empty")
  <2>1. depth = 0
    BY <1>empty, <1>6, Zenon
  <2>2. ASSUME NEW words, Len(words) = 0
        PROVE  Shows(Line("stack_is_empty"), words)
    BY <2>2 DEF Shows, Line
  <2> QED
    BY <1>4, <1>5, <1>6, <2>1, <2>2
<1>7. CASE sp # CPU_INITIAL_SP /\ report' = stack_dump
  <2>1. sp <= 65532
    BY <1>1, <1>2, <1>7 DEF CPU_INITIAL_SP
  <2>2. (sp + 2) % 65536 = sp + 2 /\ 65535 - sp + 1 - 2 = 65534 - sp
    BY <1>1, <2>1, SMT
  <2>3. report' = [kind |-> "stack", from |-> sp + 2, bytes |-> 65534 - sp]
    BY <1>7, <2>2, SMT DEF stack_dump
  <2>4. report'.bytes = 65534 - sp /\ report'.from = sp + 2
    BY <2>3, SMT
  <2> QED
    BY <1>1, <1>3, <1>4, <1>5, <2>4, SMT DEF Shows
<1> QED
  BY <1>6, <1>7, StackFrame

\* `stack` dumps the words pushed and not yet popped (debugger.c: cmd_stack).
THEOREM StackDumpCorrect == DbgSpec => []StackDumpIsLiveStack
<1> DEFINE D == activity = "prompt" /\ Kind \in {"stack", "stack_is_empty"}
                  => Shows(report, live_stack)
<1>1. DbgInit => D
  BY DEF DbgInit
<1>2. IInv /\ D /\ [DbgNext]_dbgVars => D'
  <2> SUFFICES ASSUME IInv, D, [DbgNext]_dbgVars, activity' = "prompt",
                      Kind' \in {"stack", "stack_is_empty"}
               PROVE  Shows(report', live_stack')
    OBVIOUS
  <2>1. CASE activity = "prompt" /\ UNCHANGED <<vars, report, boot>>
    <3>1. UNCHANGED <<mem, sp, report>>
      BY <2>1 DEF vars
    <3>2. Kind' = Kind
      BY <3>1 DEF Kind
    <3>3. Shows(report, live_stack)
      BY <2>1, <3>2
    <3>4. live_stack' = live_stack
      BY <3>1, LiveStackFrame
    <3> QED
      BY <3>1, <3>3, <3>4
  <2>2. CASE activity = "prompt" /\ cmd_stack
    BY <2>2, StackDumped DEF IInv
  <2>3. CASE activity = "prompt" /\ cmd_reset
    <3>1. Kind' \in {"reset", "error"}
      BY <2>3 DEF cmd_reset, reply, Line, Kind
    <3> QED
      BY <3>1
  <2>4. CASE activity = "start" /\ start
    BY <2>4, StartKind
  <2> QED
    BY <2>1, <2>2, <2>3, <2>4, PromptSteps
<1>3. D => StackDumpIsLiveStack
  BY DEF StackDumpIsLiveStack, Kind
<1> HIDE DEF D
<1> QED
  BY <1>1, <1>2, <1>3, DebuggerImplementsMachine, Invariant, PTL DEF DbgSpec

-----------------------------------------------------------------------------
\* A load of an image that passes the checks gives the machine it boots into.
LEMMA LoadGivesBoot ==
  ASSUME NEW img, Load(img), header_ok(img) \/ result' = "VM_OK"
  PROVE  header_ok(img) /\ machine' = BootOf(img) /\ image' = img
<1>1. load_accepted(img)
  BY DEF Load, vm_load, load_rejected
<1> QED
  BY <1>1 DEF Load, load_accepted, machine, BootOf

\* `reset` reproduces the machine as it was first loaded, whatever the
\* program did in between (debugger.c: cmd_reset; loader.c: vm_load).
THEOREM ResetCorrect == DbgSpec => []ResetReproducesBoot
<1> DEFINE R == activity = "prompt" /\ Kind = "reset" => machine = boot
           I == BootInv /\ R
<1>1. DbgInit => I
  BY DEF DbgInit, BootInv
<1>2. I /\ [DbgNext]_dbgVars => I'
  <2> SUFFICES ASSUME I, [DbgNext]_dbgVars PROVE I'
    OBVIOUS
  <2>1. BootInv'
    <3>1. CASE start
      <4>1. CASE result' = "VM_OK" /\ boot' = machine'
        BY <3>1, <4>1, LoadGivesBoot DEF start, BootInv
      <4>2. CASE activity' = "ended"
        BY <4>2 DEF BootInv
      <4> QED
        BY <3>1, <4>1, <4>2 DEF start
    <3> QED
      BY <3>1, SessionFrame DEF BootInv
  <2>2. R'
    <3> SUFFICES ASSUME activity' = "prompt", Kind' = "reset"
                 PROVE  machine' = boot'
      OBVIOUS
    <3>1. CASE activity = "prompt" /\ UNCHANGED <<vars, report, boot>>
      <4>1. Kind' = Kind /\ machine' = machine /\ boot' = boot
        BY <3>1 DEF Kind, machine, vars
      <4> QED
        BY <3>1, <4>1
    <3>2. CASE activity = "prompt" /\ cmd_stack
      BY <3>2, StackKind
    <3>3. CASE activity = "prompt" /\ cmd_reset
      <4>1. Load(image) /\ boot' = boot
        BY <3>3 DEF cmd_reset, reply
      <4>2. header_ok(image) /\ boot = BootOf(image)
        BY <3>3 DEF BootInv
      <4> QED
        BY <4>1, <4>2, LoadGivesBoot
    <3>4. CASE activity = "start" /\ start
      BY <3>4, StartKind
    <3> QED
      BY <3>1, <3>2, <3>3, <3>4, PromptSteps
  <2> QED
    BY <2>1, <2>2
<1>3. R => ResetReproducesBoot
  BY DEF ResetReproducesBoot, Kind
<1> HIDE DEF R
<1> QED
  BY <1>1, <1>2, <1>3, PTL DEF DbgSpec

-----------------------------------------------------------------------------
\* What the reason of a stop says.
ReasonTrue ==
  /\ Kind = "breakpoint" => ~halted /\ pc \in Breakpoints
  /\ Kind \in {"step_limit", "stopped"} => ~halted
  /\ Kind = "halted" => halted

\* A session comes to the prompt with a reason that is true, or stays there.
LEMMA StopKinds ==
  ASSUME [DbgNext]_dbgVars, activity' = "prompt"
  PROVE  \/ activity = "prompt" /\ UNCHANGED <<vars, breakpoints, report>>
         \/ ReasonTrue'
<1> DEFINE Other(k) ==
             k \notin {"breakpoint", "step_limit", "stopped", "halted"}
<1>1. ASSUME NEW line, report' = line, Other(line.kind)
      PROVE  ReasonTrue'
  <2>1. Kind' = line.kind
    BY <1>1 DEF Kind
  <2> QED
    BY <1>1, <2>1 DEF ReasonTrue
<1>2. ASSUME NEW k, finish(k)
      PROVE  /\ Kind' = k /\ halted' = halted /\ pc' = pc
             /\ Breakpoints' = Breakpoints
  BY <1>2 DEF finish, Line, Kind, vars, Breakpoints
<1>3. CASE Running
  <2>1. CASE start
    <3>1. Load(image) /\ result' = "VM_OK" /\ report' = Line("stopped")
      BY <2>1 DEF start
    <3>2. halted' = FALSE
      BY <3>1 DEF Load, vm_load, load_accepted, load_rejected
    <3>3. Kind' = "stopped"
      BY <3>1 DEF Kind, Line
    <3> QED
      BY <3>2, <3>3 DEF ReasonTrue
  <2>2. CASE step_loop
    BY <2>2 DEF step_loop
  <2>3. CASE step_ends
    <3>1. Kind' = report_stop /\ halted' = halted
      BY <1>2, <2>3 DEF step_ends
    <3> QED
      BY <3>1 DEF report_stop, ReasonTrue
  <2>4. CASE continue_loop
    <3>1. has_breakpoint(pc) /\ ~halted /\ finish("breakpoint")
      BY <2>4 DEF continue_loop
    <3>2. pc \in Breakpoints
      BY <3>1 DEF has_breakpoint, Breakpoints
    <3> QED
      BY <1>2, <3>1, <3>2 DEF ReasonTrue
  <2>5. CASE continue_ends
    <3>1. /\ Kind' = IF halted THEN "halted" ELSE "step_limit"
          /\ halted' = halted
      BY <1>2, <2>5 DEF continue_ends
    <3> QED
      BY <3>1 DEF ReasonTrue
  <2> QED
    BY <1>3, <2>1, <2>2, <2>3, <2>4, <2>5 DEF Running
<1>4. CASE debugger_execute
  <2>1. CASE \E n \in Counts : cmd_step(n)
    BY <1>1, <2>1 DEF cmd_step, reply, Line
  <2>2. CASE \E arg \in Args : cmd_break(arg) \/ cmd_delete(arg)
    <3>1. PICK line : report' = line /\ Other(line.kind)
      BY <2>2 DEF cmd_break, cmd_delete, reply, Line, LineAt
    <3> QED
      BY <1>1, <3>1
  <2>3. CASE \E addr \in Args, n \in Counts :
               cmd_memory(addr, n) \/ cmd_disassemble(addr, n)
    <3>1. PICK line : report' = line /\ Other(line.kind)
      BY <2>3 DEF cmd_memory, cmd_disassemble, reply, Line
    <3> QED
      BY <1>1, <3>1
  <2>4. CASE cmd_registers
    BY <1>1, <2>4 DEF cmd_registers, reply, Line
  <2>5. CASE cmd_continue
    <3>1. report' = Line("halted") /\ halted /\ UNCHANGED vars
      BY <2>5 DEF cmd_continue, reply
    <3>2. Kind' = "halted" /\ halted' = halted
      BY <3>1 DEF Kind, Line, vars
    <3> QED
      BY <3>1, <3>2 DEF ReasonTrue
  <2>6. CASE cmd_stack
    <3>1. Other(Line("stack_is_empty").kind) /\ Other(stack_dump.kind)
      BY DEF Line, stack_dump
    <3> QED
      BY <1>1, <2>6, <3>1, StackFrame
  <2>7. CASE cmd_reset
    <3>1. \E k \in {"reset", "error"} : report' = Line(k)
      BY <2>7 DEF cmd_reset, reply
    <3>2. \A k \in {"reset", "error"} : Other(Line(k).kind)
      BY DEF Line
    <3> QED
      BY <1>1, <3>1, <3>2
  <2> QED
    BY <1>4, <2>1, <2>2, <2>3, <2>4, <2>5, <2>6, <2>7 DEF debugger_execute
<1>5. CASE quit
  BY <1>5 DEF quit
<1>6. CASE UNCHANGED dbgVars
  BY <1>6 DEF dbgVars
<1> QED
  BY <1>3, <1>4, <1>5, <1>6 DEF DbgNext

\* The reason a stop is reported with is true of the machine the user then
\* looks at (debugger.c: cmd_continue, cmd_step, report_stop).
THEOREM StopReasons == DbgSpec => []StopReasonIsTrue
<1> DEFINE T == activity = "prompt" => ReasonTrue
<1>1. DbgInit => T
  BY DEF DbgInit
<1>2. T /\ [DbgNext]_dbgVars => T'
  <2> SUFFICES ASSUME T, [DbgNext]_dbgVars, activity' = "prompt"
               PROVE  ReasonTrue'
    OBVIOUS
  <2>1. CASE activity = "prompt" /\ UNCHANGED <<vars, breakpoints, report>>
    <3>1. /\ Kind' = Kind /\ halted' = halted /\ pc' = pc
          /\ Breakpoints' = Breakpoints
      BY <2>1 DEF Kind, vars, Breakpoints
    <3> QED
      BY <2>1, <3>1 DEF ReasonTrue
  <2> QED
    BY <2>1, StopKinds
<1>3. T => StopReasonIsTrue
  BY DEF ReasonTrue, StopReasonIsTrue, Kind
<1> HIDE DEF T
<1> QED
  BY <1>1, <1>2, <1>3, PTL DEF DbgSpec

-----------------------------------------------------------------------------
\* The instructions a `continue` has executed are counted from its first.
CountInv ==
  /\ stepped \in Nat
  /\ activity = "continue" => stepped > 0

LEMMA CountKeeps == CountInv /\ [DbgNext]_dbgVars => CountInv'
<1> SUFFICES ASSUME CountInv, [DbgNext]_dbgVars PROVE CountInv'
  OBVIOUS
<1>1. ASSUME stepped' = stepped, activity' = activity \/ activity' # "continue"
      PROVE  CountInv'
  BY <1>1 DEF CountInv
<1>2. ASSUME NEW line, finish(line)
      PROVE  CountInv'
  BY <1>2 DEF finish, CountInv
<1>3. ASSUME command_step
      PROVE  CountInv'
  BY <1>3 DEF command_step, CountInv
<1>4. CASE start \/ quit
  BY <1>1, <1>4 DEF start, quit, local
<1>5. CASE step_loop \/ step_ends \/ continue_loop \/ continue_ends
  BY <1>2, <1>3, <1>5 DEF step_loop, step_ends, continue_loop, continue_ends
<1>6. ASSUME NEW line, reply(line)
      PROVE  CountInv'
  BY <1>1, <1>6 DEF reply, local
<1>7. CASE \E n \in Counts : cmd_step(n)
  <2>1. PICK n \in Counts : cmd_step(n)
    BY <1>7
  <2>2. CASE reply(Line("error"))
    BY <1>6, <2>2
  <2>3. CASE activity' = "step" /\ stepped' = stepped
    BY <1>1, <2>3
  <2> QED
    BY <2>1, <2>2, <2>3 DEF cmd_step
<1>8. CASE cmd_continue
  BY <1>3, <1>6, <1>8 DEF cmd_continue
<1>9. CASE \E arg \in Args : cmd_break(arg) \/ cmd_delete(arg)
  BY <1>6, <1>9 DEF cmd_break, cmd_delete
<1>10. CASE \E addr \in Args, n \in Counts :
               cmd_memory(addr, n) \/ cmd_disassemble(addr, n)
  BY <1>6, <1>10 DEF cmd_memory, cmd_disassemble
<1>11. CASE cmd_reset \/ cmd_registers
  BY <1>6, <1>11 DEF cmd_reset, cmd_registers
<1>12. CASE cmd_stack
  BY <1>6, <1>12 DEF cmd_stack
<1>13. CASE UNCHANGED dbgVars
  BY <1>1, <1>13 DEF dbgVars, local
<1>14. CASE debugger_execute
  BY <1>7, <1>8, <1>9, <1>10, <1>11, <1>12, <1>14 DEF debugger_execute
<1> QED
  BY <1>4, <1>5, <1>13, <1>14 DEF DbgNext, Running

\* Only a `continue` under way answers with a breakpoint.
LEMMA BreakpointAnswer ==
  ASSUME DbgNext, activity' = "prompt", Kind' = "breakpoint"
  PROVE  activity = "continue"
<1>1. ASSUME NEW k, finish(k)
      PROVE  Kind' = k
  BY <1>1 DEF finish, Line, Kind
<1>2. ASSUME NEW line, line.kind # "breakpoint", reply(line)
      PROVE  FALSE
  <2>1. Kind' = line.kind
    BY <1>2 DEF reply, Kind
  <2> QED
    BY <1>2, <2>1
<1>3. CASE start
  BY <1>3 DEF start, Kind, Line
<1>4. CASE step_loop \/ quit
  BY <1>4 DEF step_loop, quit
<1>5. CASE step_ends
  BY <1>1, <1>5 DEF step_ends, report_stop
<1>6. CASE continue_loop \/ continue_ends
  BY <1>6 DEF continue_loop, continue_ends
<1>7. CASE debugger_execute
  <2>1. CASE \E n \in Counts : cmd_step(n)
    BY <1>2, <2>1 DEF cmd_step, Line
  <2>2. CASE \E arg \in Args : cmd_break(arg) \/ cmd_delete(arg)
    BY <1>2, <2>2 DEF cmd_break, cmd_delete, Line, LineAt
  <2>3. CASE \E addr \in Args, n \in Counts :
               cmd_memory(addr, n) \/ cmd_disassemble(addr, n)
    <3>1. PICK line : reply(line) /\ line.kind # "breakpoint"
      BY <2>3 DEF cmd_memory, cmd_disassemble, Line
    <3> QED
      BY <1>2, <3>1
  <2>4. CASE cmd_registers \/ cmd_continue
    BY <1>2, <2>4 DEF cmd_registers, cmd_continue, Line
  <2>5. CASE cmd_stack
    <3>1. /\ Line("stack_is_empty").kind # "breakpoint"
          /\ stack_dump.kind # "breakpoint"
      BY DEF Line, stack_dump
    <3> QED
      BY <1>2, <2>5, <3>1 DEF cmd_stack
  <2>6. CASE cmd_reset
    <3>1. \E k \in {"reset", "error"} : reply(Line(k))
      BY <2>6 DEF cmd_reset
    <3>2. \A k \in {"reset", "error"} : Line(k).kind # "breakpoint"
      BY DEF Line
    <3> QED
      BY <1>2, <3>1, <3>2
  <2> QED
    BY <1>7, <2>1, <2>2, <2>3, <2>4, <2>5, <2>6 DEF debugger_execute
<1> QED
  BY <1>3, <1>4, <1>5, <1>6, <1>7 DEF DbgNext, Running

\* `continue` answers with a breakpoint only after it has executed an
\* instruction, the one at the breakpoint it may have stood on
\* (debugger.c: cmd_continue).
THEOREM ContinueMovesOn == DbgSpec => ContinueLeavesBreakpoint
<1> DEFINE Q == activity' = "prompt" /\ report'.kind = "breakpoint" => stepped > 0
<1>1. DbgInit => CountInv
  BY DEF DbgInit, CountInv
<1>2. CountInv /\ [DbgNext]_dbgVars => [Q]_dbgVars
  <2> SUFFICES ASSUME CountInv, DbgNext, activity' = "prompt",
                      Kind' = "breakpoint"
               PROVE  stepped > 0
    BY DEF Kind
  <2> QED
    BY BreakpointAnswer DEF CountInv
<1> QED
  BY <1>1, <1>2, CountKeeps, PTL DEF DbgSpec, ContinueLeavesBreakpoint

-----------------------------------------------------------------------------
\* The breakpoint array.

Distinct(s) == \A i, j \in DOMAIN s : s[i] = s[j] => i = j
Elements(s) == {s[i] : i \in DOMAIN s}

\* A sequence without repetitions has as many elements as it is long.
LEMMA DistinctCardinality ==
  ASSUME NEW S, NEW s \in Seq(S), Distinct(s)
  PROVE  Cardinality(Elements(s)) = Len(s)
<1> DEFINE n == Len(s)
           T == Elements(s)
<1>1. n \in Nat /\ DOMAIN s = 1 .. n
  OBVIOUS
<1>2. s \in [1 .. n -> T]
  BY <1>1 DEF Elements
<1>3. s \in Injection(1 .. n, T)
  BY <1>1, <1>2 DEF Injection, IsInjective, Distinct
<1>4. s \in Surjection(1 .. n, T)
  BY <1>1, <1>2 DEF Surjection, Elements
<1>5. ExistsBijection(1 .. n, T)
  BY <1>3, <1>4 DEF ExistsBijection, Bijection
<1> HIDE DEF n, T
<1>6. Cardinality(T) = n
  BY <1>1, <1>5, FS_CountingElements
<1> QED
  BY <1>6 DEF n, T

\* Appending a new element.
LEMMA AppendDistinct ==
  ASSUME NEW S, NEW s \in Seq(S), Distinct(s), NEW e \in S, e \notin Elements(s)
  PROVE  /\ Append(s, e) \in Seq(S) /\ Distinct(Append(s, e))
         /\ Len(Append(s, e)) = Len(s) + 1
         /\ Elements(Append(s, e)) = Elements(s) \cup {e}
<1> DEFINE n == Len(s)
           t == Append(s, e)
<1>1. n \in Nat /\ DOMAIN s = 1 .. n
  OBVIOUS
<1>2. /\ t \in Seq(S) /\ Len(t) = n + 1 /\ DOMAIN t = 1 .. n + 1
      /\ \A k \in 1 .. n : t[k] = s[k]
      /\ t[n + 1] = e
  OBVIOUS
<1> HIDE DEF n, t
<1>3. \A k \in DOMAIN t : k \in 1 .. n \/ k = n + 1
  BY <1>1, <1>2
<1>4. Distinct(t)
  BY <1>1, <1>2, <1>3 DEF Distinct, Elements
<1>5. Elements(t) = Elements(s) \cup {e}
  <2>1. ASSUME NEW x \in Elements(t) PROVE x \in Elements(s) \cup {e}
    BY <1>1, <1>2, <1>3, <2>1 DEF Elements
  <2>2. ASSUME NEW x \in Elements(s) PROVE x \in Elements(t)
    <3>1. PICK k \in 1 .. n : x = s[k]
      BY <1>1, <2>2 DEF Elements
    <3>2. k \in DOMAIN t /\ t[k] = x
      BY <1>1, <1>2, <3>1
    <3> QED
      BY <3>2 DEF Elements
  <2>3. e \in Elements(t)
    <3>1. n + 1 \in DOMAIN t
      BY <1>1, <1>2
    <3> QED
      BY <1>2, <3>1 DEF Elements
  <2> QED
    BY <2>1, <2>2, <2>3
<1> QED
  BY <1>2, <1>4, <1>5 DEF n, t

\* Overwriting an element by the last one and dropping the last place
\* removes exactly that element.
LEMMA SwapRemoves ==
  ASSUME NEW S, NEW s \in Seq(S), Distinct(s), NEW i \in DOMAIN s
  PROVE  LET t == SubSeq([s EXCEPT ![i] = s[Len(s)]], 1, Len(s) - 1)
         IN  /\ t \in Seq(S) /\ Distinct(t)
             /\ Len(t) = Len(s) - 1
             /\ Elements(t) = Elements(s) \ {s[i]}
<1> DEFINE n == Len(s)
           u == [s EXCEPT ![i] = s[n]]
           t == SubSeq(u, 1, n - 1)
<1>1. n \in Nat /\ DOMAIN s = 1 .. n /\ i \in 1 .. n /\ n - 1 \in Nat
  OBVIOUS
<1>2. /\ u \in Seq(S) /\ Len(u) = n
      /\ \A k \in 1 .. n : u[k] = IF k = i THEN s[n] ELSE s[k]
  BY <1>1
<1> HIDE DEF u, n
<1>3. /\ t \in Seq(S) /\ Len(t) = n - 1 /\ DOMAIN t = 1 .. n - 1
      /\ \A k \in 1 .. n - 1 : t[k] = u[k]
  BY <1>1, <1>2
<1> HIDE DEF t
<1>4. \A k \in DOMAIN t : /\ k \in 1 .. n /\ k # n
                          /\ t[k] = IF k = i THEN s[n] ELSE s[k]
  BY <1>1, <1>2, <1>3
<1>5. n \in DOMAIN s
  BY <1>1
<1>6. Distinct(t)
  <2> SUFFICES ASSUME NEW j \in DOMAIN t, NEW k \in DOMAIN t, t[j] = t[k]
               PROVE  j = k
    BY DEF Distinct
  <2>1. /\ j \in DOMAIN s /\ j # n /\ k \in DOMAIN s /\ k # n
        /\ t[j] = IF j = i THEN s[n] ELSE s[j]
        /\ t[k] = IF k = i THEN s[n] ELSE s[k]
    BY <1>1, <1>4
  <2> QED
    BY <1>5, <2>1 DEF Distinct
<1>7. ASSUME NEW x \in Elements(t) PROVE x \in Elements(s) \ {s[i]}
  <2>1. PICK k \in DOMAIN t : x = t[k]
    BY <1>7 DEF Elements
  <2>2. k \in DOMAIN s /\ k # n /\ t[k] = IF k = i THEN s[n] ELSE s[k]
    BY <1>1, <1>4
  <2> QED
    BY <1>5, <2>1, <2>2 DEF Elements, Distinct
<1>8. ASSUME NEW x \in Elements(s), x # s[i] PROVE x \in Elements(t)
  <2>1. PICK k \in DOMAIN s : x = s[k]
    BY <1>8 DEF Elements
  <2>2. CASE k # n
    <3>1. k \in DOMAIN t /\ k # i
      BY <1>1, <1>3, <1>8, <2>1, <2>2
    <3> QED
      BY <1>4, <2>1, <3>1 DEF Elements
  <2>3. CASE k = n
    <3>1. i \in DOMAIN t
      BY <1>1, <1>3, <1>8, <2>1, <2>3
    <3>2. t[i] = s[n]
      BY <1>4, <3>1
    <3> QED
      BY <2>1, <2>3, <3>1, <3>2 DEF Elements
  <2> QED
    BY <2>2, <2>3
<1>9. Elements(t) = Elements(s) \ {s[i]}
  BY <1>7, <1>8
<1> QED
  BY <1>3, <1>6, <1>9 DEF t, u, n

\* No address is in the array twice, and the array is never over full.
ArrayInv ==
  /\ breakpoints \in Seq(Word)
  /\ Distinct(breakpoints)
  /\ Len(breakpoints) <= DEBUGGER_MAX_BREAKPOINTS

LEMMA HasBreakpoint ==
  ASSUME NEW addr
  PROVE  has_breakpoint(addr) <=> addr \in Breakpoints
  BY DEF has_breakpoint, Breakpoints

\* delete removes the address and nothing else.
LEMMA WithoutRemoves ==
  ASSUME ArrayInv, NEW addr, has_breakpoint(addr)
  PROVE  /\ without(addr) \in Seq(Word) /\ Distinct(without(addr))
         /\ Len(without(addr)) = Len(breakpoints) - 1
         /\ Elements(without(addr)) = Breakpoints \ {addr}
<1> DEFINE P(k) == /\ breakpoints[k] = addr
                   /\ \A j \in 1 .. k - 1 : breakpoints[j] # addr
           i == CHOOSE k \in DOMAIN breakpoints : P(k)
<1>1. \E k \in DOMAIN breakpoints : P(k)
  <2>1. PICK k \in DOMAIN breakpoints : breakpoints[k] = addr
    BY DEF has_breakpoint
  <2>2. DOMAIN breakpoints = 1 .. Len(breakpoints) /\ Len(breakpoints) \in Nat
    BY DEF ArrayInv
  <2>3. ASSUME NEW j \in 1 .. k - 1 PROVE breakpoints[j] # addr
    <3>1. j \in DOMAIN breakpoints /\ j # k
      BY <2>2
    <3> QED
      BY <2>1, <3>1 DEF ArrayInv, Distinct
  <2> QED
    BY <2>1, <2>3
<1>2. i \in DOMAIN breakpoints /\ breakpoints[i] = addr
  BY <1>1
<1>3. without(addr)
        = SubSeq([breakpoints EXCEPT ![i] = breakpoints[Len(breakpoints)]],
                 1, Len(breakpoints) - 1)
  BY DEF without
<1>4. Breakpoints = Elements(breakpoints)
  BY DEF Breakpoints, Elements
<1>5. breakpoints \in Seq(Word) /\ Distinct(breakpoints)
  BY DEF ArrayInv
<1> DEFINE t == SubSeq([breakpoints EXCEPT
                          ![i] = breakpoints[Len(breakpoints)]],
                       1, Len(breakpoints) - 1)
<1> HIDE DEF i
<1>6. /\ t \in Seq(Word) /\ Distinct(t)
      /\ Len(t) = Len(breakpoints) - 1
      /\ Elements(t) = Elements(breakpoints) \ {breakpoints[i]}
  BY <1>2, <1>5, SwapRemoves, Zenon
<1> HIDE DEF t
<1>7. without(addr) = t
  BY <1>3 DEF t
<1> QED
  BY <1>2, <1>4, <1>6, <1>7

\* Only break and delete touch the array or answer as they do.
LEMMA ArrayFrame ==
  ASSUME [DbgNext]_dbgVars
  PROVE  \/ UNCHANGED <<breakpoints, report>>
         \/ /\ UNCHANGED breakpoints
            /\ Kind' \notin {"set", "already_set", "too_many", "removed",
                             "no_breakpoint"}
         \/ \E arg \in Args : cmd_break(arg) \/ cmd_delete(arg)
<1> DEFINE Other(k) == k \notin {"set", "already_set", "too_many", "removed",
                                 "no_breakpoint"}
           Quiet == UNCHANGED breakpoints /\ Other(Kind')
<1>1. ASSUME NEW line, report' = line, Other(line.kind), UNCHANGED breakpoints
      PROVE  Quiet
  BY <1>1 DEF Kind
<1>2. ASSUME NEW k, Other(k) PROVE Other(Line(k).kind)
  BY <1>2 DEF Line
<1> HIDE DEF Quiet, Other
<1>3. ASSUME NEW k, finish(k), Other(k) PROVE Quiet
  BY <1>1, <1>2, <1>3 DEF finish
<1>4. ASSUME NEW k, reply(Line(k)), Other(k), UNCHANGED breakpoints
      PROVE  Quiet
  BY <1>1, <1>2, <1>4 DEF reply
<1>5. \A k \in {"stopped", "refused", "halted", "breakpoint", "step_limit",
                "error", "registers", "disassembly", "stack_is_empty",
                "reset"} : Other(k)
  BY DEF Other
<1>6. CASE Running
  <2>1. CASE start
    BY <1>1, <1>2, <1>5, <2>1 DEF start, Quiet, Other
  <2>2. CASE step_loop
    BY <2>2 DEF step_loop, command_step
  <2>3. CASE step_ends
    BY <1>3, <1>5, <2>3 DEF step_ends, report_stop, Quiet, Other
  <2>4. CASE continue_loop
    <3>1. CASE command_step
      BY <3>1 DEF command_step
    <3>2. CASE finish("breakpoint")
      BY <1>3, <1>5, <3>2 DEF Quiet, Other
    <3> QED
      BY <2>4, <3>1, <3>2 DEF continue_loop
  <2>5. CASE continue_ends
    BY <1>3, <1>5, <2>5 DEF continue_ends, Quiet, Other
  <2> QED
    BY <1>6, <2>1, <2>2, <2>3, <2>4, <2>5 DEF Running
<1>7. CASE debugger_execute
  <2>1. CASE \E n \in Counts : cmd_step(n)
    <3>1. CASE reply(Line("error")) /\ UNCHANGED breakpoints
      BY <1>4, <1>5, <3>1 DEF Quiet, Other
    <3> QED
      BY <2>1, <3>1 DEF cmd_step
  <2>2. CASE \E addr \in Args, n \in Counts :
               cmd_memory(addr, n) \/ cmd_disassemble(addr, n)
    <3>1. PICK line : /\ report' = line /\ UNCHANGED breakpoints
                      /\ line.kind \in {"memory", "disassembly", "error"}
      BY <2>2 DEF cmd_memory, cmd_disassemble, reply, Line
    <3>2. Other(line.kind)
      BY <3>1 DEF Other
    <3> QED
      BY <1>1, <3>1, <3>2 DEF Quiet, Other
  <2>3. CASE cmd_registers
    BY <1>4, <1>5, <2>3 DEF cmd_registers, Quiet, Other
  <2>4. CASE cmd_continue
    <3>1. CASE reply(Line("halted")) /\ UNCHANGED breakpoints
      BY <1>4, <1>5, <3>1 DEF Quiet, Other
    <3> QED
      BY <2>4, <3>1 DEF cmd_continue, command_step
  <2>5. CASE cmd_stack
    <3>1. Other(stack_dump.kind) /\ Other(Line("stack_is_empty").kind)
      BY DEF stack_dump, Line, Other
    <3> QED
      BY <1>1, <2>5, <3>1, StackFrame DEF Quiet, Other
  <2>6. CASE cmd_reset
    BY <1>4, <1>5, <2>6 DEF cmd_reset, Quiet, Other
  <2> QED
    BY <1>7, <2>1, <2>2, <2>3, <2>4, <2>5, <2>6 DEF debugger_execute
<1>8. CASE quit
  BY <1>8 DEF quit
<1>9. CASE UNCHANGED dbgVars
  BY <1>9 DEF dbgVars
<1> QED
  BY <1>6, <1>7, <1>8, <1>9 DEF DbgNext

\* The array keeps its shape.
LEMMA ArrayStep ==
  ASSUME ArrayInv, [DbgNext]_dbgVars
  PROVE  ArrayInv'
<1>1. CASE UNCHANGED breakpoints
  BY <1>1 DEF ArrayInv, Distinct
<1>2. ASSUME NEW arg, cmd_break(arg), breakpoints' # breakpoints
      PROVE  ArrayInv'
  <2>1. /\ arg \in Word /\ ~has_breakpoint(arg)
        /\ Len(breakpoints) # DEBUGGER_MAX_BREAKPOINTS
        /\ breakpoints' = Append(breakpoints, arg)
    BY <1>2 DEF cmd_break, parse_number
  <2>2. arg \notin Elements(breakpoints)
    BY <2>1, HasBreakpoint DEF Breakpoints, Elements
  <2>3. /\ breakpoints' \in Seq(Word) /\ Distinct(breakpoints')
        /\ Len(breakpoints') = Len(breakpoints) + 1
    BY <2>1, <2>2, AppendDistinct DEF ArrayInv
  <2>4. Len(breakpoints') <= DEBUGGER_MAX_BREAKPOINTS
    BY <2>1, <2>3, LimitsAssumption DEF ArrayInv
  <2> QED
    BY <2>3, <2>4 DEF ArrayInv
<1>3. ASSUME NEW arg, cmd_delete(arg), breakpoints' # breakpoints
      PROVE  ArrayInv'
  <2>1. has_breakpoint(arg) /\ breakpoints' = without(arg)
    BY <1>3 DEF cmd_delete
  <2>2. /\ breakpoints' \in Seq(Word) /\ Distinct(breakpoints')
        /\ Len(breakpoints') = Len(breakpoints) - 1
    BY <2>1, WithoutRemoves
  <2>3. Len(breakpoints') <= DEBUGGER_MAX_BREAKPOINTS
    BY <2>2, LimitsAssumption DEF ArrayInv
  <2> QED
    BY <2>2, <2>3 DEF ArrayInv
<1> QED
  BY <1>1, <1>2, <1>3, ArrayFrame

\* break and delete do to the set what they answer.
LEMMA BreakRefines ==
  ASSUME ArrayInv, NEW arg \in Args, cmd_break(arg) \/ cmd_delete(arg)
  PROVE  Set!Next
<1> DEFINE bps == Breakpoints
<1>1. Cardinality(bps) = Len(breakpoints) /\ Len(breakpoints) \in Nat
  BY DistinctCardinality DEF ArrayInv, Breakpoints, Elements
<1>2. bps = Elements(breakpoints) /\ Breakpoints' = Elements(breakpoints')
  BY DEF Breakpoints, Elements
<1>card. Set!Cardinality(bps) = Cardinality(bps)
  <2> HIDE DEF bps
  <2> QED
    BY DEF Set!Cardinality, Cardinality
<1>3. has_breakpoint(arg) <=> arg \in bps
  BY HasBreakpoint
<1>4. ASSUME NEW k, report' = Line(k)
      PROVE  report'.kind = k
  BY <1>4 DEF Line
<1>5. ASSUME NEW k, report' = LineAt(k, arg)
      PROVE  report'.kind = k /\ report'.from = arg
  BY <1>5 DEF LineAt
<1>6. UNCHANGED breakpoints => Breakpoints' = Breakpoints
  BY DEF Breakpoints
<1>7. CASE reply(Line("error")) /\ UNCHANGED breakpoints
  <2>1. Set!Other
    BY <1>4, <1>6, <1>7
       DEF Set!Other, reply, Set!BreakAnswers, Set!DeleteAnswers
  <2> QED
    BY <2>1 DEF Set!Next
<1>8. CASE cmd_break(arg)
  <2>1. CASE /\ has_breakpoint(arg)
             /\ reply(LineAt("already_set", arg))
             /\ UNCHANGED breakpoints
    <3>1. Set!Break(arg)
      BY <1>3, <1>5, <1>6, <2>1 DEF Set!Break, reply
    <3> QED
      BY <3>1 DEF Set!Next
  <2>2. CASE /\ ~has_breakpoint(arg)
             /\ Len(breakpoints) = DEBUGGER_MAX_BREAKPOINTS
             /\ reply(Line("too_many"))
             /\ UNCHANGED breakpoints
    <3>1. Set!Break(arg)
      BY <1>1, <1>card, <1>3, <1>4, <1>6, <2>2 DEF Set!Break, reply
    <3> QED
      BY <3>1 DEF Set!Next
  <2>3. CASE /\ parse_number(arg) /\ ~has_breakpoint(arg)
             /\ Len(breakpoints) # DEBUGGER_MAX_BREAKPOINTS
             /\ reply(LineAt("set", arg))
             /\ breakpoints' = Append(breakpoints, arg)
    <3>1. Breakpoints' = Breakpoints \cup {arg}
      BY <1>2, <1>3, <2>3, AppendDistinct DEF ArrayInv, parse_number
    <3>2. Cardinality(bps) < DEBUGGER_MAX_BREAKPOINTS
      BY <1>1, <2>3, LimitsAssumption DEF ArrayInv
    <3>3. Set!Break(arg)
      BY <1>card, <1>3, <1>5, <2>3, <3>1, <3>2 DEF Set!Break, reply
    <3> QED
      BY <3>3 DEF Set!Next
  <2> QED
    BY <1>7, <1>8, <2>1, <2>2, <2>3 DEF cmd_break
<1>9. CASE cmd_delete(arg)
  <2>1. CASE /\ has_breakpoint(arg)
             /\ reply(LineAt("removed", arg))
             /\ breakpoints' = without(arg)
    <3>1. Breakpoints' = Breakpoints \ {arg}
      BY <1>2, <2>1, WithoutRemoves
    <3>2. Set!Delete(arg)
      BY <1>3, <1>5, <2>1, <3>1 DEF Set!Delete, reply
    <3> QED
      BY <3>2 DEF Set!Next
  <2>2. CASE /\ ~has_breakpoint(arg)
             /\ reply(LineAt("no_breakpoint", arg))
             /\ UNCHANGED breakpoints
    <3>1. Set!Delete(arg)
      BY <1>3, <1>5, <1>6, <2>2 DEF Set!Delete, reply
    <3> QED
      BY <3>1 DEF Set!Next
  <2> QED
    BY <1>7, <1>9, <2>1, <2>2 DEF cmd_delete
<1> QED
  BY <1>8, <1>9

\* break and delete over the array with its swap-with-last removal
\* implement a set of at most DEBUGGER_MAX_BREAKPOINTS addresses, and every
\* answer is true of it (debugger.c: cmd_break, cmd_delete, cmd_reset).
THEOREM DebuggerImplementsSet == DbgSpec => ImplementsSet
<1>1. DbgInit => ArrayInv
  BY LimitsAssumption DEF DbgInit, ArrayInv, Distinct
<1>2. ArrayInv /\ [DbgNext]_dbgVars => ArrayInv'
  BY ArrayStep
<1>3. DbgInit => Set!Init
  <2> SUFFICES ASSUME DbgInit PROVE Set!Init
    OBVIOUS
  <2>1. Breakpoints = {} /\ report.kind = "none"
    BY DEF DbgInit, Breakpoints, Line
  <2> QED
    BY <2>1 DEF Set!Init, Set!BreakAnswers, Set!DeleteAnswers
<1>4. ArrayInv /\ [DbgNext]_dbgVars
        => [Set!Next]_<<Breakpoints, report.kind, report.from>>
  <2> SUFFICES ASSUME ArrayInv, [DbgNext]_dbgVars
               PROVE  \/ Set!Next
                      \/ UNCHANGED <<Breakpoints, report.kind, report.from>>
    OBVIOUS
  <2>1. CASE UNCHANGED <<breakpoints, report>>
    BY <2>1 DEF Breakpoints
  <2>2. CASE /\ UNCHANGED breakpoints
             /\ Kind' \notin {"set", "already_set", "too_many", "removed",
                              "no_breakpoint"}
    <3>1. Set!Other
      BY <2>2 DEF Breakpoints, Kind, Set!Other, Set!BreakAnswers,
                  Set!DeleteAnswers
    <3> QED
      BY <3>1 DEF Set!Next
  <2> QED
    BY <2>1, <2>2, ArrayFrame, BreakRefines
<1> QED
  BY <1>1, <1>2, <1>3, <1>4, PTL DEF DbgSpec, ImplementsSet, Set!Spec
=============================================================================
