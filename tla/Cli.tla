--------------------------------- MODULE Cli ---------------------------------
(***************************************************************************)
(* `bytevm run` (main.c: cmd_run): obtain an image, load it into a fresh   *)
(* machine, step it until it halts or MAX_STEPS is reached, and turn the   *)
(* outcome into the exit status of the process.                            *)
(***************************************************************************)
EXTENDS Machine

CONSTANT MAX_STEPS       \* 10000000 in main.c

ASSUME MaxStepsAssumption == MAX_STEPS \in Nat \ {0}

VARIABLES
  phase,                 \* where cmd_run is
  steps,                 \* its counter
  exit_code              \* its return value, -1 while it runs

run == <<phase, steps, exit_code>>
cliVars == <<vars, run>>

CliInit ==
  /\ Init
  /\ phase = "open"
  /\ steps = 0
  /\ exit_code = -1

\* image_from_path: the file cannot be read or does not assemble, or
\* memory for the machine cannot be had.
open_fails ==
  /\ phase = "open"
  /\ phase' = "exited"
  /\ exit_code' = 1
  /\ UNCHANGED <<vars, steps>>

open_image ==
  /\ phase = "open"
  /\ phase' = "load"
  /\ UNCHANGED <<vars, steps, exit_code>>

load_image ==
  /\ phase = "load"
  /\ Load(image)
  /\ \/ /\ result' = "VM_OK"
        /\ phase' = "run"
        /\ UNCHANGED exit_code
     \/ /\ result' # "VM_OK"
        /\ phase' = "exited"
        /\ exit_code' = 1
  /\ UNCHANGED steps

\* Mutant: the steps are not counted.
run_step_uncounted ==
  /\ phase = "run"
  /\ ~halted /\ steps < MAX_STEPS
  /\ Step
  /\ UNCHANGED <<steps, phase, exit_code>>

run_step ==
  /\ phase = "run"
  /\ ~halted /\ steps < MAX_STEPS
  /\ Step
  /\ steps' = steps + 1
  /\ UNCHANGED <<phase, exit_code>>

\* Mutant: the step limit is not told from a halt.
run_ends_silently ==
  /\ phase = "run"
  /\ ~(~halted /\ steps < MAX_STEPS)
  /\ exit_code' = IF last_error # "VM_OK" THEN 1 ELSE r[0] % 256
  /\ phase' = "exited"
  /\ UNCHANGED <<vars, steps>>

run_ends ==
  /\ phase = "run"
  /\ ~(~halted /\ steps < MAX_STEPS)
  /\ exit_code' = IF last_error # "VM_OK" \/ ~halted THEN 1 ELSE r[0] % 256
  /\ phase' = "exited"
  /\ UNCHANGED <<vars, steps>>

CliNext == open_fails \/ open_image \/ load_image \/ run_step \/ run_ends

\* The process is scheduled until it returns; nothing it does can block
\* but a read of stdin, which the model's READ_INT completes.
CliSpec == CliInit /\ [][CliNext]_cliVars /\ WF_cliVars(CliNext)

-----------------------------------------------------------------------------
\* `bytevm run` returns, whatever the program does: an endless loop ends
\* at the step limit (main.c: the loop of cmd_run).
RunReturns == <>(phase = "exited")

\* The exit status can be trusted (DESIGN.md sections 8.7 and 9): 0 means
\* that the program ran and halted by itself without an error and left 0
\* in the low byte of R0; a program that halts without an error, even on
\* the last step allowed, exits with R0's low byte; every fault, refused
\* file or exhausted step limit gives a non-zero status.
ExitStatusTrusted ==
  phase = "exited" =>
    /\ exit_code = 0 => booted /\ halted /\ last_error = "VM_OK"
                          /\ r[0] % 256 = 0
    /\ booted /\ halted /\ last_error = "VM_OK" => exit_code = r[0] % 256
    /\ ~halted \/ result # "VM_OK" => exit_code # 0
=============================================================================
