------------------------------- MODULE Loader -------------------------------
(***************************************************************************)
(* vm_load (loader.c): all checks of the file (module Image) precede any   *)
(* change of the machine.                                                  *)
(***************************************************************************)
EXTENDS VM, Image

\* Mutant: an earlier error survives the load.
load_keeps_error(img) ==
  /\ header_ok(img)
  /\ r' = [x \in Register |-> 0]
  /\ sp' = CPU_INITIAL_SP
  /\ flags' = {}
  /\ halted' = FALSE
  /\ mem' = loaded_memory(img)
  /\ pc' = img.entry_point
  /\ stack_limit' = limit_of(img)
  /\ result' = "VM_OK"
  /\ UNCHANGED <<last_error, error_pc, stdout>>

\* Mutant: memory is not zeroed before the copy.
load_over_old_memory(img) ==
  /\ header_ok(img)
  /\ r' = [x \in Register |-> 0]
  /\ sp' = CPU_INITIAL_SP
  /\ flags' = {}
  /\ halted' = FALSE
  /\ last_error' = "VM_OK"
  /\ error_pc' = 0
  /\ mem' = write_block(write_block(mem, img.code_addr, code_bytes(img)),
                        img.data_addr, data_bytes(img))
  /\ pc' = img.entry_point
  /\ stack_limit' = limit_of(img)
  /\ result' = "VM_OK"
  /\ UNCHANGED stdout

load_accepted(img) ==
  /\ header_ok(img)
  /\ r' = [x \in Register |-> 0]
  /\ sp' = CPU_INITIAL_SP
  /\ flags' = {}
  /\ halted' = FALSE
  /\ last_error' = "VM_OK"
  /\ error_pc' = 0
  /\ mem' = loaded_memory(img)
  /\ pc' = img.entry_point
  /\ stack_limit' = limit_of(img)
  /\ result' = "VM_OK"
  /\ UNCHANGED stdout

load_rejected(img) ==
  /\ ~header_ok(img)
  /\ result' = "VM_ERR_BAD_BYTECODE_HEADER"
  /\ UNCHANGED vm

vm_load(img) == load_accepted(img) \/ load_rejected(img)
=============================================================================
