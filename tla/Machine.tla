------------------------------- MODULE Machine -------------------------------
(***************************************************************************)
(* The virtual machine as its host drives it: vm_init, then vm_load and    *)
(* vm_step calls in any order, no vm_step before the first accepted image. *)
(* The command line runs one image; the debugger may load it again at any  *)
(* time; the loader's contract (loader.h) also covers a host that hands    *)
(* over another image, as it may do with the files in Swapped.             *)
(***************************************************************************)
EXTENDS Loader

CONSTANTS
  Images,             \* the files the host may hand to vm_load
  Swapped             \* those of them it loads over one another

ASSUME ImagesAssumption == \A img \in Images : IsImage(img)
ASSUME SwappedAssumption == Swapped \subseteq Images

VARIABLES
  image,              \* the image in memory, or the one to load first
  booted,             \* vm_load has accepted an image
  last_call           \* history: the host's last call

host == <<image, booted, last_call>>
vars == <<r, pc, sp, flags, mem, halted, last_error, error_pc, stack_limit,
          stdout, result, image, booted, last_call>>

Init ==
  /\ vm_init
  /\ image \in Images
  /\ booted = FALSE
  /\ last_call = "vm_init"

\* The files the host may load now.
Offered == IF image \in Swapped THEN Swapped ELSE {image}

Load(img) ==
  /\ vm_load(img)
  /\ booted' = (booted \/ header_ok(img))
  /\ image' = IF header_ok(img) THEN img ELSE image
  /\ last_call' = "vm_load"

Step ==
  /\ booted
  /\ vm_step
  /\ last_call' = "vm_step"
  /\ UNCHANGED <<image, booted>>

Next ==
  \/ \E img \in Offered : Load(img)
  \/ Step

Spec == Init /\ [][Next]_vars

-----------------------------------------------------------------------------
\* Addresses an image occupies.
CodeRegion(img) == img.code_addr .. code_end(img) - 1
DataRegion(img) == img.data_addr .. data_end(img) - 1
ProgramRegion(img) == CodeRegion(img) \cup DataRegion(img)

\* Words on the stack, bottom first.
depth == (CPU_INITIAL_SP - sp) \div 2
live_stack == [k \in 1 .. depth |-> mem_read16(mem, 65536 - 2 * k)]
stack_capacity ==
  IF stack_limit > CPU_INITIAL_SP THEN 0
                                  ELSE (CPU_INITIAL_SP - stack_limit) \div 2

\* The word the next instruction pushes, if it is a PUSH or a CALL.
offered ==
  IF fetched.opcode = OP_PUSH THEN operand_read(fetched.op1) ELSE fetched.next

-----------------------------------------------------------------------------
\* Type correctness of struct VM (vm.h) and of the host's state.
TypeOK ==
  /\ r \in [Register -> Word]
  /\ pc \in Word
  /\ sp \in Word
  /\ flags \subseteq Flag
  /\ IsMemory(mem)
  /\ halted \in BOOLEAN
  /\ last_error \in VmError \cup {"VM_OK"}
  /\ error_pc \in Word
  /\ stack_limit \in Word
  /\ IsItem(stdout)
  /\ result \in VmResult
  /\ image \in Images
  /\ booted \in BOOLEAN
  /\ last_call \in {"vm_init", "vm_load", "vm_step"}

\* The stack never touches the program (DESIGN.md section 6): SP is always
\* even, so no stack access wraps past 0xFFFF, and once anything is on the
\* stack every byte of the loaded code and data lies below the next free
\* slot, whatever sequence of PUSH, CALL, POP, RET and reloads led there.
StackAboveProgram ==
  /\ sp % 2 = 0
  /\ booted /\ sp # CPU_INITIAL_SP =>
       \A a \in ProgramRegion(image) : a < sp

\* The bytes of the loaded code and data change only when the program
\* executes a STORE or the host loads an image that is accepted: no PUSH,
\* CALL or any other instruction modifies the program (vm.c: exec_push,
\* exec_call), and a load that is refused, at whichever of its checks,
\* leaves the program in memory whole (loader.h, loader.c: vm_load).
ProgramChangesOnlyByStore ==
  [][\A a \in ProgramRegion(image) :
        \/ ~booted
        \/ mem_read8(mem', a) = mem_read8(mem, a)
        \/ last_call' = "vm_step" /\ mem_read8(mem, pc) = OP_STORE
        \/ last_call' = "vm_load" /\ result' = "VM_OK"]_vars

\* Why an instruction that decodes may still fail.
Explains(e, i) ==
  CASE e = "VM_ERR_DIV_BY_ZERO" ->
         i.opcode \in {OP_DIV, OP_MOD} /\ operand_read(i.op2) = 0
    [] e = "VM_ERR_STACK_OVERFLOW" ->
         i.opcode \in {OP_PUSH, OP_CALL} /\ depth = stack_capacity
    [] e = "VM_ERR_STACK_UNDERFLOW" ->
         i.opcode \in {OP_POP, OP_RET} /\ depth = 0
    [] e = "VM_ERR_INVALID_SYSCALL" ->
         i.opcode = OP_SYS /\ i.op1.value \notin 1 .. 4
    [] OTHER -> FALSE

\* A recorded error explains itself from the state it left behind (vm.h,
\* DESIGN.md section 9): the machine is halted, decoding at error_pc again
\* gives the same error, or gives an instruction that must fail with it;
\* the PC stands on a failed decode and after a failed execution.  So a
\* fault changed nothing, and nothing ran after it.
FaultExplained ==
  last_error # "VM_OK" =>
    /\ halted
    /\ LET i == instruction_decode(mem, error_pc)
       IN  IF i.result # "VM_OK"
           THEN last_error = i.result /\ pc = error_pc
           ELSE pc = i.next /\ Explains(last_error, i)

\* vm_step returns what the VM records (vm.h): VM_OK exactly while no error
\* is recorded, and the recorded error on every call after a fault until a
\* reload; a reload never leaves an old error behind.
StepReturnsLastError ==
  last_call = "vm_step" => result = last_error

\* An accepted load puts the machine in a state that depends on the image
\* alone, whatever ran before (loader.h): every code and data byte is the
\* file's, every other cell is 0, the CPU is reset, execution starts at
\* entry_point inside the code, and the stack is kept above both regions.
LoadedExactly ==
  last_call = "vm_load" /\ result = "VM_OK" =>
    /\ \A k \in 1 .. image.code_size :
          mem_read8(mem, image.code_addr + k - 1) = image.body[k]
    /\ \A k \in 1 .. image.data_size :
          mem_read8(mem, image.data_addr + k - 1)
            = image.body[image.code_size + k]
    /\ DOMAIN mem \subseteq ProgramRegion(image) \cap Word
    /\ pc = image.entry_point /\ pc \in CodeRegion(image)
    /\ sp = CPU_INITIAL_SP /\ flags = {} /\ \A x \in Register : r[x] = 0
    /\ ~halted /\ last_error = "VM_OK"
    /\ \A a \in ProgramRegion(image) : a < stack_limit \/ stack_limit = 65535

\* PUSH, POP, CALL and RET over memory implement the bounded stack of
\* StackMachine, the refinement mapping being the words above SP: a push
\* puts its own word on top and disturbs no other, a pop uncovers what was
\* below (vm.c: exec_push, exec_pop, exec_call, exec_ret).
Stack == INSTANCE StackMachine WITH stack <- live_stack,
                                    capacity <- stack_capacity,
                                    offered <- offered
ImplementsStack == Stack!Spec

\* The word that leaves the stack is the one that was on top: POP delivers
\* it to its register and RET continues at it (vm.c: exec_pop, exec_ret).
PopDeliversTop ==
  [][last_call' = "vm_step" /\ depth' = depth - 1 =>
       \/ fetched.opcode = OP_RET /\ pc' = live_stack[depth]
       \/ fetched.opcode = OP_POP /\ r'[fetched.op1.value]
                                        = live_stack[depth]]_vars
=============================================================================
