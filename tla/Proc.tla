--------------------------------- MODULE Proc ---------------------------------
(***************************************************************************)
(* Processes: proc/proc.c, the trap path of intr/ and the exceptions, on   *)
(* top of the kernel heap (KHeap) and of the lower half of the address     *)
(* space, which every page map made by vmm_make_pml4 shares.               *)
(*                                                                         *)
(* There is one CPU; the kernel runs with interrupts off from the trap to  *)
(* the return to user mode, so each trap is one step.  A process is named  *)
(* by its place in the order of creation.                                  *)
(***************************************************************************)
EXTENDS KHeap

CONSTANTS ProcSize,     \* sizeof(process_t)
          KStackSize,   \* the 0x1000 make_process asks for
          PhdrSize,     \* what elf_load asks for
          BootSizes     \* the requests made before proc_init, in order

ASSUME ProcAssumption ==
    /\ BootSizes \in Seq(Nat)
    /\ \A s \in {ProcSize, KStackSize, PhdrSize} \cup {BootSizes[i] : i \in DOMAIN BootSizes} :
          s \in Nat \ {0} /\ HeapSize + s < Word

WILD == -1              \* a pointer read from memory nobody initialised
Image == {"valid", "bad"}   \* what the initrd holds under the given name

VARIABLES heap,      \* the kernel heap
          booted,    \* how many of the boot's requests were made
          procs,     \* the process_t's, in order of creation
          base,      \* process_queue_base
          head,      \* process_queue_head: the end of the queue
          running,   \* running_process
          tss0,      \* the kernel stack rsp0 of the TSS points into
          cr3,       \* whose page map is loaded
          regs,      \* whose computation the registers belong to
          ip,        \* whose program the CPU executes in user mode
          stackAt,   \* whose frame is mapped at PROC_U_STACK_START
          textAt,    \* whose program is mapped at the link address
          status     \* "boot", "user", "panic", "halted" or "lost"

cpu  == <<tss0, cr3, regs, ip>>
low  == <<stackAt, textAt>>
queue == <<base, head, running>>
vars == <<heap, booted, procs, queue, cpu, low, status>>

Init == /\ heap = create_heap /\ booted = 0
        /\ procs = <<>> /\ base = NULL /\ head = NULL /\ running = NULL
        /\ tss0 = NULL /\ cr3 = NULL /\ regs = NULL /\ ip = NULL
        /\ stackAt = NULL /\ textAt = NULL
        /\ status = "boot"

\* The requests of write_tss, vfs_init and tmpfs_init.  A NULL is caught by an
\* ASSERT, or written through: the boot ends there.
boot_request ==
    LET r == Try(heap, BootSizes[booted + 1])
    IN  /\ status = "boot" /\ booted < Len(BootSizes)
        /\ heap' = r.heap
        /\ booted' = booted + 1
        /\ status' = IF r.ptr = NULL THEN "panic" ELSE "boot"
        /\ UNCHANGED <<procs, queue, cpu, low>>
-----------------------------------------------------------------------------
(* make_process                                                            *)

\* `next' is not assigned.  Heap pages are zeroed when mapped, so it reads as
\* NULL inside the heap; a process_t beyond the heap's end may hold anything.
Uninitialised(h, p) == IF DataEnd(h, p) <= HeapSize THEN {NULL} ELSE {NULL, WILD}

Fresh(kstack, next) == [kstack |-> kstack, next |-> next, tf |-> NULL]

\* The two requests of make_process: the process_t and its kernel stack.
ForProc == Try(heap, ProcSize)
\* Slip: the request is for a byte.
ForStack_small == Try(ForProc.heap, 1)
ForStack == Try(ForProc.heap, KStackSize)

new == Len(procs) + 1

\* Slip: the old head is not linked to the new process.
Linked_loose(next) == Append(procs, Fresh(ForStack.ptr, next))

\* The new process goes to the end of the queue, or is the queue.
Linked(next) ==
    IF base = NULL THEN <<Fresh(ForStack.ptr, next)>>
    ELSE Append([procs EXCEPT ![head].next = new], Fresh(ForStack.ptr, next))

\* Slips: the process is not entered in the queue; only the first process gets
\* a user stack.
make_process_unlinked ==
    /\ ForProc.ptr # NULL
    /\ procs' = procs
    /\ base' = IF base = NULL THEN new ELSE base
    /\ head' = new
    /\ stackAt' = new

make_process_first_stack ==
    /\ ForProc.ptr # NULL
    /\ \E next \in Uninitialised(ForProc.heap, ForProc.ptr) : procs' = Linked(next)
    /\ base' = IF base = NULL THEN new ELSE base
    /\ head' = new
    /\ stackAt' = IF base = NULL THEN new ELSE stackAt

\* The process_t was granted.  The page map is a copy of the root's, so its
\* tables for user addresses are everybody's: the new stack replaces the old.
make_process ==
    /\ ForProc.ptr # NULL
    /\ \E next \in Uninitialised(ForProc.heap, ForProc.ptr) : procs' = Linked(next)
    /\ base' = IF base = NULL THEN new ELSE base
    /\ head' = new
    /\ stackAt' = new

\* A NULL is written through, or the page map, the stack or the program gets no
\* frame: the page fault handler prints and halts with interrupts off.
halt == /\ status' = "halted"
        /\ UNCHANGED <<heap, booted, procs, queue, cpu, low>>
-----------------------------------------------------------------------------
(* elf_load, proc_init, launch_exec                                        *)

\* elf_load maps the program where every program is linked, in the shared part.
ForPhdrs == Try(ForStack.heap, PhdrSize)
Loads(image) == image = "valid" /\ ForPhdrs.ptr # NULL

\* rsp0, CR3 and the switch to user mode.  The registers are leftovers.
enter_ring3 ==
    /\ tss0' = ForStack.ptr
    /\ cr3' = new
    /\ running' = new
    /\ ip' = new
    /\ regs' = NULL

Start == /\ make_process
         /\ heap' = ForPhdrs.heap
         /\ textAt' = new
         /\ UNCHANGED booted
         /\ enter_ring3
         /\ status' = "user"

proc_init(image) ==
    /\ status = "boot" /\ booted = Len(BootSizes)
    /\ \/ ForProc.ptr # NULL /\ Loads(image) /\ Start
       \/ ForProc.ptr # NULL /\ image = "bad"      \* ASSERT(rip != 0)
          /\ status' = "panic"
          /\ UNCHANGED <<heap, booted, procs, queue, cpu, low>>
       \/ halt

\* SYSCALL 2.  Neither the caller's registers nor its return address are kept,
\* and a NULL from elf_load is entered: the first fetch faults.
launch_exec(image) ==
    /\ status = "user" /\ tss0 # NULL
    /\ \/ ForProc.ptr # NULL /\ Loads(image) /\ Start
       \/ halt
-----------------------------------------------------------------------------
(* The timer interrupt: trap_entry, trap, task_sched                       *)

\* Slip: the end of the queue is not followed by its base.
Successor_stuck == IF procs[running].next # NULL THEN procs[running].next ELSE running

Successor == IF procs[running].next # NULL THEN procs[running].next ELSE base

\* Slip: the TSS keeps the old process's kernel stack.
task_sched_stale_tss ==
    /\ status = "user" /\ tss0 # NULL
    /\ Successor # WILD
    /\ procs' = [procs EXCEPT ![running].tf = regs]
    /\ running' = Successor
    /\ regs' = procs'[Successor].tf
    /\ cr3' = Successor
    /\ UNCHANGED <<heap, booted, base, head, tss0, ip, low, status>>

\* Slip: the next process's registers are loaded before the old ones are saved.
task_sched_load_first ==
    /\ status = "user" /\ tss0 # NULL
    /\ Successor # WILD
    /\ procs' = [procs EXCEPT ![running].tf = regs]
    /\ running' = Successor
    /\ regs' = procs[Successor].tf
    /\ tss0' = procs[Successor].kstack
    /\ cr3' = Successor
    /\ UNCHANGED <<heap, booted, base, head, ip, low, status>>

\* Registers, rsp0 and CR3 move to the next process.  The return address on the
\* stack does not: iretq resumes the program that was interrupted.
task_sched ==
    /\ status = "user" /\ tss0 # NULL
    /\ Successor # WILD
    /\ procs' = [procs EXCEPT ![running].tf = regs]
    /\ running' = Successor
    /\ regs' = procs'[Successor].tf
    /\ tss0' = procs[Successor].kstack
    /\ cr3' = Successor
    /\ UNCHANGED <<heap, booted, base, head, ip, low, status>>

\* The scheduler follows a pointer nobody set.  Nothing is said of what follows.
task_sched_wild ==
    /\ status = "user" /\ tss0 # NULL
    /\ Successor = WILD
    /\ status' = "lost"
    /\ UNCHANGED <<heap, booted, procs, queue, cpu, low>>

\* With rsp0 = 0 + KSTACK_SIZE/2 the CPU cannot push the trap's frame.
trap_without_stack == status = "user" /\ tss0 = NULL /\ halt

\* A user program faults; every exception handler halts.
exception == status = "user" /\ halt

\* The program computes.
user_step == /\ status = "user"
             /\ regs' = ip
             /\ UNCHANGED <<heap, booted, procs, queue, tss0, cr3, ip, low, status>>

\* IRQ 0, and the syscalls' way in as far as it is the same.
timer == task_sched \/ task_sched_wild \/ trap_without_stack

Next == \/ boot_request
        \/ \E image \in Image : proc_init(image) \/ launch_exec(image)
        \/ timer
        \/ exception
        \/ user_step

\* The PIT keeps firing, and user mode cannot mask it (IF is set on entry).
Spec == Init /\ [][Next]_vars /\ WF_vars(timer)
-----------------------------------------------------------------------------
(* Properties                                                              *)

Names == 1 .. Len(procs)

\* Every variable keeps its type.
TypeOK ==
    /\ heap \in Heap /\ booted \in 0 .. Len(BootSizes)
    /\ procs \in Seq([kstack : Nat, next : Nat \cup {WILD}, tf : Nat])
    /\ {base, head, running, cr3, regs, ip, stackAt, textAt} \subseteq Names \cup {NULL}
    /\ tss0 \in Nat
    /\ status \in {"boot", "user", "panic", "halted", "lost"}

\* The next trap pushes its frame on the kernel stack of the process that the
\* kernel takes for the running one, in that process's page map.
CpuMatchesRunning ==
    status = "user" => /\ running \in Names
                       /\ tss0 = procs[running].kstack
                       /\ cr3 = running

\* Following `next' from the base meets every process once and ends at the head.
QueueIsComplete ==
    status = "user" => /\ base = 1 /\ head = Len(procs)
                       /\ \A p \in Names \ {head} : procs[p].next = p + 1
                       /\ procs[head].next \in {NULL, WILD}

\* No two processes share a kernel stack, and only the newest one can be
\* without: the first trap it takes is the machine's last.
KernelStacksArePrivate ==
    status = "user" =>
        /\ \A p, q \in Names : p # q => procs[p].kstack # procs[q].kstack
        /\ \A p \in Names \ {head} : procs[p].kstack # NULL
        /\ \A p \in Names : procs[p].kstack # NULL =>
              heap.blocks[procs[p].kstack].size = KStackSize

\* Launching is a one-way street: whoever the scheduler believes to be running,
\* the CPU executes the newest program, on the newest user stack.
NewestProgramRuns == status = "user" => ip = head /\ textAt = head /\ stackAt = head

\* While there is one process, no interrupt disturbs its registers: they change
\* only by its own computing.
AloneUndisturbed ==
    [][Len(procs) = 1 /\ Len(procs') = 1 /\ regs' # regs => regs' = ip]_vars

\* Every process becomes the running one again and again, as long as the
\* machine is alive.
EverybodyScheduled ==
    \A p \in 1 .. HeapSize :
        (status = "user" /\ p \in Names) ~> (running = p \/ status # "user")
-----------------------------------------------------------------------------
(* What the comments promise                                               *)

\* task_sched: "switch tasks, address space, TSS's rsp0": the CPU executes the
\* process that was switched to.
CpuExecutesRunning == status = "user" => ip = running
=============================================================================
