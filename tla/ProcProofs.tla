------------------------------ MODULE ProcProofs ------------------------------
(***************************************************************************)
(* Proofs about processes: for every size of the heap, of a process_t and  *)
(* of a kernel stack, and every sequence of launches, traps and faults.    *)
(* Then about how their programs come into memory and what they print:     *)
(* for every archive, every image and every int.                         *)
(***************************************************************************)
EXTENDS Proc, Numbers, Programs, KHeapProofs, SequenceTheorems, WellFoundedInduction

Process == [kstack : Nat, next : Nat \cup {WILD}, tf : Nat]

\* The queue is the processes in order of creation.
InOrder(ps) == /\ \A p \in 1 .. Len(ps) - 1 : ps[p].next = p + 1
               /\ ps[Len(ps)].next \in {NULL, WILD}

\* Kernel stacks are blocks of the heap of the right size, and no two are one.
StacksApart(ps, h) ==
    /\ \A p \in 1 .. Len(ps) : ps[p].kstack # NULL =>
          /\ ps[p].kstack \in DOMAIN h.blocks
          /\ h.blocks[ps[p].kstack].size = KStackSize
    /\ \A p, q \in 1 .. Len(ps) : p # q => ps[p].kstack # ps[q].kstack
    /\ \A p \in 1 .. Len(ps) - 1 : ps[p].kstack # NULL

\* A process without a kernel stack is the newest, and it runs: its rsp0 lets no
\* trap into the kernel, so that nobody is scheduled or launched after it.
Stackless == procs[head].kstack = NULL => running = head

\* A saved context is the computation of some process, or what there was before.
Contexts(ps) == \A p \in 1 .. Len(ps) : ps[p].tf \in 0 .. Len(ps)

\* While user programs run.
Live == /\ procs # <<>> /\ base = 1 /\ head = Len(procs)
        /\ InOrder(procs)
        /\ StacksApart(procs, heap) /\ Contexts(procs)
        /\ running \in Names /\ tss0 = procs[running].kstack /\ cr3 = running
        /\ ip = head /\ textAt = head /\ stackAt = head
        /\ Stackless

IInv == /\ TypeOK
        /\ WellFormed(heap)
        /\ status = "boot" => procs = <<>> /\ base = NULL
        /\ status = "user" => Live

LEMMA Requests ==
  /\ ProcSize \in Nat /\ HeapSize + ProcSize < Word
  /\ KStackSize \in Nat /\ HeapSize + KStackSize < Word
  /\ PhdrSize \in Nat /\ HeapSize + PhdrSize < Word
  /\ \A i \in DOMAIN BootSizes : BootSizes[i] \in Nat /\ HeapSize + BootSizes[i] < Word
<1>1. \A s \in {ProcSize, KStackSize, PhdrSize} \cup {BootSizes[i] : i \in DOMAIN BootSizes} :
         s \in Nat /\ HeapSize + s < Word
  BY ProcAssumption
<1> QED BY <1>1

\* The three requests of a launch: the heap grows, and the kernel stack, if it is
\* granted, is a block that was not there.
LEMMA LaunchRequests ==
  ASSUME WellFormed(heap)
  PROVE  /\ WellFormed(ForPhdrs.heap)
         /\ Extends(ForPhdrs.heap, heap)
         /\ ForStack.ptr \in Nat
         /\ ForStack.ptr # NULL =>
               /\ ForStack.ptr \in DOMAIN ForPhdrs.heap.blocks
               /\ ForStack.ptr \notin DOMAIN heap.blocks
               /\ ForPhdrs.heap.blocks[ForStack.ptr].size = KStackSize
<1> DEFINE a == ForProc.heap
           b == ForStack.heap
           c == ForPhdrs.heap
           s == ForStack.ptr
<1>1. WellFormed(a) /\ Extends(a, heap)
  BY TryProperties, Requests DEF ForProc
<1>2. /\ WellFormed(b) /\ Extends(b, a) /\ s \in Nat
      /\ s # NULL => s \in DOMAIN b.blocks /\ s \notin DOMAIN a.blocks /\ b.blocks[s].size = KStackSize
  <2>1. ForStack = Try(a, KStackSize)
    BY DEF ForStack
  <2> HIDE DEF a
  <2> QED BY <1>1, <2>1, TryProperties, Requests
<1>3. WellFormed(c) /\ Extends(c, b)
  BY <1>2, TryProperties, Requests DEF ForPhdrs
<1> HIDE DEF a, b, c, s
<1> QED BY <1>1, <1>2, <1>3 DEF Extends, a, b, c, s

\* What boot and a launch both do, in either of make_process's two cases.
LEMMA StartIsSafe ==
  ASSUME IInv, Start,
         \/ base = NULL /\ procs = <<>>
         \/ base # NULL /\ Live /\ tss0 # NULL
  PROVE  IInv'
<1> DEFINE k == ForStack.ptr
           n == Len(procs)
<1>1. /\ WellFormed(heap) /\ procs \in Seq(Process)
      /\ booted \in 0 .. Len(BootSizes)
  BY DEF IInv, TypeOK, Process
<1>2. /\ WellFormed(ForPhdrs.heap) /\ Extends(ForPhdrs.heap, heap)
      /\ k \in Nat
      /\ k # NULL => /\ k \in DOMAIN ForPhdrs.heap.blocks
                     /\ k \notin DOMAIN heap.blocks
                     /\ ForPhdrs.heap.blocks[k].size = KStackSize
  BY <1>1, LaunchRequests
<1>3. n \in Nat /\ new = n + 1
  BY <1>1 DEF new
<1>4. /\ heap' = ForPhdrs.heap /\ booted' = booted /\ status' = "user"
      /\ tss0' = k /\ cr3' = new /\ running' = new /\ ip' = new /\ regs' = NULL
      /\ textAt' = new /\ stackAt' = new /\ head' = new
      /\ base' = IF base = NULL THEN new ELSE base
  BY DEF Start, make_process, enter_ring3
<1>5. PICK x \in {NULL, WILD} : procs' = Linked(x)
  BY DEF Start, make_process, Uninitialised
<1> DEFINE f == Fresh(k, x)
<1>6. f = [kstack |-> k, next |-> x, tf |-> NULL] /\ f \in Process
  BY <1>2 DEF Fresh, Process, NULL
<1> HIDE DEF f, k
<1>7. /\ procs' \in Seq(Process) /\ Len(procs') = n + 1
      /\ procs'[n + 1] = f
      /\ \A p \in 1 .. n : /\ procs'[p].kstack = procs[p].kstack
                           /\ procs'[p].tf = procs[p].tf
                           /\ procs'[p].next = IF p = n THEN n + 1 ELSE procs[p].next
      /\ base' = 1
  <2>1. CASE base = NULL /\ procs = <<>>
    <3>1. procs' = <<f>>
      BY <2>1, <1>5 DEF Linked, f, k
    <3>2. n = 0
      BY <2>1
    <3> QED BY <2>1, <3>1, <3>2, <1>3, <1>4, <1>6
  <2>2. CASE base # NULL /\ Live
    <3>1. head = n /\ n \in 1 .. n /\ base = 1
      BY <2>2, <1>1 DEF Live
    <3> DEFINE ps == [procs EXCEPT ![n].next = n + 1]
    <3>2. procs' = Append(ps, f)
      BY <2>2, <3>1, <1>3, <1>5 DEF Linked, f, k
    <3>3. procs[n] \in Process /\ n + 1 \in Nat
      BY <3>1, <1>1
    <3>4. [procs[n] EXCEPT !.next = n + 1] \in Process
      BY <3>3 DEF Process
    <3>5. /\ ps \in Seq(Process) /\ Len(ps) = n
          /\ \A p \in 1 .. n : /\ ps[p].kstack = procs[p].kstack
                               /\ ps[p].tf = procs[p].tf
                               /\ ps[p].next = IF p = n THEN n + 1 ELSE procs[p].next
      BY <3>1, <3>3, <3>4, <1>1 DEF Process
    <3> HIDE DEF ps
    <3>6. /\ procs' \in Seq(Process) /\ Len(procs') = n + 1
          /\ procs'[n + 1] = f
          /\ \A p \in 1 .. n : procs'[p] = ps[p]
      BY <3>2, <3>5, <1>3, <1>6
    <3> QED BY <3>1, <3>5, <3>6, <2>2, <1>4
  <2> QED BY <2>1, <2>2
<1>8. Len(procs') - 1 = n /\ n + 1 \in 1 .. n + 1 /\ 1 .. n + 1 = (1 .. n) \cup {n + 1}
  BY <1>3, <1>7
<1>9. InOrder(procs)'
  <2>1. \A p \in 1 .. n : procs'[p].next = p + 1
    <3>1. CASE procs = <<>>
      BY <3>1
    <3>2. CASE Live
      <4>1. \A p \in 1 .. n : p # n => p \in 1 .. n - 1
        BY <1>3
      <4>2. \A p \in 1 .. n - 1 : procs[p].next = p + 1
        BY <3>2 DEF Live, InOrder
      <4> QED BY <4>1, <4>2, <1>7
    <3> QED BY <3>1, <3>2
  <2>2. procs'[n + 1].next \in {NULL, WILD}
    BY <1>6, <1>7
  <2> QED BY <2>1, <2>2, <1>7, <1>8 DEF InOrder
<1>10. StacksApart(procs, heap)'
  <2>1. \A p \in 1 .. n : /\ procs[p].kstack # NULL
                          /\ procs[p].kstack \in DOMAIN heap.blocks
                          /\ heap.blocks[procs[p].kstack].size = KStackSize
    <3>1. CASE procs = <<>>
      BY <3>1
    <3>2. CASE Live /\ tss0 # NULL
      <4>1. /\ \A p \in 1 .. n : procs[p].kstack # NULL =>
                  /\ procs[p].kstack \in DOMAIN heap.blocks
                  /\ heap.blocks[procs[p].kstack].size = KStackSize
            /\ \A p \in 1 .. n - 1 : procs[p].kstack # NULL
        BY <3>2 DEF Live, StacksApart
      <4>2. procs[n].kstack # NULL
        BY <3>2 DEF Live, Stackless
      <4>3. \A p \in 1 .. n : p = n \/ p \in 1 .. n - 1
        BY <1>3
      <4> QED BY <4>1, <4>2, <4>3
    <3> QED BY <3>1, <3>2
  <2>2. \A p \in 1 .. n : /\ procs'[p].kstack # NULL
                          /\ procs'[p].kstack \in DOMAIN heap.blocks
                          /\ procs'[p].kstack \in DOMAIN heap'.blocks
                          /\ heap'.blocks[procs'[p].kstack].size = KStackSize
    BY <2>1, <1>2, <1>4, <1>7 DEF Extends
  <2>3. procs'[n + 1].kstack = k
    BY <1>6, <1>7
  <2>4. \A p, q \in 1 .. n : p # q => procs'[p].kstack # procs'[q].kstack
    <3>1. CASE procs = <<>>
      BY <3>1
    <3>2. CASE Live
      <4>1. \A p, q \in 1 .. n : p # q => procs[p].kstack # procs[q].kstack
        BY <3>2 DEF Live, StacksApart
      <4> QED BY <4>1, <1>7
    <3> QED BY <3>1, <3>2
  <2>5. \A p \in 1 .. n : procs'[p].kstack # k
    BY <2>2, <1>2
  <2>6. /\ k # NULL => k \in DOMAIN heap'.blocks /\ heap'.blocks[k].size = KStackSize
    BY <1>2, <1>4
  <2>7. \A p, q \in 1 .. n + 1 : p # q => procs'[p].kstack # procs'[q].kstack
    BY <2>3, <2>4, <2>5, <1>8
  <2>8. \A p \in 1 .. n + 1 : procs'[p].kstack # NULL =>
           /\ procs'[p].kstack \in DOMAIN heap'.blocks
           /\ heap'.blocks[procs'[p].kstack].size = KStackSize
    BY <2>2, <2>3, <2>6, <1>8
  <2>9. \A p \in 1 .. n : procs'[p].kstack # NULL
    BY <2>2
  <2> QED BY <2>7, <2>8, <2>9, <1>7, <1>8 DEF StacksApart
<1>c. Contexts(procs)'
  <2>1. \A p \in 1 .. n : procs'[p].tf \in 0 .. n + 1
    <3>1. CASE procs = <<>>
      BY <3>1
    <3>2. CASE Live
      <4>1. \A p \in 1 .. n : procs[p].tf \in 0 .. n
        BY <3>2 DEF Live, Contexts
      <4> QED BY <4>1, <1>3, <1>7
    <3> QED BY <3>1, <3>2
  <2>2. procs'[n + 1].tf = 0
    BY <1>6, <1>7 DEF NULL
  <2>3. Len(procs') = n + 1 /\ 0 \in 0 .. n + 1
    BY <1>3, <1>7
  <2>4. \A p \in 1 .. n + 1 : p \in 1 .. n \/ p = n + 1
    BY <1>8
  <2> HIDE DEF n
  <2>5. \A p \in 1 .. n + 1 : procs'[p].tf \in 0 .. n + 1
    BY <2>1, <2>2, <2>3, <2>4
  <2> QED BY <2>3, <2>5 DEF Contexts
<1>11. Live'
  <2>1. procs' # <<>>
    BY <1>3, <1>7
  <2>2. running' \in Names' /\ tss0' = procs'[running'].kstack
    <3>1. running' = n + 1 /\ tss0' = k /\ Len(procs') = n + 1
      BY <1>3, <1>4, <1>7
    <3>2. procs'[n + 1].kstack = k
      BY <1>6, <1>7
    <3> QED BY <3>1, <3>2, <1>8 DEF Names
  <2>3. head' = Len(procs') /\ base' = 1
    BY <1>3, <1>4, <1>7
  <2> QED BY <2>1, <2>2, <2>3, <1>3, <1>4, <1>9, <1>10, <1>c DEF Live, Stackless
<1>12. TypeOK'
  <2>1. heap' \in Heap
    BY <1>2, <1>4 DEF WellFormed
  <2>2. {base, head, running, cr3, regs, ip, stackAt, textAt}' \subseteq Names' \cup {NULL}
    <3>1. /\ base' = 1 /\ head' = n + 1 /\ running' = n + 1 /\ cr3' = n + 1 /\ regs' = NULL
          /\ ip' = n + 1 /\ stackAt' = n + 1 /\ textAt' = n + 1
      BY <1>3, <1>4, <1>7
    <3>2. Names' = 1 .. n + 1
      BY <1>8 DEF Names
    <3>3. 1 \in Names' /\ n + 1 \in Names'
      BY <1>3, <3>2
    <3> QED BY <3>1, <3>3
  <2> QED BY <2>1, <2>2, <1>1, <1>2, <1>4, <1>7 DEF TypeOK, Process
<1> QED BY <1>2, <1>4, <1>11, <1>12 DEF IInv

LEMMA InitEstablishesIInv == Init => IInv
<1> SUFFICES ASSUME Init PROVE IInv
  OBVIOUS
<1>1. /\ heap = create_heap /\ booted = 0 /\ procs = <<>> /\ status = "boot"
      /\ base = 0 /\ head = 0 /\ running = 0 /\ tss0 = 0 /\ cr3 = 0 /\ regs = 0
      /\ ip = 0 /\ stackAt = 0 /\ textAt = 0
  BY DEF Init, NULL
<1>2. WellFormed(heap) /\ heap \in Heap
  BY <1>1, CreatedIsWellFormed DEF WellFormed
<1>3. 0 \in 0 .. Len(BootSizes)
  BY ProcAssumption
<1>4. TypeOK
  BY <1>1, <1>2, <1>3 DEF TypeOK, NULL
<1> QED BY <1>1, <1>2, <1>4 DEF IInv, NULL

\* Where the machine stops nothing else changes.
LEMMA StopIsSafe ==
  ASSUME IInv, status' \in {"halted", "lost", "panic"},
         UNCHANGED <<heap, booted, procs, queue, cpu, low>>
  PROVE  IInv'
<1>1. TypeOK'
  BY DEF IInv, TypeOK, queue, cpu, low, Names
<1>2. WellFormed(heap)'
  BY DEF IInv
<1> QED BY <1>1, <1>2 DEF IInv

LEMMA BootRequestIsSafe ==
  ASSUME IInv, boot_request
  PROVE  IInv'
<1> DEFINE r == Try(heap, BootSizes[booted + 1])
<1>1. /\ status = "boot" /\ booted < Len(BootSizes) /\ heap' = r.heap /\ booted' = booted + 1
      /\ status' \in {"boot", "panic"}
      /\ UNCHANGED <<procs, queue, cpu, low>>
  BY DEF boot_request
<1>2. booted \in Nat /\ Len(BootSizes) \in Nat /\ booted + 1 \in DOMAIN BootSizes
  BY <1>1, ProcAssumption DEF IInv, TypeOK
<1>3. WellFormed(r.heap)
  BY <1>2, TryProperties, Requests DEF IInv
<1> HIDE DEF r
<1>4. TypeOK'
  BY <1>1, <1>2, <1>3 DEF IInv, TypeOK, queue, cpu, low, Names, WellFormed
<1> QED BY <1>1, <1>3, <1>4 DEF IInv, queue

\* The scheduler's next process is a process, the only one if there is one.
LEMMA SuccessorIsQueued ==
  ASSUME IInv, status = "user", Successor # WILD
  PROVE  Successor \in Names /\ (Len(procs) = 1 => Successor = 1)
<1>1. /\ Live /\ procs \in Seq(Process)
      /\ running \in 1 .. Len(procs)
  BY DEF IInv, TypeOK, Process, Live, Names
<1>2. CASE running = Len(procs)
  <2>1. procs[running].next \in {NULL, WILD} /\ base = 1
    BY <1>1, <1>2 DEF Live, InOrder
  <2>2. Successor = 1
    BY <2>1 DEF Successor, NULL, WILD
  <2> QED BY <2>2, <1>1 DEF Names
<1>3. CASE running # Len(procs)
  <2>0. Len(procs) \in Nat /\ running \in Nat
    BY <1>1
  <2>1. running \in 1 .. Len(procs) - 1
    BY <1>1, <1>3, <2>0
  <2>2. procs[running].next = running + 1
    BY <1>1, <2>1 DEF Live, InOrder
  <2>3. running + 1 \in 1 .. Len(procs) /\ running + 1 # 0 /\ Len(procs) # 1
    <3> DEFINE n == Len(procs)
    <3>1. n \in Nat /\ running \in Nat /\ running \in 1 .. n - 1
      BY <2>0, <2>1
    <3> HIDE DEF n
    <3>2. running + 1 \in 1 .. n /\ running + 1 # 0 /\ n # 1
      BY <3>1
    <3> QED BY <3>2 DEF n
  <2>4. Successor = running + 1
    BY <2>2, <2>3 DEF Successor, NULL
  <2> QED BY <2>3, <2>4 DEF Names
<1> QED BY <1>2, <1>3

\* What task_sched does to the processes: one saved context.
LEMMA SavedContext ==
  ASSUME IInv, task_sched
  PROVE  /\ procs' \in Seq(Process) /\ Len(procs') = Len(procs)
         /\ \A p \in 1 .. Len(procs) : /\ procs'[p].kstack = procs[p].kstack
                                       /\ procs'[p].next = procs[p].next
                                       /\ procs'[p].tf \in 0 .. Len(procs)
                                       /\ procs'[p].tf = IF p = running THEN regs ELSE procs[p].tf
<1>1. /\ status = "user" /\ procs' = [procs EXCEPT ![running].tf = regs]
  BY DEF task_sched
<1>2. /\ Live /\ procs \in Seq(Process)
      /\ running \in 1 .. Len(procs) /\ regs \in (1 .. Len(procs)) \cup {0}
  BY <1>1 DEF IInv, TypeOK, Process, Live, Names, NULL
<1>r. regs \in Nat /\ regs \in 0 .. Len(procs)
  <2>1. Len(procs) \in Nat
    BY <1>2
  <2> QED BY <1>2, <2>1
<1>3. procs[running] \in Process /\ [procs[running] EXCEPT !.tf = regs] \in Process
  <2>1. procs[running] \in Process
    BY <1>2
  <2> QED BY <2>1, <1>r DEF Process
<1>4. /\ procs' \in Seq(Process) /\ Len(procs') = Len(procs)
      /\ \A p \in 1 .. Len(procs) :
            procs'[p] = IF p = running THEN [procs[p] EXCEPT !.tf = regs] ELSE procs[p]
  BY <1>1, <1>2, <1>3
<1>5. \A p \in 1 .. Len(procs) : procs[p] \in Process
  BY <1>2
<1>6. \A p \in 1 .. Len(procs) : procs[p].tf \in 0 .. Len(procs)
  BY <1>2 DEF Live, Contexts
<1> QED BY <1>2, <1>r, <1>4, <1>5, <1>6 DEF Process

LEMMA SwitchIsSafe ==
  ASSUME IInv, task_sched
  PROVE  IInv'
<1>1. /\ status = "user" /\ tss0 # NULL /\ Successor # WILD
      /\ running' = Successor /\ regs' = procs'[Successor].tf
      /\ tss0' = procs[Successor].kstack /\ cr3' = Successor
      /\ UNCHANGED <<heap, booted, base, head, ip, low, status>>
  BY DEF task_sched
<1>2. Live /\ procs \in Seq(Process) /\ Successor \in Names
  BY <1>1, SuccessorIsQueued DEF IInv, TypeOK, Process
<1>3. /\ procs' \in Seq(Process) /\ Len(procs') = Len(procs)
      /\ \A p \in 1 .. Len(procs) : /\ procs'[p].kstack = procs[p].kstack
                                    /\ procs'[p].next = procs[p].next
                                    /\ procs'[p].tf \in 0 .. Len(procs)
  BY SavedContext
<1>4. Len(procs) \in Nat /\ Len(procs) # 0
  BY <1>2 DEF Live
<1>5. head = Len(procs) /\ head \in 1 .. Len(procs)
  BY <1>2, <1>4 DEF Live
<1>6. InOrder(procs)'
  <2>1. \A p \in 1 .. Len(procs) - 1 : p \in 1 .. Len(procs)
    BY <1>4
  <2> QED BY <1>2, <1>3, <1>5, <2>1 DEF Live, InOrder
<1>7. StacksApart(procs, heap)'
  <2>1. \A p \in 1 .. Len(procs) - 1 : p \in 1 .. Len(procs)
    BY <1>4
  <2> QED BY <1>1, <1>2, <1>3, <2>1 DEF Live, StacksApart
<1>8. procs[head].kstack # NULL
  BY <1>1, <1>2 DEF Live, Stackless
<1>c. Contexts(procs)'
  BY <1>3 DEF Contexts
<1>9. Live'
  BY <1>1, <1>2, <1>3, <1>4, <1>5, <1>6, <1>7, <1>8, <1>c DEF Live, Stackless, Names, low
<1>10. regs' \in Names' \cup {NULL}
  BY <1>1, <1>2, <1>3, <1>4 DEF Names, NULL
<1>11. tss0' \in Nat
  <2>1. procs[Successor] \in Process
    BY <1>2 DEF Names
  <2> QED BY <1>1, <2>1 DEF Process
<1>12. TypeOK'
  <2>1. {base, head, running, cr3, regs, ip, stackAt, textAt}' \subseteq Names' \cup {NULL}
    BY <1>1, <1>2, <1>3, <1>10 DEF IInv, TypeOK, Names, low
  <2> QED BY <1>1, <1>3, <1>11, <2>1 DEF IInv, TypeOK, Process
<1> QED BY <1>1, <1>9, <1>12 DEF IInv

LEMMA StepPreservesIInv ==
  ASSUME IInv, [Next]_vars
  PROVE  IInv'
<1>1. CASE boot_request
  BY <1>1, BootRequestIsSafe
<1>2. CASE \E img \in Image : proc_init(img)
  <2>1. PICK img \in Image : proc_init(img)
    BY <1>2
  <2>2. status = "boot" /\ procs = <<>> /\ base = NULL
    BY <2>1 DEF proc_init, IInv
  <2>3. CASE Start
    BY <2>2, <2>3, StartIsSafe
  <2>4. CASE ~ Start
    BY <2>1, <2>4, StopIsSafe DEF proc_init, halt
  <2> QED BY <2>3, <2>4
<1>3. CASE \E img \in Image : launch_exec(img)
  <2>1. PICK img \in Image : launch_exec(img)
    BY <1>3
  <2>2. status = "user" /\ tss0 # NULL /\ Live /\ base # NULL
    BY <2>1 DEF launch_exec, IInv, Live, NULL
  <2>3. CASE Start
    BY <2>2, <2>3, StartIsSafe
  <2>4. CASE ~ Start
    BY <2>1, <2>4, StopIsSafe DEF launch_exec, halt
  <2> QED BY <2>3, <2>4
<1>4. CASE task_sched
  BY <1>4, SwitchIsSafe
<1>5. CASE task_sched_wild \/ trap_without_stack \/ exception
  BY <1>5, StopIsSafe DEF task_sched_wild, trap_without_stack, exception, halt
<1>6. CASE user_step
  <2>1. /\ status = "user" /\ regs' = ip
        /\ UNCHANGED <<heap, booted, procs, queue, tss0, cr3, ip, low, status>>
    BY <1>6 DEF user_step
  <2>2. TypeOK'
    BY <2>1 DEF IInv, TypeOK, queue, low, Names
  <2>3. Live'
    BY <2>1 DEF IInv, Live, Stackless, queue, low, Names
  <2> QED BY <2>1, <2>2, <2>3 DEF IInv
<1>7. CASE UNCHANGED vars
  <2>1. UNCHANGED <<heap, booted, procs, base, head, running, tss0, cr3, regs, ip, stackAt, textAt, status>>
    BY <1>7 DEF vars, queue, cpu, low
  <2>2. TypeOK'
    BY <2>1 DEF IInv, TypeOK, Names
  <2>3. status = "user" => Live'
    BY <2>1 DEF IInv, Live, Stackless, Names
  <2> QED BY <2>1, <2>2, <2>3 DEF IInv
<1> QED BY <1>1, <1>2, <1>3, <1>4, <1>5, <1>6, <1>7 DEF Next, timer

THEOREM InvariantHolds == Spec => []IInv
<1>1. Init => IInv
  BY InitEstablishesIInv
<1>2. IInv /\ [Next]_vars => IInv'
  BY StepPreservesIInv
<1> QED BY <1>1, <1>2, PTL DEF Spec
-----------------------------------------------------------------------------
\* The variables keep their types.
THEOREM TypeCorrect == Spec => []TypeOK
<1>1. IInv => TypeOK
  BY DEF IInv
<1> QED BY <1>1, InvariantHolds, PTL

\* rsp0, CR3 and running_process always speak of one process, whatever is
\* launched, interrupted or refused: the next trap spoils nobody's stack.
THEOREM CpuAgreesWithScheduler == Spec => []CpuMatchesRunning
<1>1. IInv => CpuMatchesRunning
  BY DEF IInv, Live, CpuMatchesRunning
<1> QED BY <1>1, InvariantHolds, PTL

\* The queue has every process, once, in order of creation.
THEOREM QueueStaysComplete == Spec => []QueueIsComplete
<1>1. IInv => QueueIsComplete
  <2> SUFFICES ASSUME IInv, status = "user" PROVE QueueIsComplete
    BY DEF QueueIsComplete
  <2>1. Live /\ procs \in Seq(Process)
    BY DEF IInv, TypeOK, Process
  <2>2. Len(procs) \in Nat /\ \A p \in 1 .. Len(procs) : p # Len(procs) => p \in 1 .. Len(procs) - 1
    BY <2>1
  <2> QED BY <2>1, <2>2 DEF Live, InOrder, QueueIsComplete, Names
<1> QED BY <1>1, InvariantHolds, PTL

\* Kernel stacks are private, and only the newest process can be without one.
THEOREM StacksStayPrivate == Spec => []KernelStacksArePrivate
<1>1. IInv => KernelStacksArePrivate
  <2> SUFFICES ASSUME IInv, status = "user" PROVE KernelStacksArePrivate
    BY DEF KernelStacksArePrivate
  <2>1. Live /\ procs \in Seq(Process)
    BY DEF IInv, TypeOK, Process
  <2>2. Len(procs) \in Nat /\ \A p \in 1 .. Len(procs) : p # Len(procs) => p \in 1 .. Len(procs) - 1
    BY <2>1
  <2> QED BY <2>1, <2>2 DEF Live, StacksApart, KernelStacksArePrivate, Names
<1> QED BY <1>1, InvariantHolds, PTL

\* Whoever is scheduled, the CPU executes the newest program.
THEOREM NewestAlwaysRuns == Spec => []NewestProgramRuns
<1>1. IInv => NewestProgramRuns
  BY DEF IInv, Live, NewestProgramRuns
<1> QED BY <1>1, InvariantHolds, PTL

\* An interrupt returns a lone process to its own registers.
THEOREM LoneProcessIsUndisturbed == Spec => AloneUndisturbed
<1>1. ASSUME IInv, [Next]_vars, Len(procs) = 1, Len(procs') = 1, regs' # regs
      PROVE  regs' = ip
  <2>1. CASE user_step
    BY <2>1 DEF user_step
  <2>2. CASE task_sched
    <3>1. /\ status = "user" /\ Successor # WILD /\ regs' = procs'[Successor].tf
      BY <2>2 DEF task_sched
    <3>2. Successor = 1 /\ running \in 1 .. 1
      BY <3>1, <1>1, SuccessorIsQueued DEF IInv, Live, Names
    <3>3. procs'[1].tf = regs
      BY <3>2, <2>2, <1>1, SavedContext
    <3> QED BY <3>1, <3>2, <3>3, <1>1
  <2>3. CASE UNCHANGED regs
    BY <2>3, <1>1
  <2>4. CASE \E img \in Image : proc_init(img)
    <3>1. status = "boot"
      BY <2>4 DEF proc_init
    <3>2. procs = <<>>
      BY <3>1, <1>1 DEF IInv
    <3>3. Len(procs) = 0
      BY <3>2
    <3> QED BY <3>3, <1>1
  <2>5. CASE \E img \in Image : launch_exec(img)
    <3>1. CASE Start
      <4>1. base # NULL /\ head = 1 /\ procs \in Seq(Process)
        BY <2>5, <1>1 DEF launch_exec, IInv, TypeOK, Live, Process, NULL
      <4>2. PICK x \in {NULL, WILD} : procs' = Linked(x)
        BY <3>1 DEF Start, make_process, Uninitialised
      <4>3. procs' = Append([procs EXCEPT ![head].next = new], Fresh(ForStack.ptr, x))
        BY <4>1, <4>2 DEF Linked
      <4> DEFINE ps == [procs EXCEPT ![head].next = new]
      <4>4. procs[1] \in Process /\ new \in Nat
        BY <4>1, <1>1 DEF new
      <4>5. [procs[1] EXCEPT !.next = new] \in Process
        BY <4>4 DEF Process
      <4>6. ps \in Seq(Process) /\ Len(ps) = 1
        BY <4>1, <4>5, <1>1
      <4> HIDE DEF ps
      <4> DEFINE p == Fresh(ForStack.ptr, x)
      <4>7. Len(Append(ps, p)) = 2
        <5> HIDE DEF p
        <5>1. ps \in Seq(Process \cup {p}) /\ p \in Process \cup {p}
          BY <4>6
        <5>2. Len(Append(ps, p)) = Len(ps) + 1
          BY <5>1
        <5> QED BY <4>6, <5>2
      <4> QED BY <4>3, <4>7, <1>1 DEF ps
    <3>2. CASE ~ Start
      BY <2>3, <2>5, <3>2 DEF launch_exec, halt, cpu
    <3> QED BY <3>1, <3>2
  <2>6. CASE boot_request \/ task_sched_wild \/ trap_without_stack \/ exception \/ UNCHANGED vars
    BY <2>3, <2>6 DEF boot_request, task_sched_wild, trap_without_stack, exception, halt, cpu, vars
  <2> QED BY <2>1, <2>2, <2>4, <2>5, <2>6, <1>1 DEF Next, timer
<1> QED BY <1>1, InvariantHolds, PTL DEF Spec, AloneUndisturbed
-----------------------------------------------------------------------------
(* Numbers                                                                 *)

\* A set of numbers that has 0 and with every number the next one has them all.
LEMMA CountingUp ==
  ASSUME NEW n \in Nat, NEW T, 0 \in T, \A i \in 1 .. n : i - 1 \in T => i \in T
  PROVE  \A i \in 0 .. n : i \in T
<1> SUFFICES ASSUME NEW x \in 0 .. n, x \notin T PROVE FALSE
  OBVIOUS
<1>1. PICK M : M = {i \in 0 .. n : i \notin T}
  OBVIOUS
<1>2. M \subseteq Nat /\ M # {}
  BY <1>1
<1>3. PICK k \in M : \A j \in M : ~ (<<j, k>> \in OpToRel(<, Nat))
  BY <1>2, WFMin, NatLessThanWellFounded, Zenon
<1>4. k \in 1 .. n /\ k \notin T /\ k - 1 \in 0 .. n
  BY <1>1
<1>5. k - 1 \in M
  BY <1>1, <1>4
<1>6. <<k - 1, k>> \in OpToRel(<, Nat)
  BY <1>4 DEF OpToRel
<1> QED BY <1>3, <1>5, <1>6, Zenon

\* What makes a loop over 1 .. n a function: it computes each value from the
\* last one and stays within S.
Passes(S, G, x, n) == {g \in [0 .. n -> S] : g[0] = x /\ \A i \in 1 .. n : g[i] = G[<<i, g[i - 1]>>]}

LEMMA LoopsHaveValues ==
  ASSUME NEW S, NEW n \in Nat, NEW x \in S, NEW G \in [(1 .. n) \X S -> S]
  PROVE  Passes(S, G, x, n) # {}
<1> DEFINE Upto(k, g) == g \in [0 .. k -> S] /\ g[0] = x /\ \A i \in 1 .. k : g[i] = G[<<i, g[i - 1]>>]
           T == {k \in 0 .. n : \E g : Upto(k, g)}
<1>1. 0 \in T
  <2>1. PICK g : g = [i \in 0 .. 0 |-> x]
    OBVIOUS
  <2>2. Upto(0, g) /\ 0 \in 0 .. n
    BY <2>1
  <2> QED BY <2>2, Zenon
<1>2. ASSUME NEW k \in 1 .. n, k - 1 \in T PROVE k \in T
  <2>1. PICK g : Upto(k - 1, g)
    BY <1>2
  <2>2. PICK y : y = G[<<k, g[k - 1]>>]
    OBVIOUS
  <2>3. y \in S
    BY <2>1, <2>2
  <2>4. PICK h : h = [i \in 0 .. k |-> IF i = k THEN y ELSE g[i]]
    OBVIOUS
  <2>5. h \in [0 .. k -> S] /\ h[k] = y /\ \A i \in 0 .. k - 1 : h[i] = g[i]
    BY <2>1, <2>3, <2>4
  <2>6. \A i \in 1 .. k : h[i] = G[<<i, h[i - 1]>>]
    <3> SUFFICES ASSUME NEW i \in 1 .. k PROVE h[i] = G[<<i, h[i - 1]>>]
      OBVIOUS
    <3>1. CASE i = k
      <4>1. h[k - 1] = g[k - 1]
        BY <2>5
      <4> QED BY <2>2, <2>5, <3>1, <4>1, Zenon
    <3>2. CASE i # k
      <4>1. i \in 1 .. k - 1 /\ h[i] = g[i] /\ h[i - 1] = g[i - 1]
        BY <2>5, <3>2
      <4> QED BY <2>1, <4>1, Zenon
    <3> QED BY <3>1, <3>2
  <2>7. Upto(k, h)
    BY <2>1, <2>5, <2>6
  <2> QED BY <2>7
<1> HIDE DEF T
<1>3. \A i \in 0 .. n : i \in T
  BY <1>1, <1>2, CountingUp
<1>4. n \in T
  BY <1>3
<1> QED BY <1>4 DEF T, Passes

\* Quotient and remainder.
LEMMA Division ==
  ASSUME NEW a \in Nat, NEW b \in Nat \ {0}
  PROVE  /\ a \div b \in Nat /\ a % b \in 0 .. b - 1
         /\ a = (b * (a \div b)) + (a % b)
OBVIOUS

\* The loop that divides.
LEMMA RestProperties ==
  ASSUME NEW n \in Nat, NEW b \in Nat \ {0}, NEW m \in Nat
  PROVE  /\ Rest(n, b, m) \in [0 .. m -> Nat]
         /\ Rest(n, b, m)[0] = n
         /\ \A k \in 1 .. m : Rest(n, b, m)[k] = Rest(n, b, m)[k - 1] \div b
<1> DEFINE G == [p \in (1 .. m) \X Nat |-> p[2] \div b]
           Recurs(q) == q = [k \in 0 .. m |-> IF k = 0 THEN n ELSE q[k - 1] \div b]
<1>1. G \in [(1 .. m) \X Nat -> Nat]
  OBVIOUS
<1>2. \A k \in 1 .. m, r \in Nat : G[<<k, r>>] = r \div b
  OBVIOUS
<1> HIDE DEF G
<1>3. PICK g \in [0 .. m -> Nat] : g[0] = n /\ \A k \in 1 .. m : g[k] = G[<<k, g[k - 1]>>]
  <2>1. Passes(Nat, G, n, m) # {}
    BY <1>1, LoopsHaveValues
  <2> QED BY <2>1 DEF Passes
<1>4. \A k \in 1 .. m : g[k] = g[k - 1] \div b
  <2>1. \A k \in 1 .. m : g[k - 1] \in Nat
    BY <1>3
  <2> QED BY <1>2, <1>3, <2>1
<1>5. Recurs(g)
  <2>1. \A k \in 0 .. m : g[k] = IF k = 0 THEN n ELSE g[k - 1] \div b
    BY <1>3, <1>4
  <2> QED BY <2>1
<1>6. PICK q : q = Rest(n, b, m)
  OBVIOUS
<1>7. q = CHOOSE f : Recurs(f)
  BY <1>6, Zenon DEF Rest
<1>8. Recurs(q)
  BY <1>5, <1>7, Zenon
<1>9. q[0] = n /\ DOMAIN q = 0 .. m /\ \A k \in 1 .. m : q[k] = q[k - 1] \div b
  BY <1>8
<1> DEFINE T == {k \in 0 .. m : q[k] \in Nat}
<1>10. 0 \in T
  BY <1>9
<1>11. ASSUME NEW k \in 1 .. m, k - 1 \in T PROVE k \in T
  <2>1. PICK r \in Nat : r = q[k - 1]
    BY <1>11
  <2>2. r \div b \in Nat
    BY Division
  <2> QED BY <1>9, <2>1, <2>2
<1> HIDE DEF T
<1>12. \A k \in 0 .. m : k \in T
  BY <1>10, <1>11, CountingUp
<1>13. q \in [0 .. m -> Nat]
  BY <1>8, <1>12 DEF T
<1> QED BY <1>6, <1>9, <1>13

\* After at most n rounds nothing is left.
LEMMA RoundsProperties ==
  ASSUME NEW n \in Nat, NEW b \in Nat \ {0, 1}
  PROVE  /\ Rounds(n, b) \in 0 .. n
         /\ Rest(n, b, n)[Rounds(n, b)] = 0
         /\ \A j \in 0 .. Rounds(n, b) - 1 : Rest(n, b, n)[j] # 0
<1>1. PICK q \in [0 .. n -> Nat] : /\ q = Rest(n, b, n) /\ q[0] = n
                                   /\ \A k \in 1 .. n : q[k] = q[k - 1] \div b
  BY RestProperties
<1> DEFINE T == {k \in 0 .. n : q[k] <= n - k}
<1>2. 0 \in T
  BY <1>1
<1>3. ASSUME NEW k \in 1 .. n, k - 1 \in T PROVE k \in T
  <2>1. PICK r \in Nat : r = q[k - 1] /\ r <= n - (k - 1)
    BY <1>3
  <2>2. PICK d \in Nat, c \in 0 .. b - 1 : d = r \div b /\ c = r % b /\ r = (b * d) + c
    BY Division
  <2>3. d = 0 \/ d + d <= r
    <3>1. b * d = (d + d) + ((b - 2) * d) /\ (b - 2) * d \in Nat
      OBVIOUS
    <3> QED BY <2>2, <3>1
  <2>4. d <= n - k
    BY <2>1, <2>3
  <2>5. q[k] = d
    BY <1>1, <2>1, <2>2
  <2> QED BY <2>4, <2>5
<1> HIDE DEF T
<1>4. \A k \in 0 .. n : k \in T
  BY <1>2, <1>3, CountingUp
<1>5. q[n] = 0
  <2>1. n \in T /\ q[n] \in Nat
    BY <1>4
  <2> QED BY <2>1 DEF T
<1>6. PICK Z : Z = {k \in 0 .. n : q[k] = 0}
  OBVIOUS
<1>7. Z \subseteq Nat /\ n \in Z
  BY <1>5, <1>6
<1>8. PICK k \in Z : \A j \in Z : ~ (<<j, k>> \in OpToRel(<, Nat))
  BY <1>7, WFMin, NatLessThanWellFounded, Zenon
<1>9. \A j \in Z : ~ (j < k)
  BY <1>7, <1>8, Zenon DEF OpToRel
<1>10. k \in 0 .. n /\ q[k] = 0 /\ \A j \in 0 .. k - 1 : q[j] # 0
  BY <1>6, <1>9
<1>11. Rounds(n, b) = CHOOSE i \in 0 .. n : q[i] = 0 /\ \A j \in 0 .. i - 1 : q[j] # 0
  BY <1>1 DEF Rounds
<1>12. PICK m : m = Rounds(n, b)
  OBVIOUS
<1>13. m \in 0 .. n /\ q[m] = 0 /\ \A j \in 0 .. m - 1 : q[j] # 0
  BY <1>10, <1>11, <1>12
<1> QED BY <1>1, <1>12, <1>13

\* The digits are digits, and none is a zero in front.
LEMMA DigitsProperties ==
  ASSUME NEW n \in Nat, NEW b \in Nat \ {0, 1}
  PROVE  /\ Digits(n, b) \in Seq(0 .. b - 1)
         /\ Len(Digits(n, b)) = Rounds(n, b)
         /\ n # 0 => /\ Rounds(n, b) \in Nat \ {0}
                     /\ Digits(n, b)[Rounds(n, b)] # 0
<1>1. PICK q \in [0 .. n -> Nat] : /\ q = Rest(n, b, n) /\ q[0] = n
                                   /\ \A k \in 1 .. n : q[k] = q[k - 1] \div b
  BY RestProperties
<1>2. PICK m \in 0 .. n : m = Rounds(n, b) /\ q[m] = 0 /\ \A j \in 0 .. m - 1 : q[j] # 0
  <2>1. /\ Rounds(n, b) \in 0 .. n /\ Rest(n, b, n)[Rounds(n, b)] = 0
        /\ \A j \in 0 .. Rounds(n, b) - 1 : Rest(n, b, n)[j] # 0
    BY RoundsProperties
  <2> QED BY <1>1, <2>1, Zenon
<1>3. PICK d : d = [k \in 1 .. m |-> q[k - 1] % b]
  OBVIOUS
<1>4. Digits(n, b) = d
  BY <1>1, <1>2, <1>3 DEF Digits
<1>5. \A k \in 1 .. m : q[k - 1] \in Nat /\ q[k - 1] % b \in 0 .. b - 1
  <2>1. \A k \in 1 .. m : q[k - 1] \in Nat
    BY <1>1
  <2> QED BY <2>1, Division
<1>6. d \in Seq(0 .. b - 1) /\ Len(d) = m
  BY <1>3, <1>5
<1>7. ASSUME n # 0 PROVE m # 0 /\ d[m] # 0
  <2>1. m # 0
    BY <1>1, <1>2, <1>7
  <2>2. PICK r \in Nat : r = q[m - 1] /\ r # 0 /\ r \div b = 0
    <3>1. m - 1 \in 0 .. m - 1 /\ m \in 1 .. n
      BY <1>2, <2>1
    <3>2. q[m - 1] \in Nat /\ q[m - 1] # 0 /\ q[m - 1] \div b = 0
      BY <1>1, <1>2, <3>1
    <3> QED BY <3>2
  <2>3. r % b = r
    <3>1. PICK e \in Nat, c \in 0 .. b - 1 : e = r \div b /\ c = r % b /\ r = (b * e) + c
      BY Division
    <3>2. e = 0
      BY <2>2, <3>1
    <3>3. b * e = 0
      BY <3>2
    <3> QED BY <3>1, <3>3
  <2> QED BY <1>3, <2>1, <2>2, <2>3
<1> QED BY <1>2, <1>4, <1>6, <1>7

\* The loop that puts a number together.
LEMMA ValueProperties ==
  ASSUME NEW b \in Nat, NEW d \in Seq(Nat)
  PROVE  \E v \in [0 .. Len(d) -> Nat] :
            /\ v[0] = 0 /\ Value(b, d) = v[Len(d)]
            /\ \A i \in 1 .. Len(d) : v[i] = (b * v[i - 1]) + d[i]
<1> DEFINE n == Len(d)
           G == [p \in (1 .. n) \X Nat |-> (b * p[2]) + d[p[1]]]
           Recurs(v) == v = [i \in 0 .. n |-> IF i = 0 THEN 0 ELSE (b * v[i - 1]) + d[i]]
<1>1. n \in Nat /\ \A i \in 1 .. n : d[i] \in Nat
  OBVIOUS
<1>2. \A i \in 1 .. n, r \in Nat : (b * r) + d[i] \in Nat
  BY <1>1
<1>3. G \in [(1 .. n) \X Nat -> Nat] /\ \A i \in 1 .. n, r \in Nat : G[<<i, r>>] = (b * r) + d[i]
  BY <1>2
<1> HIDE DEF G, n
<1>4. PICK g \in [0 .. n -> Nat] : g[0] = 0 /\ \A k \in 1 .. n : g[k] = G[<<k, g[k - 1]>>]
  <2>1. Passes(Nat, G, 0, n) # {}
    BY <1>1, <1>3, LoopsHaveValues
  <2> QED BY <2>1 DEF Passes
<1>5. \A k \in 1 .. n : g[k] = (b * g[k - 1]) + d[k]
  <2>1. \A k \in 1 .. n : g[k - 1] \in Nat
    BY <1>1, <1>4
  <2> QED BY <1>3, <1>4, <2>1
<1>6. Recurs(g)
  <2>1. \A k \in 0 .. n : g[k] = IF k = 0 THEN 0 ELSE (b * g[k - 1]) + d[k]
    BY <1>4, <1>5
  <2> QED BY <2>1
<1>7. PICK v : v = CHOOSE f : Recurs(f)
  OBVIOUS
<1>8. Recurs(v) /\ Value(b, d) = v[n]
  BY <1>6, <1>7, Zenon DEF Value, n
<1>9. v[0] = 0 /\ DOMAIN v = 0 .. n /\ \A k \in 1 .. n : v[k] = (b * v[k - 1]) + d[k]
  <2>1. v = [i \in 0 .. n |-> IF i = 0 THEN 0 ELSE (b * v[i - 1]) + d[i]]
    BY <1>8
  <2>2. DOMAIN v = 0 .. n /\ \A i \in 0 .. n : v[i] = IF i = 0 THEN 0 ELSE (b * v[i - 1]) + d[i]
    BY <2>1, Zenon
  <2>3. 0 \in 0 .. n /\ \A k \in 1 .. n : k \in 0 .. n /\ k # 0
    BY <1>1
  <2> QED BY <2>2, <2>3, Zenon
<1> DEFINE T == {k \in 0 .. n : v[k] \in Nat}
<1>10. 0 \in T
  BY <1>1, <1>9
<1>11. ASSUME NEW k \in 1 .. n, k - 1 \in T PROVE k \in T
  <2>1. PICK r \in Nat : r = v[k - 1]
    BY <1>11
  <2>2. (b * r) + d[k] \in Nat
    BY <1>2
  <2> QED BY <1>1, <1>9, <2>1, <2>2
<1> HIDE DEF T
<1>12. \A k \in 0 .. n : k \in T
  BY <1>1, <1>10, <1>11, CountingUp
<1>13. v \in [0 .. n -> Nat]
  BY <1>8, <1>12 DEF T
<1> QED BY <1>8, <1>9, <1>13 DEF n

\* Turned round.
LEMMA ReverseProperties ==
  ASSUME NEW C, NEW t \in Seq(C)
  PROVE  /\ Reverse(t) \in Seq(C) /\ Len(Reverse(t)) = Len(t)
         /\ \A i \in 1 .. Len(t) : Reverse(t)[i] = t[(Len(t) - i) + 1]
BY DEF Reverse

\* Putting a number together undoes taking it apart, however many zeros are
\* written in front.  q is what was left after each digit.
LEMMA DigitsReadBack ==
  ASSUME NEW b \in Nat, NEW t \in Seq(Nat), NEW q \in [0 .. Len(t) -> Nat], q[Len(t)] = 0,
         \A k \in 1 .. Len(t) : q[k - 1] = (b * q[k]) + t[k]
  PROVE  Value(b, Reverse(t)) = q[0]
<1>1. PICK n \in Nat : n = Len(t)
  OBVIOUS
<1>2. PICK d : d = Reverse(t)
  OBVIOUS
<1>3. d \in Seq(Nat) /\ Len(d) = n /\ \A i \in 1 .. n : d[i] = t[(n - i) + 1]
  BY <1>1, <1>2, ReverseProperties
<1>4. PICK v \in [0 .. n -> Nat] : /\ v[0] = 0 /\ Value(b, d) = v[n]
                                   /\ \A i \in 1 .. n : v[i] = (b * v[i - 1]) + d[i]
  <2>1. PICK v \in [0 .. Len(d) -> Nat] : /\ v[0] = 0 /\ Value(b, d) = v[Len(d)]
                                          /\ \A i \in 1 .. Len(d) : v[i] = (b * v[i - 1]) + d[i]
    BY <1>3, ValueProperties
  <2> QED BY <1>3, <2>1, Zenon
<1> DEFINE T == {i \in 0 .. n : v[i] = q[n - i]}
<1>5. 0 \in T
  BY <1>1, <1>4
<1>6. ASSUME NEW i \in 1 .. n, i - 1 \in T PROVE i \in T
  <2>1. v[i - 1] = q[(n - i) + 1]
    BY <1>6
  <2>2. q[n - i] = (b * q[(n - i) + 1]) + t[(n - i) + 1]
    <3>1. PICK k \in 1 .. n : k = (n - i) + 1 /\ k - 1 = n - i
      OBVIOUS
    <3> QED BY <1>1, <3>1
  <2>3. v[i] = q[n - i]
    BY <1>3, <1>4, <2>1, <2>2
  <2> QED BY <2>3
<1> HIDE DEF T
<1>7. \A i \in 0 .. n : i \in T
  BY <1>5, <1>6, CountingUp
<1>8. v[n] = q[0]
  <2>1. n \in T
    BY <1>7
  <2> QED BY <2>1 DEF T
<1> QED BY <1>2, <1>4, <1>8

\* t holds the digits of n, lowest first: q is what is left after each of them.
Apart(n, b, t) ==
    \E q \in [0 .. Len(t) -> Nat] : /\ q[0] = n /\ q[Len(t)] = 0
                                    /\ \A k \in 1 .. Len(t) : q[k - 1] = (b * q[k]) + t[k]

LEMMA DigitsAreWhole ==
  ASSUME NEW n \in Nat, NEW b \in Nat \ {0, 1}
  PROVE  Apart(n, b, Digits(n, b))
<1>1. PICK r \in [0 .. n -> Nat] : /\ r = Rest(n, b, n) /\ r[0] = n
                                   /\ \A k \in 1 .. n : r[k] = r[k - 1] \div b
  BY RestProperties
<1>2. PICK m \in 0 .. n : m = Rounds(n, b) /\ r[m] = 0
  BY <1>1, RoundsProperties
<1>3. PICK q : q = [k \in 0 .. m |-> r[k]]
  OBVIOUS
<1>4. q \in [0 .. m -> Nat] /\ q[0] = n /\ q[m] = 0
  BY <1>1, <1>2, <1>3
<1>5. ASSUME NEW k \in 1 .. m PROVE q[k - 1] = (b * q[k]) + Digits(n, b)[k]
  <2>1. PICK a \in Nat : a = r[k - 1]
    BY <1>1
  <2>2. r[k] = a \div b /\ Digits(n, b)[k] = a % b
    BY <1>1, <1>2, <2>1 DEF Digits
  <2>3. q[k - 1] = a /\ q[k] = r[k]
    BY <1>3, <2>1
  <2>4. a = (b * (a \div b)) + (a % b)
    BY Division
  <2> QED BY <2>2, <2>3, <2>4
<1>6. Len(Digits(n, b)) = m
  BY <1>2, DigitsProperties
<1>7. PICK t : t = Digits(n, b)
  OBVIOUS
<1>8. /\ q \in [0 .. Len(t) -> Nat] /\ q[0] = n /\ q[Len(t)] = 0
      /\ \A k \in 1 .. Len(t) : q[k - 1] = (b * q[k]) + t[k]
  BY <1>4, <1>5, <1>6, <1>7
<1>9. Apart(n, b, t)
  BY <1>8, Zenon DEF Apart
<1> QED BY <1>7, <1>9

\* A zero in front changes nothing.
LEMMA ZeroInFront ==
  ASSUME NEW n \in Nat, NEW b \in Nat, NEW t \in Seq(Nat), Apart(n, b, t)
  PROVE  Apart(n, b, Append(t, 0))
<1>1. PICK m \in Nat : m = Len(t)
  OBVIOUS
<1>2. PICK q \in [0 .. m -> Nat] : /\ q[0] = n /\ q[m] = 0
                                   /\ \A k \in 1 .. m : q[k - 1] = (b * q[k]) + t[k]
  BY <1>1 DEF Apart
<1>3. PICK u : u = Append(t, 0)
  OBVIOUS
<1>4. Len(u) = m + 1 /\ u[m + 1] = 0 /\ \A i \in 1 .. m : u[i] = t[i]
  BY <1>1, <1>3
<1>5. PICK p : p = [k \in 0 .. m + 1 |-> IF k = m + 1 THEN 0 ELSE q[k]]
  OBVIOUS
<1>6. /\ p \in [0 .. m + 1 -> Nat] /\ p[m + 1] = 0
      /\ \A k \in 0 .. m : p[k] = q[k]
  BY <1>2, <1>5
<1>7. \A k \in 1 .. m + 1 : p[k - 1] = (b * p[k]) + u[k]
  <2> SUFFICES ASSUME NEW k \in 1 .. m + 1 PROVE p[k - 1] = (b * p[k]) + u[k]
    OBVIOUS
  <2>1. CASE k = m + 1
    <3>1. b * 0 = 0 /\ k - 1 = m
      BY <2>1
    <3>2. p[k] = 0 /\ u[k] = 0 /\ p[k - 1] = 0
      BY <1>2, <1>4, <1>6, <2>1, <3>1
    <3> QED BY <3>1, <3>2
  <2>2. CASE k # m + 1
    <3>1. k \in 1 .. m /\ k - 1 \in 0 .. m /\ k \in 0 .. m
      BY <2>2
    <3>2. p[k - 1] = q[k - 1] /\ p[k] = q[k] /\ u[k] = t[k]
      BY <1>4, <1>6, <3>1
    <3> QED BY <1>2, <3>1, <3>2
  <2> QED BY <2>1, <2>2
<1>8. p[0] = n
  BY <1>2, <1>6
<1> QED BY <1>3, <1>4, <1>6, <1>7, <1>8 DEF Apart

\* Putting a number together undoes taking it apart.
LEMMA TogetherAgain ==
  ASSUME NEW n \in Nat, NEW b \in Nat, NEW t \in Seq(Nat), Apart(n, b, t)
  PROVE  Value(b, Reverse(t)) = n
<1>1. PICK q \in [0 .. Len(t) -> Nat] : /\ q[0] = n /\ q[Len(t)] = 0
                                        /\ \A k \in 1 .. Len(t) : q[k - 1] = (b * q[k]) + t[k]
  BY DEF Apart
<1> QED BY <1>1, DigitsReadBack

\* What stands for n in base b, without zeros in front.
Numeral(n, b, s) == s \in Seq(0 .. b - 1) /\ Len(s) \in Nat \ {0} /\ s[1] # 0 /\ Value(b, s) = n

\* The loop's digits, turned round, stand for the number it was given.
LEMMA NumeralsReadBack ==
  ASSUME NEW n \in Nat \ {0}, NEW b \in Nat \ {0, 1}
  PROVE  Numeral(n, b, Reverse(Digits(n, b)))
<1>1. PICK m, t : m = Rounds(n, b) /\ t = Digits(n, b)
  OBVIOUS
<1>2. t \in Seq(0 .. b - 1) /\ Len(t) = m /\ m \in Nat \ {0} /\ t[m] # 0
  BY <1>1, DigitsProperties
<1>3. Apart(n, b, t)
  BY <1>1, DigitsAreWhole
<1>4. PICK s : s = Reverse(t)
  OBVIOUS
<1>5. s \in Seq(0 .. b - 1) /\ Len(s) = m /\ s[1] = t[m]
  <2>1. /\ s \in Seq(0 .. b - 1) /\ Len(s) = Len(t)
        /\ \A i \in 1 .. Len(t) : s[i] = t[(Len(t) - i) + 1]
    BY <1>2, <1>4, ReverseProperties
  <2>2. s[1] = t[(m - 1) + 1]
    BY <1>2, <2>1
  <2> QED BY <1>2, <2>1, <2>2
<1>6. Value(b, s) = n
  <2>1. t \in Seq(Nat)
    BY <1>2
  <2> QED BY <1>3, <1>4, <2>1, TogetherAgain
<1> QED BY <1>1, <1>2, <1>4, <1>5, <1>6 DEF Numeral

\* One digit stands for itself.
LEMMA OneDigit ==
  ASSUME NEW b \in Nat, NEW z \in Seq(Nat), Len(z) = 1
  PROVE  Value(b, z) = z[1]
<1>1. PICK v \in [0 .. Len(z) -> Nat] : /\ v[0] = 0 /\ Value(b, z) = v[Len(z)]
                                        /\ \A i \in 1 .. Len(z) : v[i] = (b * v[i - 1]) + z[i]
  BY ValueProperties
<1>2. v[1] = (b * 0) + z[1] /\ Value(b, z) = v[1]
  BY <1>1
<1>3. b * 0 = 0 /\ z[1] \in Nat
  OBVIOUS
<1> QED BY <1>2, <1>3

\* Turning round moves the last to the front.
LEMMA LastComesFirst ==
  ASSUME NEW C, NEW t \in Seq(C), NEW c \in C
  PROVE  /\ Reverse(Append(t, c)) \in Seq(C) /\ Reverse(Append(t, c)) # <<>>
         /\ Head(Reverse(Append(t, c))) = c /\ Tail(Reverse(Append(t, c))) = Reverse(t)
<1>1. PICK w \in Seq(C) : /\ w = Append(t, c) /\ Len(w) = Len(t) + 1 /\ w[Len(t) + 1] = c
                          /\ \A i \in 1 .. Len(t) : w[i] = t[i]
  <2>1. /\ Append(t, c) \in Seq(C) /\ Len(Append(t, c)) = Len(t) + 1 /\ Append(t, c)[Len(t) + 1] = c
        /\ \A i \in 1 .. Len(t) : Append(t, c)[i] = t[i]
    OBVIOUS
  <2> QED BY <2>1, Zenon
<1>2. PICK s, r : s = Reverse(w) /\ r = Reverse(t)
  OBVIOUS
<1>3. PICK n \in Nat : n = Len(t)
  OBVIOUS
<1>4. s \in Seq(C) /\ Len(s) = n + 1 /\ \A i \in 1 .. n + 1 : s[i] = w[((n + 1) - i) + 1]
  <2>1. s \in Seq(C) /\ Len(s) = Len(w) /\ \A i \in 1 .. Len(w) : s[i] = w[(Len(w) - i) + 1]
    BY <1>2, ReverseProperties
  <2>2. Len(w) = n + 1
    BY <1>1, <1>3
  <2> QED BY <2>1, <2>2
<1>5. r \in Seq(C) /\ Len(r) = n /\ \A i \in 1 .. n : r[i] = t[(n - i) + 1]
  BY <1>2, <1>3, ReverseProperties
<1>6. s # <<>> /\ Head(s) = c
  BY <1>1, <1>3, <1>4
<1>7. Tail(s) \in Seq(C) /\ Len(Tail(s)) = n /\ \A i \in 1 .. n : Tail(s)[i] = s[i + 1]
  BY <1>4
<1>8. \A i \in 1 .. n : Tail(s)[i] = r[i]
  <2> SUFFICES ASSUME NEW i \in 1 .. n PROVE Tail(s)[i] = r[i]
    OBVIOUS
  <2>1. PICK k \in 1 .. n : k = (n - i) + 1 /\ k = ((n + 1) - (i + 1)) + 1
    OBVIOUS
  <2>2. s[i + 1] = w[k]
    BY <1>4, <2>1
  <2> QED BY <1>1, <1>3, <1>5, <1>7, <2>1, <2>2
<1>9. Tail(s) = r
  BY <1>5, <1>7, <1>8
<1> QED BY <1>1, <1>2, <1>4, <1>6, <1>9

\* The sign comes first.
LEMMA DecimalsAreRight ==
  ASSUME NEW n \in Int, n # -IntMax - 1
  PROVE  IsDecimal(n, dec2str(n))
<1>1. PICK s, u : s = dec2str(n) /\ u = Unsigned(s)
  OBVIOUS
<1>2. 10 \in Nat \ {0, 1} /\ 10 - 1 = 9
  OBVIOUS
<1>3. CASE n = 0
  <2>1. PICK z \in Seq(Nat) : z = <<0>> /\ Len(z) = 1 /\ z[1] = 0
    <3>1. <<0>> \in Seq(Nat) /\ Len(<<0>>) = 1 /\ <<0>>[1] = 0
      OBVIOUS
    <3> QED BY <3>1, Zenon
  <2>2. s = Reverse(z)
    <3>1. <<0>> \o <<>> = <<0>>
      OBVIOUS
    <3>2. Backwards(n) = <<0>> \o <<>>
      BY <1>3 DEF Backwards
    <3> QED BY <1>1, <2>1, <3>1, <3>2 DEF dec2str
  <2>3. s \in Seq(Nat) /\ Len(s) = 1 /\ s[1] = 0
    <3>1. s \in Seq(Nat) /\ Len(s) = Len(z) /\ \A i \in 1 .. Len(z) : s[i] = z[(Len(z) - i) + 1]
      BY <2>2, ReverseProperties
    <3>2. s[1] = z[1]
      BY <2>1, <3>1
    <3> QED BY <2>1, <3>1, <3>2
  <2>4. Head(s) # Minus /\ u = s
    BY <1>1, <2>3 DEF Unsigned, Minus
  <2>5. Value(10, s) = 0
    BY <1>2, <2>3, OneDigit
  <2>6. s # <<>> /\ DOMAIN s = {1}
    BY <2>3
  <2>7. \A i \in DOMAIN u : u[i] \in 0 .. 9
    BY <2>3, <2>4, <2>6
  <2>8. u # <<>> /\ ~ (Len(u) > 1) /\ Value(10, u) = n
    <3>1. s # <<>> /\ ~ (Len(s) > 1) /\ Value(10, s) = n
      BY <1>3, <2>3, <2>5, <2>6
    <3> QED BY <2>4, <3>1, Zenon
  <2> QED BY <1>1, <2>4, <2>7, <2>8 DEF IsDecimal
<1>4. CASE n > 0
  <2>1. PICK t : t = Digits(n, 10)
    OBVIOUS
  <2>2. n \in Nat \ {0} /\ Magnitude(n) = n /\ ~ (n < 0)
    BY <1>4 DEF Magnitude
  <2>3. s = Reverse(t)
    <3>1. Digits(n, 10) \in Seq(0 .. 10 - 1)
      BY <1>2, <2>2, DigitsProperties
    <3>2. t \o <<>> = t
      BY <2>1, <3>1
    <3>3. Backwards(n) = t \o <<>>
      BY <2>1, <2>2 DEF Backwards
    <3> QED BY <1>1, <3>2, <3>3 DEF dec2str
  <2>4. Numeral(n, 10, s)
    BY <1>2, <2>1, <2>2, <2>3, NumeralsReadBack
  <2>5. s \in Seq(0 .. 9) /\ Len(s) \in Nat \ {0} /\ s[1] # 0 /\ Value(10, s) = n
    BY <1>2, <2>4 DEF Numeral
  <2>6. Head(s) # Minus /\ u = s
    BY <1>1, <2>5 DEF Unsigned, Minus
  <2>7. s # <<>> /\ Head(s) # 0 /\ \A i \in DOMAIN s : s[i] \in 0 .. 9
    BY <2>5
  <2> QED BY <1>1, <2>5, <2>6, <2>7 DEF IsDecimal
<1>5. CASE n < 0
  <2>1. PICK k \in Nat \ {0} : k = -n
    BY <1>5
  <2>2. PICK t : t = Digits(k, 10)
    OBVIOUS
  <2>3. Magnitude(n) = k /\ ~ (k < 0) /\ n # 0
    BY <1>5, <2>1 DEF Magnitude
  <2>4. t \in Seq(Nat)
    <3>1. Digits(k, 10) \in Seq(0 .. 10 - 1)
      BY <1>2, DigitsProperties
    <3> QED BY <2>2, <3>1
  <2>5. Minus \in Nat
    BY DEF Minus
  <2>6. s = Reverse(Append(t, Minus))
    <3>1. Backwards(n) = t \o <<Minus>>
      BY <1>5, <2>2, <2>3 DEF Backwards
    <3>2. t \o <<Minus>> = Append(t, Minus)
      BY <2>4, <2>5
    <3> QED BY <1>1, <3>1, <3>2 DEF dec2str
  <2>7. PICK r : r = Reverse(t)
    OBVIOUS
  <2>8. Numeral(k, 10, r)
    BY <1>2, <2>2, <2>7, NumeralsReadBack
  <2>9. r \in Seq(0 .. 9) /\ Len(r) \in Nat \ {0} /\ r[1] # 0 /\ Value(10, r) = k
    BY <1>2, <2>8 DEF Numeral
  <2>10. Head(s) = Minus /\ Tail(s) = r
    BY <2>4, <2>5, <2>6, <2>7, LastComesFirst
  <2>11. u = r
    BY <1>1, <2>10 DEF Unsigned
  <2>12. r # <<>> /\ Head(r) # 0 /\ \A i \in DOMAIN r : r[i] \in 0 .. 9
    BY <2>9
  <2>13. n = -Value(10, r)
    BY <2>1, <2>9
  <2> QED BY <1>1, <2>10, <2>11, <2>12, <2>13 DEF IsDecimal
<1> QED BY <1>3, <1>4, <1>5

\* The digits hex2str writes, one of them padded to two.
Padded(n) == (IF n = 0 THEN <<0>> ELSE Digits(n, 16)) \o (IF n < 16 THEN <<0>> ELSE <<>>)

LEMMA PaddedDigits ==
  ASSUME NEW n \in Nat
  PROVE  Padded(n) \in Seq(Nat) /\ Apart(n, 16, Padded(n))
<1>1. 16 \in Nat \ {0, 1} /\ 0 \in Nat
  OBVIOUS
<1>2. PICK t : t = IF n = 0 THEN <<0>> ELSE Digits(n, 16)
  OBVIOUS
<1>3. t \in Seq(Nat) /\ Apart(n, 16, t)
  <2>1. CASE n = 0
    <3>1. Apart(0, 16, <<>>)
      <4>1. PICK q : q = [k \in 0 .. 0 |-> 0]
        OBVIOUS
      <4>2. q \in [0 .. 0 -> Nat] /\ q[0] = 0 /\ Len(<<>>) = 0 /\ 1 .. 0 = {}
        BY <4>1
      <4> QED BY <4>2, Zenon DEF Apart
    <3>2. <<>> \in Seq(Nat) /\ Append(<<>>, 0) = <<0>> /\ <<0>> \in Seq(Nat)
      OBVIOUS
    <3>3. Apart(0, 16, Append(<<>>, 0))
      BY <1>1, <3>1, <3>2, ZeroInFront
    <3> QED BY <1>2, <2>1, <3>2, <3>3
  <2>2. CASE n # 0
    <3>1. Digits(n, 16) \in Seq(0 .. 16 - 1) /\ Apart(n, 16, Digits(n, 16))
      BY <1>1, DigitsProperties, DigitsAreWhole
    <3> QED BY <1>2, <2>2, <3>1
  <2> QED BY <2>1, <2>2
<1>4. CASE n < 16
  <2>1. Padded(n) = t \o <<0>>
    BY <1>2, <1>4, Zenon DEF Padded
  <2>2. t \o <<0>> = Append(t, 0) /\ Append(t, 0) \in Seq(Nat)
    BY <1>3
  <2>3. Apart(n, 16, Append(t, 0))
    BY <1>1, <1>3, ZeroInFront
  <2> QED BY <2>1, <2>2, <2>3
<1>5. CASE ~ (n < 16)
  <2>1. Padded(n) = t \o <<>>
    BY <1>2, <1>5, Zenon DEF Padded
  <2>2. t \o <<>> = t
    BY <1>3
  <2> QED BY <1>3, <2>1, <2>2
<1> QED BY <1>4, <1>5

LEMMA FrontAndRest ==
  ASSUME NEW C, NEW f \in Seq(C), f # <<>>
  PROVE  Len(f) = Len(Tail(f)) + 1 /\ f[1] = Head(f) /\ \A i \in 1 .. Len(Tail(f)) : f[i + 1] = Tail(f)[i]
OBVIOUS

\* hex2int passes over the prefix and reads them all.
LEMMA HexReadsBack ==
  ASSUME NEW n \in Nat
  PROVE  hex2int(hex2str(n), Len(hex2str(n)) - 2) = n
<1>1. PICK t, x : t = Padded(n) /\ x = hex2str(n)
  OBVIOUS
<1>2. t \in Seq(Nat) /\ Apart(n, 16, t) /\ 16 \in Nat /\ 0 \in Nat /\ Ex \in Nat
  BY <1>1, PaddedDigits DEF Ex
<1>3. PICK e \in Seq(Nat) : e = Append(t, Ex)
  <2>1. Append(t, Ex) \in Seq(Nat)
    BY <1>2
  <2> QED BY <2>1, Zenon
<1>4. x = Reverse(Append(e, 0))
  <2>1. x = Reverse(t \o <<Ex, 0>>)
    BY <1>1, Zenon DEF hex2str, Padded
  <2>2. t \o <<Ex, 0>> = Append(Append(t, Ex), 0)
    BY <1>2
  <2> QED BY <1>3, <2>1, <2>2
<1>5. PICK r, f : r = Reverse(t) /\ f = Reverse(e)
  OBVIOUS
<1>6. r \in Seq(Nat)
  BY <1>2, <1>5, ReverseProperties
<1>7. f \in Seq(Nat) /\ f # <<>> /\ Head(f) = Ex /\ Tail(f) = r
  BY <1>2, <1>3, <1>5, LastComesFirst
<1>8. x \in Seq(Nat) /\ x # <<>> /\ Head(x) = 0 /\ Tail(x) = f
  <2>1. /\ Reverse(Append(e, 0)) \in Seq(Nat) /\ Reverse(Append(e, 0)) # <<>>
        /\ Head(Reverse(Append(e, 0))) = 0 /\ Tail(Reverse(Append(e, 0))) = Reverse(e)
    BY <1>2, LastComesFirst
  <2> QED BY <1>4, <1>5, <2>1, Zenon
<1>9. PICK m \in Nat : m = Len(r)
  BY <1>6
<1>10. Len(f) = m + 1 /\ f[1] = Ex /\ \A i \in 1 .. m : f[i + 1] = r[i]
  <2>1. Len(f) = Len(Tail(f)) + 1 /\ f[1] = Head(f) /\ \A i \in 1 .. Len(Tail(f)) : f[i + 1] = Tail(f)[i]
    BY <1>7, FrontAndRest
  <2> QED BY <1>7, <1>9, <2>1
<1>11. Len(x) = m + 2 /\ x[1] = 0 /\ \A i \in 1 .. m + 1 : x[i + 1] = f[i]
  <2>1. Len(x) = Len(Tail(x)) + 1 /\ x[1] = Head(x) /\ \A i \in 1 .. Len(Tail(x)) : x[i + 1] = Tail(x)[i]
    BY <1>8, FrontAndRest
  <2>2. Len(x) = Len(f) + 1 /\ x[1] = 0 /\ \A i \in 1 .. Len(f) : x[i + 1] = f[i]
    BY <1>8, <2>1, Zenon
  <2> QED BY <1>10, <2>2
<1>12. x[2] = Ex /\ \A i \in 1 .. m : x[i + 2] = r[i]
  <2>1. x[1 + 1] = f[1]
    BY <1>11
  <2>2. ASSUME NEW i \in 1 .. m PROVE x[i + 2] = r[i]
    <3>1. x[(i + 1) + 1] = f[i + 1] /\ (i + 1) + 1 = i + 2
      BY <1>11
    <3> QED BY <1>10, <3>1
  <2> QED BY <1>10, <2>1, <2>2
<1>13. SubSeq(x, 3, m + 2) = r
  <2>1. PICK y : y = SubSeq(x, 3, m + 2)
    OBVIOUS
  <2>2. y \in Seq(Nat) /\ Len(y) = m /\ \A i \in 1 .. m : y[i] = x[i + 2]
    BY <1>8, <1>11, <2>1
  <2>3. \A i \in 1 .. m : y[i] = r[i]
    BY <1>12, <2>2
  <2> QED BY <1>6, <1>9, <2>1, <2>2, <2>3
<1>14. Min({i \in 1 .. Len(x) : x[i] # Space} \cup {Len(x) + 1}) = 1
  <2>1. PICK M : M = {i \in 1 .. Len(x) : x[i] # Space} \cup {Len(x) + 1}
    OBVIOUS
  <2>2. 1 \in M /\ \A i \in M : i \in Nat /\ 1 <= i
    BY <1>11, <2>1 DEF Space
  <2> QED BY <2>1, <2>2 DEF Min
<1>15. hex2int(x, m) = Value(16, SubSeq(x, 3, m + 2))
  <2>1. 1 < Len(x) /\ x[1] = 0 /\ x[1 + 1] = Ex /\ (1 + 2) = 3 /\ (3 + m) - 1 = m + 2
    BY <1>11, <1>12
  <2> QED BY <1>14, <2>1 DEF hex2int
<1>16. Value(16, r) = n
  BY <1>2, <1>5, TogetherAgain
<1>17. Len(x) - 2 = m
  BY <1>11
<1> QED BY <1>1, <1>13, <1>15, <1>16, <1>17

\* Of every int: its decimal digits, and hexadecimal ones that are read back.
THEOREM NumbersSurvive == NumbersSpec => []NumbersReadBack
<1>1. Smallest => number \in Int
  BY IntAssumption DEF Smallest
<1>2. number \in Int /\ [NextNumber]_number => (number \in Int)'
  BY DEF NextNumber
<1>3. number \in Int => NumbersReadBack
  BY DecimalsAreRight, HexReadsBack DEF NumbersReadBack
<1> QED BY <1>1, <1>2, <1>3, PTL DEF NumbersSpec
-----------------------------------------------------------------------------
(* Archives                                                                *)

LEMMA LeastIsMin ==
  ASSUME NEW S \in SUBSET Nat, NEW x \in S, \A y \in S : x <= y
  PROVE  Min(S) = x
<1>1. \A y \in S : (\A z \in S : y <= z) => y = x
  OBVIOUS
<1> QED BY <1>1 DEF Min

LEMMA MinIsLeast ==
  ASSUME NEW S \in SUBSET Nat, S # {}
  PROVE  Min(S) \in S /\ \A y \in S : Min(S) <= y
<1>1. PICK k \in S : \A j \in S : ~ (<<j, k>> \in OpToRel(<, Nat))
  BY WFMin, NatLessThanWellFounded, Zenon
<1>2. \A j \in S : ~ (j < k)
  BY <1>1, Zenon DEF OpToRel
<1>3. \A j \in S : k <= j
  BY <1>2
<1> QED BY <1>3 DEF Min

\* Strings are equal if they compare so.
LEMMA ComparingStrings ==
  ASSUME NEW C, NEW a \in Seq(C), NEW b \in Seq(C)
  PROVE  kstrcmp(a, b) = 0 <=> a = b
<1>1. CASE Len(a) # Len(b)
  BY <1>1 DEF kstrcmp
<1>2. CASE Len(a) = Len(b) /\ \E i \in 1 .. Len(a) : a[i] # b[i]
  BY <1>2 DEF kstrcmp
<1>3. CASE Len(a) = Len(b) /\ \A i \in 1 .. Len(a) : a[i] = b[i]
  <2>1. a = b
    BY <1>3
  <2> QED BY <1>3, <2>1 DEF kstrcmp
<1> QED BY <1>1, <1>2, <1>3

LEMMA ValuesAreNumbers ==
  ASSUME NEW b \in Nat, NEW d \in Seq(Nat)
  PROVE  Value(b, d) \in Nat
<1>1. PICK v \in [0 .. Len(d) -> Nat] : Value(b, d) = v[Len(d)]
  BY ValueProperties
<1> QED BY <1>1

\* A number in a field of m digits that is wide enough for it.
LEMMA FieldHoldsNumber ==
  ASSUME NEW n \in Nat, NEW b \in Nat \ {0}, NEW m \in Nat
  PROVE  Rest(n, b, m)[m] = 0 =>
            /\ [k \in 1 .. m |-> Rest(n, b, m)[k - 1] % b] \in Seq(0 .. b - 1)
            /\ Apart(n, b, [k \in 1 .. m |-> Rest(n, b, m)[k - 1] % b])
<1>1. PICK q \in [0 .. m -> Nat] : /\ q = Rest(n, b, m) /\ q[0] = n
                                   /\ \A k \in 1 .. m : q[k] = q[k - 1] \div b
  BY RestProperties
<1>2. PICK t : t = [k \in 1 .. m |-> q[k - 1] % b]
  OBVIOUS
<1>3. ASSUME NEW k \in 1 .. m
      PROVE  t[k] \in 0 .. b - 1 /\ q[k - 1] = (b * q[k]) + t[k]
  <2>1. PICK a \in Nat : a = q[k - 1]
    BY <1>1
  <2>2. a % b \in 0 .. b - 1 /\ a = (b * (a \div b)) + (a % b)
    BY Division
  <2>3. q[k] = a \div b /\ t[k] = a % b
    BY <1>1, <1>2, <2>1
  <2> QED BY <2>1, <2>2, <2>3
<1>4. t \in Seq(0 .. b - 1) /\ Len(t) = m
  <2>1. t \in [1 .. m -> 0 .. b - 1]
    BY <1>2, <1>3
  <2> QED BY <2>1
<1>5. ASSUME q[m] = 0 PROVE Apart(n, b, t)
  <2>1. /\ q \in [0 .. Len(t) -> Nat] /\ q[0] = n /\ q[Len(t)] = 0
        /\ \A k \in 1 .. Len(t) : q[k - 1] = (b * q[k]) + t[k]
    BY <1>1, <1>3, <1>4, <1>5
  <2> QED BY <2>1, Zenon DEF Apart
<1> QED BY <1>1, <1>2, <1>4, <1>5, Zenon

\* What tar writes about a size is read so.
LEMMA SizesReadBack ==
  ASSUME NEW n \in Nat, SizeDigits \in Nat, Rest(n, 8, SizeDigits)[SizeDigits] = 0
  PROVE  Octal(n) \in Seq(0 .. 7) /\ _getsize(Octal(n)) = n
<1>1. PICK t : t = [k \in 1 .. SizeDigits |-> Rest(n, 8, SizeDigits)[k - 1] % 8]
  OBVIOUS
<1>2. 8 \in Nat \ {0} /\ 8 - 1 = 7
  OBVIOUS
<1>3. t \in Seq(0 .. 8 - 1) /\ Apart(n, 8, t)
  BY <1>1, <1>2, FieldHoldsNumber, Zenon
<1>4. t \in Seq(0 .. 7) /\ t \in Seq(Nat)
  BY <1>3
<1>5. Octal(n) = Reverse(t)
  BY <1>1, Zenon DEF Octal
<1>6. Value(8, Reverse(t)) = n
  BY <1>2, <1>3, <1>4, TogetherAgain
<1>7. Reverse(t) \in Seq(0 .. 7)
  BY <1>4, ReverseProperties
<1> QED BY <1>5, <1>6, <1>7 DEF _getsize

Blocks == [name : Seq(Characters), size : Seq(Nat)]

LEMMA StepProperties ==
  ASSUME NEW h \in Blocks
  PROVE  Step(h) \in Nat \ {0}
<1>1. h.size \in Seq(Nat) /\ 8 \in Nat
  BY DEF Blocks
<1>2. PICK n \in Nat : n = _getsize(h.size)
  BY <1>1, ValuesAreNumbers DEF _getsize
<1>3. PICK B \in Nat \ {0} : B = BlockSize
  BY LoaderAssumption
<1>4. PICK a \in Nat : a = n + B - 1
  OBVIOUS
<1>5. a \div B \in Nat
  BY Division
<1>6. Step(h) = (a \div B) + 1
  BY <1>2, <1>3, <1>4 DEF Step
<1> QED BY <1>5, <1>6

\* Rounding up to blocks.
LEMMA RoundingUp ==
  ASSUME NEW n \in Nat, NEW B \in Nat \ {0}, NEW m \in Nat, m * B \in n .. n + B - 1
  PROVE  (n + B - 1) \div B = m
<1>1. PICK a \in Nat : a = n + B - 1
  OBVIOUS
<1>2. PICK d \in Nat, r \in 0 .. B - 1 : d = a \div B /\ a = (B * d) + r
  BY Division
<1>3. PICK e \in Int : e = m - d
  OBVIOUS
<1>4. m * B = (B * d) + (B * e)
  BY <1>3
<1>5. B * e <= r /\ r <= (B * e) + B - 1
  BY <1>1, <1>2, <1>4
<1>6. e <= 0
  <2>1. e >= 1 => B * e = B + (B * (e - 1)) /\ B * (e - 1) \in Nat
    OBVIOUS
  <2> QED BY <1>2, <1>5, <2>1
<1>7. e >= 0
  <2>1. e <= -1 => B * e = -B - (B * (-1 - e)) /\ B * (-1 - e) \in Nat
    OBVIOUS
  <2> QED BY <1>2, <1>5, <2>1
<1> QED BY <1>1, <1>2, <1>3, <1>6, <1>7

\* The walk from header to header.
LEMMA WalkProperties ==
  ASSUME NEW a \in Seq(Blocks)
  PROVE  /\ Walk(a) \in [0 .. Len(a) -> Nat \ {0}] /\ Walk(a)[0] = 2
         /\ \A k \in 1 .. Len(a) : Walk(a)[k] = Advance(a, Walk(a)[k - 1])
         /\ Walk(a)[Len(a)] > Len(a)
<1> DEFINE n == Len(a)
           G == [p \in (1 .. n) \X (Nat \ {0}) |-> Advance(a, p[2])]
           Recurs(w) == w = [k \in 0 .. n |-> IF k = 0 THEN 2 ELSE Advance(a, w[k - 1])]
<1>1. n \in Nat /\ 2 \in Nat \ {0}
  OBVIOUS
<1>2. ASSUME NEW r \in Nat \ {0} PROVE Advance(a, r) \in Nat \ {0} /\ (r <= n => Advance(a, r) > r)
  <2>1. CASE r > n
    BY <2>1 DEF Advance
  <2>2. CASE r <= n
    <3>1. a[r] \in Blocks
      BY <2>2
    <3>2. PICK t \in Nat \ {0} : t = Step(a[r])
      BY <3>1, StepProperties
    <3>3. Advance(a, r) = r + t
      BY <2>2, <3>2 DEF Advance
    <3> QED BY <3>3
  <2> QED BY <1>1, <2>1, <2>2
<1>3. G \in [(1 .. n) \X (Nat \ {0}) -> Nat \ {0}]
  BY <1>2
<1>4. \A i \in 1 .. n, r \in Nat \ {0} : G[<<i, r>>] = Advance(a, r)
  OBVIOUS
<1> HIDE DEF G, n
<1>5. PICK g \in [0 .. n -> Nat \ {0}] : g[0] = 2 /\ \A k \in 1 .. n : g[k] = G[<<k, g[k - 1]>>]
  <2>1. Passes(Nat \ {0}, G, 2, n) # {}
    BY <1>1, <1>3, LoopsHaveValues
  <2> QED BY <2>1 DEF Passes
<1>6. \A k \in 1 .. n : g[k] = Advance(a, g[k - 1])
  <2>1. \A k \in 1 .. n : g[k - 1] \in Nat \ {0}
    BY <1>1, <1>5
  <2> QED BY <1>4, <1>5, <2>1
<1>7. Recurs(g)
  <2>1. \A k \in 0 .. n : g[k] = IF k = 0 THEN 2 ELSE Advance(a, g[k - 1])
    BY <1>5, <1>6
  <2> QED BY <1>5, <2>1
<1>8. PICK w : w = Walk(a)
  OBVIOUS
<1>9. w = CHOOSE f : Recurs(f)
  BY <1>8, Zenon DEF Walk, n
<1>10. Recurs(w)
  BY <1>7, <1>9, Zenon
<1>11. w[0] = 2 /\ DOMAIN w = 0 .. n /\ \A k \in 1 .. n : w[k] = Advance(a, w[k - 1])
  BY <1>1, <1>10
<1> DEFINE T == {k \in 0 .. n : w[k] \in Nat \ {0} /\ (w[k] > n \/ w[k] >= k + 2)}
<1>12. 0 \in T
  BY <1>1, <1>11
<1>13. ASSUME NEW k \in 1 .. n, k - 1 \in T PROVE k \in T
  <2>1. PICK r \in Nat \ {0} : r = w[k - 1] /\ (r > n \/ r >= k + 1)
    BY <1>1, <1>13
  <2>2. PICK s \in Nat \ {0} : s = Advance(a, r) /\ (r <= n => s > r)
    BY <1>2
  <2>3. w[k] = s
    BY <1>11, <2>1, <2>2
  <2>4. r > n => s = r
    BY <1>1, <2>2 DEF Advance, n
  <2>5. s > n \/ s >= k + 2
    BY <1>1, <2>1, <2>2, <2>4
  <2> QED BY <2>3, <2>5
<1> HIDE DEF T
<1>14. \A k \in 0 .. n : k \in T
  BY <1>1, <1>12, <1>13, CountingUp
<1>15. w \in [0 .. n -> Nat \ {0}]
  BY <1>10, <1>14 DEF T
<1>16. w[n] > n
  <2>1. n \in T
    BY <1>1, <1>14
  <2> QED BY <1>1, <2>1 DEF T
<1> QED BY <1>8, <1>11, <1>15, <1>16 DEF n

\* A header leads behind the blocks of its contents.
LEMMA HeaderProperties ==
  ASSUME NEW name \in Seq(Characters), NEW n \in Nat, Rest(n, 8, SizeDigits)[SizeDigits] = 0
  PROVE  /\ Header(name, n) \in Blocks /\ Header(name, n).name = name
         /\ \A m \in Nat : m * BlockSize \in n .. n + BlockSize - 1 => Step(Header(name, n)) = m + 1
<1>1. SizeDigits \in Nat
  BY ArchiveAssumption
<1>2. PICK o : o = Octal(n)
  OBVIOUS
<1>3. o \in Seq(0 .. 7) /\ _getsize(o) = n
  BY <1>1, <1>2, SizesReadBack
<1>4. o \in Seq(Nat)
  BY <1>3
<1>5. PICK h : h = [name |-> name, size |-> o]
  OBVIOUS
<1>6. h \in Blocks /\ h.name = name /\ h.size = o
  BY <1>4, <1>5 DEF Blocks
<1>7. Header(name, n) = h
  BY <1>2, <1>5, Zenon DEF Header
<1>8. PICK B \in Nat \ {0} : B = BlockSize
  BY LoaderAssumption
<1>9. ASSUME NEW m \in Nat, m * B \in n .. n + B - 1 PROVE Step(h) = m + 1
  <2>1. (n + B - 1) \div B = m
    BY <1>9, RoundingUp
  <2> QED BY <1>3, <1>6, <1>8, <2>1 DEF Step
<1> QED BY <1>6, <1>7, <1>8, <1>9

\* Where the header of the i-th file is; behind the last one the archive ends.
HeaderAt(i) == IF i <= Len(archive.files) THEN archive.files[i].at ELSE Len(archive.blocks) + 1

\* The headers of the files follow each other, each behind the contents of the
\* one before.
Chained == \A i \in 1 .. Len(archive.files) :
              /\ archive.files[i].at \in 1 .. Len(archive.blocks)
              /\ archive.blocks[archive.files[i].at].name = archive.files[i].name
              /\ HeaderAt(i + 1) = archive.files[i].at + Step(archive.blocks[archive.files[i].at])

ArchiveInv ==
    /\ archive \in [files : Seq([name : Named, at : Nat]), blocks : Seq(Blocks)]
    /\ Len(archive.files) < Len(archive.blocks)
    /\ HeaderAt(1) = 2
    /\ Chained

LEMMA FillersAreBlocks == Fillers \subseteq Blocks
<1>1. \A t \in Seq(0 .. 7) : t \in Seq(Nat)
  OBVIOUS
<1>2. Fillers \subseteq [name : Seq(Characters), size : Seq(0 .. 7)]
  BY ArchiveAssumption
<1> QED BY <1>1, <1>2 DEF Blocks

LEMMA Concatenating ==
  ASSUME NEW C, NEW s \in Seq(C), NEW t \in Seq(C)
  PROVE  /\ s \o t \in Seq(C) /\ Len(s \o t) = Len(s) + Len(t)
         /\ \A i \in 1 .. Len(s) : (s \o t)[i] = s[i]
         /\ \A i \in 1 .. Len(t) : (s \o t)[Len(s) + i] = t[i]
OBVIOUS

LEMMA ElementsBelong ==
  ASSUME NEW C, NEW s \in Seq(C)
  PROVE  \A i \in 1 .. Len(s) : s[i] \in C
OBVIOUS

LEMMA NoFilesChained == NoFiles => ArchiveInv
<1> SUFFICES ASSUME NoFiles PROVE ArchiveInv
  OBVIOUS
<1>1. PICK d \in Fillers : archive = [files |-> <<>>, blocks |-> <<d>>]
  BY DEF NoFiles
<1>2. d \in Blocks
  BY FillersAreBlocks
<1>3. archive.files = <<>> /\ archive.blocks = <<d>>
  BY <1>1
<1>4. <<>> \in Seq([name : Named, at : Nat]) /\ Len(<<>>) = 0 /\ <<d>> \in Seq(Blocks) /\ Len(<<d>>) = 1
  BY <1>2
<1>5. archive \in [files : Seq([name : Named, at : Nat]), blocks : Seq(Blocks)]
  BY <1>1, <1>4
<1>6. HeaderAt(1) = 2 /\ Chained
  BY <1>3, <1>4 DEF HeaderAt, Chained
<1> QED BY <1>3, <1>4, <1>5, <1>6 DEF ArchiveInv

LEMMA LongerChain == ArchiveInv /\ LongerArchive => ArchiveInv'
<1> SUFFICES ASSUME ArchiveInv, LongerArchive PROVE ArchiveInv'
  OBVIOUS
<1>1. PICK name \in Named, n \in FileSizes :
         \E c \in Contents(n) :
           archive' = [files  |-> Append(archive.files, [name |-> name, at |-> Len(archive.blocks) + 1]),
                       blocks |-> Append(archive.blocks, Header(name, n)) \o c]
  BY DEF LongerArchive
<1>0. PICK c \in Contents(n) :
         archive' = [files  |-> Append(archive.files, [name |-> name, at |-> Len(archive.blocks) + 1]),
                     blocks |-> Append(archive.blocks, Header(name, n)) \o c]
  BY <1>1
<1>2. PICK fs \in Seq([name : Named, at : Nat]), bs \in Seq(Blocks) : fs = archive.files /\ bs = archive.blocks
  BY DEF ArchiveInv
<1>3. PICK F \in Nat, L \in Nat : F = Len(fs) /\ L = Len(bs) /\ F < L
  BY <1>2 DEF ArchiveInv
<1>4. name \in Seq(Characters) /\ n \in Nat /\ Rest(n, 8, SizeDigits)[SizeDigits] = 0
  BY ArchiveAssumption
<1>5. PICK m \in Nat : m * BlockSize \in n .. n + BlockSize - 1 /\ c \in [1 .. m -> Fillers]
  <2>1. PICK m \in {k \in 0 .. n : k * BlockSize \in n .. n + BlockSize - 1} : c \in [1 .. m -> Fillers]
    BY Zenon DEF Contents
  <2> QED BY <1>4, <2>1
<1>6. PICK h : h = Header(name, n)
  OBVIOUS
<1>7. h \in Blocks /\ h.name = name /\ Step(h) = m + 1
  BY <1>4, <1>5, <1>6, HeaderProperties
<1>8. PICK f : f = [name |-> name, at |-> L + 1]
  OBVIOUS
<1>9. f \in [name : Named, at : Nat] /\ f.name = name /\ f.at = L + 1
  BY <1>8
<1>10. PICK gs : gs = Append(fs, f)
  OBVIOUS
<1>11. /\ gs \in Seq([name : Named, at : Nat]) /\ Len(gs) = F + 1 /\ gs[F + 1] = f
       /\ \A i \in 1 .. F : gs[i] = fs[i]
  BY <1>3, <1>9, <1>10
<1>12. PICK cs : cs = Append(bs, h) \o c
  OBVIOUS
<1>13. /\ cs \in Seq(Blocks) /\ Len(cs) = (L + 1) + m /\ cs[L + 1] = h
       /\ \A i \in 1 .. L : cs[i] = bs[i]
  <2>1. PICK e \in Seq(Blocks) : /\ e = Append(bs, h) /\ Len(e) = L + 1 /\ e[L + 1] = h
                                 /\ \A i \in 1 .. L : e[i] = bs[i]
    <3>1. /\ Append(bs, h) \in Seq(Blocks) /\ Len(Append(bs, h)) = L + 1 /\ Append(bs, h)[L + 1] = h
          /\ \A i \in 1 .. L : Append(bs, h)[i] = bs[i]
      BY <1>3, <1>7
    <3> QED BY <3>1, Zenon
  <2>2. c \in Seq(Blocks) /\ Len(c) = m
    BY <1>5, FillersAreBlocks
  <2>3. /\ e \o c \in Seq(Blocks) /\ Len(e \o c) = Len(e) + Len(c)
        /\ \A i \in 1 .. Len(e) : (e \o c)[i] = e[i]
    BY <2>2, Concatenating
  <2> QED BY <1>12, <2>1, <2>2, <2>3
<1>14. archive' = [files |-> gs, blocks |-> cs]
  BY <1>0, <1>2, <1>3, <1>6, <1>8, <1>10, <1>12, Zenon
<1>15. archive'.files = gs /\ archive'.blocks = cs
  BY <1>14
<1>16. archive' \in [files : Seq([name : Named, at : Nat]), blocks : Seq(Blocks)]
  BY <1>11, <1>13, <1>14
<1>17. \A i \in 1 .. F + 1 : HeaderAt(i)' = HeaderAt(i)
  <2>1. \A i \in Nat : HeaderAt(i) = IF i <= F THEN fs[i].at ELSE L + 1
    BY <1>2, <1>3, Zenon DEF HeaderAt
  <2>2. \A i \in Nat : HeaderAt(i)' = IF i <= F + 1 THEN gs[i].at ELSE ((L + 1) + m) + 1
    BY <1>11, <1>13, <1>15, Zenon DEF HeaderAt
  <2> SUFFICES ASSUME NEW i \in 1 .. F + 1 PROVE HeaderAt(i)' = HeaderAt(i)
    OBVIOUS
  <2>3. CASE i = F + 1
    <3>1. HeaderAt(i) = L + 1
      <4>1. i \in Nat /\ ~ (i <= F)
        BY <2>3
      <4> QED BY <2>1, <4>1, Zenon
    <3>2. HeaderAt(i)' = gs[i].at
      <4>1. i \in Nat /\ i <= F + 1
        BY <2>3
      <4> QED BY <2>2, <4>1, Zenon
    <3>3. gs[i].at = L + 1
      BY <1>9, <1>11, <2>3
    <3> QED BY <3>1, <3>2, <3>3
  <2>4. CASE i # F + 1
    <3>1. i \in Nat /\ i <= F /\ i <= F + 1 /\ gs[i] = fs[i]
      BY <1>11, <2>4
    <3>2. HeaderAt(i) = fs[i].at
      BY <2>1, <3>1, Zenon
    <3>3. HeaderAt(i)' = gs[i].at
      BY <2>2, <3>1, Zenon
    <3> QED BY <3>1, <3>2, <3>3
  <2> QED BY <2>3, <2>4
<1>18. HeaderAt(F + 2)' = L + 1 + (m + 1)
  <2>1. HeaderAt(F + 2)' = IF F + 2 <= F + 1 THEN gs[F + 2].at ELSE ((L + 1) + m) + 1
    BY <1>11, <1>13, <1>15, Zenon DEF HeaderAt
  <2> QED BY <2>1
<1>19. Chained'
  <2>1. ASSUME NEW i \in 1 .. F + 1
        PROVE  /\ gs[i].at \in 1 .. Len(cs) /\ cs[gs[i].at].name = gs[i].name
               /\ HeaderAt(i + 1)' = gs[i].at + Step(cs[gs[i].at])
    <3>1. CASE i = F + 1
      <4>1. gs[i] = f /\ gs[i].at = L + 1 /\ cs[gs[i].at] = h /\ i + 1 = F + 2
        BY <1>9, <1>11, <1>13, <3>1
      <4>2. HeaderAt(i + 1)' = L + 1 + (m + 1)
        BY <1>18, <4>1, Zenon
      <4>3. L + 1 \in 1 .. Len(cs) /\ L + 1 + (m + 1) = (L + 1) + Step(h)
        BY <1>7, <1>13
      <4>4. cs[gs[i].at].name = gs[i].name
        BY <1>7, <1>9, <4>1
      <4> QED BY <4>1, <4>2, <4>3, <4>4, Zenon
    <3>2. CASE i # F + 1
      <4>1. i \in 1 .. F /\ gs[i] = fs[i]
        BY <1>11, <3>2
      <4>2. /\ fs[i].at \in 1 .. L /\ bs[fs[i].at].name = fs[i].name
            /\ HeaderAt(i + 1) = fs[i].at + Step(bs[fs[i].at])
        BY <1>2, <1>3, <4>1 DEF ArchiveInv, Chained
      <4>3. cs[fs[i].at] = bs[fs[i].at]
        BY <1>13, <4>2
      <4>4. i + 1 \in 1 .. F + 1
        BY <4>1
      <4>5. HeaderAt(i + 1)' = HeaderAt(i + 1)
        BY <1>17, <4>4
      <4> QED BY <1>13, <4>1, <4>2, <4>3, <4>5
    <3> QED BY <3>1, <3>2
  <2> QED BY <1>11, <1>15, <2>1 DEF Chained
<1>20. HeaderAt(1)' = 2
  <2>1. HeaderAt(1) = 2
    BY DEF ArchiveInv
  <2> QED BY <1>17, <2>1
<1> QED BY <1>3, <1>11, <1>13, <1>15, <1>16, <1>19, <1>20 DEF ArchiveInv

\* Nothing stays nothing.
LEMMA RestOfNothing ==
  ASSUME NEW b \in Nat \ {0}, NEW m \in Nat
  PROVE  Rest(0, b, m)[m] = 0
<1>1. PICK q : q = Rest(0, b, m)
  OBVIOUS
<1>2. /\ q \in [0 .. m -> Nat] /\ q[0] = 0
      /\ \A k \in 1 .. m : q[k] = q[k - 1] \div b
  <2>1. PICK z \in Nat : z = 0
    OBVIOUS
  <2>2. /\ Rest(z, b, m) \in [0 .. m -> Nat] /\ Rest(z, b, m)[0] = z
        /\ \A k \in 1 .. m : Rest(z, b, m)[k] = Rest(z, b, m)[k - 1] \div b
    BY RestProperties
  <2> QED BY <1>1, <2>1, <2>2, Zenon
<1>3. 0 \div b = 0
  <2>1. PICK d \in Nat, r \in 0 .. b - 1 : d = 0 \div b /\ 0 = (b * d) + r
    BY Division
  <2>2. b * d = 0 /\ (d # 0 => b * d = b + (b * (d - 1)) /\ b * (d - 1) \in Nat)
    BY <2>1
  <2> QED BY <2>1, <2>2
<1> DEFINE T == {k \in 0 .. m : q[k] = 0}
<1>4. 0 \in T
  BY <1>2
<1>5. ASSUME NEW k \in 1 .. m, k - 1 \in T PROVE k \in T
  BY <1>2, <1>3, <1>5
<1> HIDE DEF T
<1>6. \A k \in 0 .. m : k \in T
  BY <1>4, <1>5, CountingUp
<1>7. m \in T
  BY <1>6
<1> QED BY <1>1, <1>7 DEF T

LEMMA TheEnd == Header(<<>>, 0) \in Blocks /\ Header(<<>>, 0).name = <<>>
<1>1. <<>> \in Seq(Characters) /\ 0 \in Nat /\ 8 \in Nat \ {0}
  OBVIOUS
<1>2. Rest(0, 8, SizeDigits)[SizeDigits] = 0
  BY <1>1, ArchiveAssumption, RestOfNothing
<1> QED BY <1>1, <1>2, HeaderProperties

LEMMA ChainIsFollowed == ArchiveInv => InitrdFinds
<1> SUFFICES ASSUME ArchiveInv, NEW name \in Named
             PROVE  LET hits == {i \in DOMAIN archive.files : archive.files[i].name = name}
                    IN  initrd_open(Ended, name) =
                           IF hits = {} \/ Len(name) > PathMax THEN None ELSE archive.files[Min(hits)].at + 1
  BY DEF InitrdFinds
<1>1. PICK fs \in Seq([name : Named, at : Nat]), bs \in Seq(Blocks) : fs = archive.files /\ bs = archive.blocks
  BY DEF ArchiveInv
<1>2. PICK F \in Nat, L \in Nat : F = Len(fs) /\ L = Len(bs) /\ F < L
  BY <1>1 DEF ArchiveInv
<1>3. PICK z \in Blocks : z = Header(<<>>, 0) /\ z.name = <<>>
  BY TheEnd
<1>4. PICK E \in Seq(Blocks) : /\ E = Ended /\ Len(E) = L + 2 /\ E[L + 1] = z
                               /\ \A i \in 1 .. L : E[i] = bs[i]
  <2>1. <<z, z>> \in Seq(Blocks) /\ Len(<<z, z>>) = 2 /\ <<z, z>>[1] = z
    BY <1>3
  <2>2. PICK e \in Seq(Blocks) : e = <<z, z>> /\ Len(e) = 2 /\ e[1] = z
    BY <2>1, Zenon
  <2>3. /\ bs \o e \in Seq(Blocks) /\ Len(bs \o e) = Len(bs) + Len(e)
        /\ \A i \in 1 .. Len(bs) : (bs \o e)[i] = bs[i]
        /\ \A i \in 1 .. Len(e) : (bs \o e)[Len(bs) + i] = e[i]
    BY Concatenating
  <2>4. Ended = bs \o e
    BY <1>1, <1>3, <2>2, Zenon DEF Ended
  <2>5. Len(bs \o e) = L + 2 /\ (bs \o e)[L + 1] = z
    BY <1>2, <2>2, <2>3
  <2> QED BY <1>2, <2>3, <2>4, <2>5
<1>5. PICK at \in [0 .. L + 2 -> Nat \ {0}] :
         at = Walk(E) /\ at[0] = 2 /\ \A k \in 1 .. L + 2 : at[k] = Advance(E, at[k - 1])
  <2>1. /\ Walk(E) \in [0 .. Len(E) -> Nat \ {0}] /\ Walk(E)[0] = 2
        /\ \A k \in 1 .. Len(E) : Walk(E)[k] = Advance(E, Walk(E)[k - 1])
    BY WalkProperties
  <2>2. Len(E) = L + 2
    BY <1>4
  <2> QED BY <2>1, <2>2, Zenon
<1>6. \A i \in 1 .. F : /\ fs[i].at \in 1 .. L /\ E[fs[i].at].name = fs[i].name
                        /\ HeaderAt(i) = fs[i].at /\ HeaderAt(i + 1) = Advance(E, fs[i].at)
  <2> SUFFICES ASSUME NEW i \in 1 .. F
               PROVE  /\ fs[i].at \in 1 .. L /\ E[fs[i].at].name = fs[i].name
                      /\ HeaderAt(i) = fs[i].at /\ HeaderAt(i + 1) = Advance(E, fs[i].at)
    OBVIOUS
  <2>1. /\ fs[i].at \in 1 .. L /\ bs[fs[i].at].name = fs[i].name
        /\ HeaderAt(i + 1) = fs[i].at + Step(bs[fs[i].at])
    BY <1>1, <1>2 DEF ArchiveInv, Chained
  <2>2. PICK x \in 1 .. L : x = fs[i].at
    BY <2>1
  <2>3. E[x] = bs[x] /\ ~ (x > Len(E))
    BY <1>4
  <2>4. Advance(E, x) = x + Step(bs[x])
    BY <2>3 DEF Advance
  <2>5. HeaderAt(i) = fs[i].at
    BY <1>1, <1>2 DEF HeaderAt
  <2> QED BY <2>1, <2>2, <2>3, <2>4, <2>5
<1> DEFINE T == {k \in 0 .. F : at[k] = HeaderAt(k + 1)}
<1>7. 0 \in T
  <2>1. HeaderAt(1) = 2 /\ 0 + 1 = 1
    BY DEF ArchiveInv
  <2> QED BY <1>5, <2>1
<1>8. ASSUME NEW k \in 1 .. F, k - 1 \in T PROVE k \in T
  <2>1. at[k - 1] = HeaderAt(k)
    BY <1>8
  <2>2. at[k] = Advance(E, at[k - 1])
    BY <1>2, <1>5
  <2>3. at[k] = HeaderAt(k + 1)
    BY <1>6, <2>1, <2>2
  <2> QED BY <2>3
<1> HIDE DEF T
<1>9. \A k \in 0 .. F : k \in T
  BY <1>7, <1>8, CountingUp
<1>10. \A k \in 0 .. F - 1 : at[k] = fs[k + 1].at
  <2> SUFFICES ASSUME NEW k \in 0 .. F - 1 PROVE at[k] = fs[k + 1].at
    OBVIOUS
  <2>1. k \in T /\ k + 1 \in 1 .. F
    BY <1>9
  <2> QED BY <1>6, <2>1 DEF T
<1>11. at[F] = L + 1
  <2>1. F \in T
    BY <1>9
  <2>2. HeaderAt(F + 1) = L + 1
    BY <1>1, <1>2 DEF HeaderAt
  <2> QED BY <2>1, <2>2 DEF T
<1>12. \A i \in 1 .. F : fs[i].name \in Named
  <2>1. \A i \in 1 .. Len(fs) : fs[i] \in [name : Named, at : Nat]
    BY ElementsBelong
  <2>2. \A i \in 1 .. Len(fs) : fs[i].name \in Named
    BY <2>1
  <2> QED BY <1>2, <2>2
<1>13. \A a \in Named : a \in Seq(Characters) /\ a # <<>>
  BY ArchiveAssumption
<1>14. name \in Seq(Characters) /\ name # <<>>
  BY <1>13
<1>15. PICK hits : hits = {i \in 1 .. F : fs[i].name = name}
  OBVIOUS
<1>16. hits = {i \in DOMAIN archive.files : archive.files[i].name = name}
  BY <1>1, <1>2, <1>15
<1>17. PICK S : S = {k \in DOMAIN at : \/ at[k] > Len(E)
                                       \/ kstrcmp(E[at[k]].name, name) = 0
                                       \/ E[at[k]].name = <<>>}
  OBVIOUS
<1>18. LastRound(E, name) = Min(S)
  BY <1>5, <1>17, Zenon DEF LastRound
<1>19. S \in SUBSET Nat
  BY <1>5, <1>17
<1>20. \A k \in 0 .. F - 1 : k \in S <=> k + 1 \in hits
  <2> SUFFICES ASSUME NEW k \in 0 .. F - 1 PROVE k \in S <=> k + 1 \in hits
    OBVIOUS
  <2>1. k + 1 \in 1 .. F /\ k \in DOMAIN at
    BY <1>2, <1>5
  <2>2. PICK x \in 1 .. L : x = at[k] /\ E[x].name = fs[k + 1].name
    BY <1>6, <1>10, <2>1
  <2>3. PICK a \in Named : a = fs[k + 1].name
    BY <1>12, <2>1
  <2>4. kstrcmp(a, name) = 0 <=> a = name
    BY <1>13, <1>14, ComparingStrings
  <2>5. ~ (x > Len(E)) /\ a # <<>>
    BY <1>4, <1>13
  <2>6. k \in S <=> a = name
    BY <1>17, <2>1, <2>2, <2>3, <2>4, <2>5
  <2> QED BY <1>15, <2>1, <2>3, <2>6
<1>21. F \in S
  <2>1. F \in DOMAIN at
    BY <1>2, <1>5
  <2>2. E[at[F]].name = <<>>
    BY <1>3, <1>4, <1>11
  <2> QED BY <1>17, <2>1, <2>2
<1>22. CASE Len(name) > PathMax
  BY <1>4, <1>16, <1>22 DEF initrd_open
<1>23. CASE ~ (Len(name) > PathMax) /\ hits = {}
  <2>1. \A y \in S : F <= y
    BY <1>19, <1>20, <1>23
  <2>2. Min(S) = F
    BY <1>19, <1>21, <2>1, LeastIsMin
  <2>3. kstrcmp(<<>>, name) # 0
    <3>1. <<>> \in Seq(Characters)
      OBVIOUS
    <3>2. kstrcmp(<<>>, name) = 0 <=> <<>> = name
      BY <1>14, <3>1, ComparingStrings
    <3> QED BY <1>14, <3>2
  <2>4. at[Min(S)] = L + 1 /\ ~ (L + 1 > Len(E)) /\ E[L + 1].name = <<>>
    BY <1>3, <1>4, <1>11, <2>2
  <2>5. initrd_open(E, name) = None
    BY <1>5, <1>18, <1>23, <2>3, <2>4 DEF initrd_open
  <2> QED BY <1>4, <1>16, <1>23, <2>5
<1>24. CASE ~ (Len(name) > PathMax) /\ hits # {}
  <2>1. hits \in SUBSET Nat
    BY <1>15
  <2>2. PICK j \in hits : j = Min(hits) /\ \A y \in hits : j <= y
    BY <1>24, <2>1, MinIsLeast
  <2>3. j \in 1 .. F /\ fs[j].name = name
    BY <1>15
  <2>4. j - 1 \in S
    BY <1>20, <2>3
  <2>5. \A y \in S : j - 1 <= y
    <3> SUFFICES ASSUME NEW y \in S PROVE j - 1 <= y
      OBVIOUS
    <3>1. y \in Nat
      BY <1>19
    <3>2. CASE y < F
      <4>1. y + 1 \in hits
        BY <1>20, <3>1, <3>2
      <4> QED BY <2>2, <2>3, <3>1, <4>1
    <3>3. CASE ~ (y < F)
      BY <2>3, <3>1, <3>3
    <3> QED BY <3>2, <3>3
  <2>6. Min(S) = j - 1
    BY <1>19, <2>4, <2>5, LeastIsMin
  <2>7. at[j - 1] = fs[j].at
    <3>1. PICK k \in 0 .. F - 1 : k = j - 1 /\ k + 1 = j
      BY <2>3
    <3> QED BY <1>10, <3>1
  <2>8. PICK x \in 1 .. L : x = fs[j].at /\ E[x].name = name
    BY <1>6, <2>3
  <2>9. kstrcmp(name, name) = 0
    BY <1>14, ComparingStrings
  <2>10. E[2].name # <<>>
    <3>1. 1 \in 1 .. F
      BY <2>3
    <3>2. fs[1].at = 2 /\ E[fs[1].at].name = fs[1].name
      BY <1>6, <3>1 DEF ArchiveInv
    <3> QED BY <1>12, <1>13, <3>1, <3>2
  <2>11. initrd_open(E, name) = x + 1
    <3>1. Walk(E)[LastRound(E, name)] = x
      BY <1>5, <1>18, <2>6, <2>7, <2>8
    <3>2. ~ (x > Len(E))
      BY <1>4
    <3> QED BY <1>24, <2>8, <2>9, <2>10, <3>1, <3>2, Zenon DEF initrd_open
  <2> QED BY <1>1, <1>4, <1>16, <1>24, <2>2, <2>8, <2>11
<1> QED BY <1>22, <1>23, <1>24

\* In every archive every file is found, and nothing else.
THEOREM ArchivesAreSearched == ArchiveSpec => []InitrdFinds
<1>1. ArchiveInv /\ [LongerArchive]_archive => ArchiveInv'
  <2>1. ArchiveInv /\ UNCHANGED archive => ArchiveInv'
    BY DEF ArchiveInv, Chained, HeaderAt
  <2> QED BY <2>1, LongerChain
<1> QED BY <1>1, NoFilesChained, ChainIsFollowed, PTL DEF ArchiveSpec
-----------------------------------------------------------------------------
(* Images                                                                  *)

\* What may be in memory, and what elf_load works on.
Bytes == {0, Old} \cup {File[o] : o \in Int}
States == [mem : [0 .. Top - 1 -> Bytes], frames : Nat, entry : Int, start : Int, end : Int]

LEMMA SmallRemainder ==
  ASSUME NEW a \in Nat, NEW b \in Nat \ {0}, a < b
  PROVE  a % b = a
<1>1. PICK d \in Nat, r \in 0 .. b - 1 : d = a \div b /\ r = a % b /\ a = (b * d) + r
  BY Division
<1>2. d # 0 => b * d = b + (b * (d - 1)) /\ b * (d - 1) \in Nat
  OBVIOUS
<1>3. d = 0 => b * d = 0
  OBVIOUS
<1> QED BY <1>1, <1>2, <1>3

LEMMA IntProperties ==
  ASSUME NEW n \in Nat
  PROVE  AsInt(n) \in Int /\ (n <= IntMax => AsInt(n) = n)
<1>1. PICK M \in Nat : M = IntMax
  BY IntAssumption
<1>2. PICK a \in Nat, b \in Nat \ {0} : a = n + M + 1 /\ b = 2 * (M + 1)
  OBVIOUS
<1>3. a % b \in Nat /\ AsInt(n) = (a % b) - M - 1
  <2>1. a % b \in 0 .. b - 1
    BY Division
  <2> QED BY <1>1, <1>2, <2>1 DEF AsInt
<1>4. n <= M => a % b = a
  <2>1. n <= M => a < b
    BY <1>2
  <2> QED BY <2>1, SmallRemainder
<1>5. PICK r \in Nat : r = a % b
  BY <1>3
<1> QED BY <1>1, <1>2, <1>3, <1>4, <1>5

LEMMA PageSizes == PageSize \in Nat /\ PageSize > 2
BY LoaderAssumption, PagesAreLarge

\* The page of an address.
LEMMA PageOf ==
  ASSUME NEW a \in Nat
  PROVE  PAGE_ALIGN(a) \in Nat /\ PAGE_ALIGN(a) <= a /\ a < PAGE_ALIGN(a) + PageSize
<1>1. PICK S \in Nat \ {0} : S = PageSize
  BY PageSizes
<1>2. PICK r \in 0 .. S - 1, d \in Nat : r = a % S /\ a = (S * d) + r
  BY Division
<1>3. PAGE_ALIGN(a) = a - r /\ S * d \in Nat
  BY <1>1, <1>2 DEF PAGE_ALIGN
<1> QED BY <1>1, <1>2, <1>3

LEMMA SegmentProperties ==
  ASSUME NEW p \in Segments
  PROVE  /\ p.p_type \in Nat /\ p.p_paddr \in Nat /\ p.p_offset \in Nat
         /\ p.p_filesz \in Nat /\ p.p_memsz \in Nat
         /\ LastByte(p) < Top
BY ImageAssumption

FileRange(p) == p.p_paddr .. p.p_paddr + p.p_filesz - 1

\* How many frames mmap gets.
Got(s, p) == IF s.frames < n_pages(p) THEN s.frames ELSE n_pages(p)

MappedRange(s, p) == PAGE_ALIGN(p.p_paddr) .. PAGE_ALIGN(p.p_paddr) + (Got(s, p) * PageSize) - 1

LEMMA PagesOfASegment ==
  ASSUME NEW s \in States, NEW p \in Segments
  PROVE  n_pages(p) \in Nat /\ Got(s, p) \in 0 .. s.frames /\ Got(s, p) <= n_pages(p)
<1>1. n_pages(p) \in Nat /\ s.frames \in Nat
  BY PageSizes, SegmentProperties DEF n_pages, States
<1> QED BY <1>1 DEF Got

\* What loading a segment leaves.
LEMMA LoadedProperties ==
  ASSUME NEW s \in States, NEW p \in Segments
  PROVE  /\ Loaded(s, p, File) \in States
         /\ Loaded(s, p, File).start = s.start
         /\ Loaded(s, p, File).frames = s.frames - Got(s, p)
         /\ Loaded(s, p, File).end = s.end + AsInt(n_pages(p) * PageSize)
         /\ \A a \in 0 .. Top - 1 :
               Loaded(s, p, File).mem[a] =
                  IF a \in FileRange(p) THEN File[p.p_offset + a - p.p_paddr]
                  ELSE IF a \in MappedRange(s, p) THEN 0 ELSE s.mem[a]
<1>1. PICK t : t = Mapped(s, p)
  OBVIOUS
<1>2. s.mem \in [0 .. Top - 1 -> Bytes] /\ s.frames \in Nat /\ s.end \in Int
  BY DEF States
<1>3. PICK m : m = [a \in DOMAIN s.mem |-> IF a \in MappedRange(s, p) THEN 0 ELSE s.mem[a]]
  OBVIOUS
<1>4. m \in [0 .. Top - 1 -> Bytes]
  BY <1>2, <1>3 DEF Bytes
<1>5. t = [s EXCEPT !.mem = m, !.frames = s.frames - Got(s, p)]
  BY <1>1, <1>3 DEF Mapped, MappedRange, Got
<1>6. s.frames - Got(s, p) \in Nat
  BY <1>2, PagesOfASegment
<1>7. /\ t \in States /\ t.mem = m /\ t.frames = s.frames - Got(s, p)
      /\ t.start = s.start /\ t.end = s.end
  BY <1>4, <1>5, <1>6 DEF States
<1>8. PICK f : f = [a \in DOMAIN t.mem |-> IF a \in FileRange(p) THEN File[p.p_offset + a - p.p_paddr] ELSE t.mem[a]]
  OBVIOUS
<1>9. f \in [0 .. Top - 1 -> Bytes]
  <2> SUFFICES ASSUME NEW a \in 0 .. Top - 1, a \in FileRange(p) PROVE File[p.p_offset + a - p.p_paddr] \in Bytes
    BY <1>4, <1>7, <1>8
  <2>1. p.p_offset + a - p.p_paddr \in Int
    BY SegmentProperties DEF FileRange
  <2> QED BY <2>1 DEF Bytes
<1>10. PICK e : e = s.end + AsInt(n_pages(p) * PageSize)
  OBVIOUS
<1>11. e \in Int
  <2>1. n_pages(p) * PageSize \in Nat
    BY PagesOfASegment, PageSizes
  <2>2. AsInt(n_pages(p) * PageSize) \in Int
    BY <2>1, IntProperties
  <2> QED BY <1>2, <1>10, <2>2
<1>12. Loaded(s, p, File) = [t EXCEPT !.mem = f, !.end = e]
  BY <1>1, <1>7, <1>8, <1>10 DEF Loaded, FileRange
<1>13. PICK u : u = [t EXCEPT !.mem = f, !.end = e]
  OBVIOUS
<1>14. /\ u \in States /\ u.mem = f /\ u.end = e
       /\ u.frames = t.frames /\ u.start = t.start
  BY <1>7, <1>9, <1>11, <1>13 DEF States
<1>15. \A a \in 0 .. Top - 1 : f[a] = IF a \in FileRange(p) THEN File[p.p_offset + a - p.p_paddr]
                                      ELSE IF a \in MappedRange(s, p) THEN 0 ELSE s.mem[a]
  BY <1>2, <1>3, <1>4, <1>7, <1>8
<1> QED BY <1>7, <1>10, <1>12, <1>13, <1>14, <1>15

\* The images of ImageSpec.
ImageInv == image \in [header : Headers, e_entry : Entries, file : {File}, phdrs : Seq(Segments), frames : FrameCounts]

LEMMA ImageProperties ==
  ASSUME ImageInv
  PROVE  /\ image.header \in Headers /\ image.e_entry \in Nat /\ image.file = File
         /\ image.phdrs \in Seq(Segments) /\ image.frames \in Nat
         /\ Memory \in States
<1>1. /\ image.header \in Headers /\ image.e_entry \in Nat /\ image.file = File
      /\ image.phdrs \in Seq(Segments) /\ image.frames \in Nat
  BY ImageAssumption DEF ImageInv
<1>2. Memory \in States
  BY <1>1 DEF Memory, States, Bytes, None, Old
<1> QED BY <1>1, <1>2

\* The loop over the program headers.
LEMMA PassedProperties ==
  ASSUME ImageInv
  PROVE  LET n == Len(image.phdrs)
             P == Passed(Memory, image)
         IN  /\ P \in [0 .. n -> States]
             /\ P[0] = [Memory EXCEPT !.entry = image.e_entry, !.start = image.e_entry, !.end = image.e_entry]
             /\ \A i \in 1 .. n : P[i] = IF i \in ToLoad THEN Loaded(P[i - 1], image.phdrs[i], File) ELSE P[i - 1]
<1> DEFINE n == Len(image.phdrs)
           x == [Memory EXCEPT !.entry = image.e_entry, !.start = image.e_entry, !.end = image.e_entry]
           Next1(i, s) == IF i \in ToLoad THEN Loaded(s, image.phdrs[i], File) ELSE s
           G == [q \in (1 .. n) \X States |-> Next1(q[1], q[2])]
           Recurs(f) == f = [i \in 0 .. n |-> IF i = 0 THEN x ELSE Next1(i, f[i - 1])]
<1>1. n \in Nat /\ \A i \in 1 .. n : image.phdrs[i] \in Segments
  BY ImageProperties
<1>2. x \in States
  <2>1. PICK s \in States, e \in Nat : s = Memory /\ e = image.e_entry
    BY ImageProperties
  <2>2. PICK t : t = [s EXCEPT !.entry = e]
    OBVIOUS
  <2>3. t \in States
    BY <2>2 DEF States
  <2>4. PICK u : u = [t EXCEPT !.start = e]
    OBVIOUS
  <2>5. u \in States
    BY <2>3, <2>4 DEF States
  <2>6. [u EXCEPT !.end = e] \in States
    BY <2>5 DEF States
  <2>7. x = [u EXCEPT !.end = e]
    BY <2>1, <2>2, <2>4
  <2> QED BY <2>6, <2>7
<1>3. \A i \in 1 .. n, s \in States : Next1(i, s) \in States
  BY <1>1, LoadedProperties
<1> HIDE DEF n, x, Next1
<1>4. G \in [(1 .. n) \X States -> States]
  BY <1>3
<1>5. \A i \in 1 .. n, s \in States : G[<<i, s>>] = Next1(i, s)
  OBVIOUS
<1> HIDE DEF G
<1>6. PICK g \in [0 .. n -> States] : g[0] = x /\ \A k \in 1 .. n : g[k] = G[<<k, g[k - 1]>>]
  <2>1. Passes(States, G, x, n) # {}
    BY <1>1, <1>2, <1>4, LoopsHaveValues
  <2> QED BY <2>1 DEF Passes
<1>7. \A k \in 1 .. n : g[k] = Next1(k, g[k - 1])
  <2>1. \A k \in 1 .. n : g[k - 1] \in States
    BY <1>1, <1>6
  <2> QED BY <1>5, <1>6, <2>1
<1>8. Recurs(g)
  <2>1. \A k \in 0 .. n : g[k] = IF k = 0 THEN x ELSE Next1(k, g[k - 1])
    BY <1>6, <1>7
  <2> QED BY <1>6, <2>1
<1>9. PICK P : P = Passed(Memory, image)
  OBVIOUS
<1>10. \A f : f = [i \in 0 .. n |-> IF i = 0 THEN x ELSE
                                    IF image.phdrs[i].p_type = PT_LOAD
                                    THEN Loaded(f[i - 1], image.phdrs[i], image.file) ELSE f[i - 1]]
              <=> Recurs(f)
  <2>1. \A i \in 1 .. n : i \in ToLoad <=> image.phdrs[i].p_type = PT_LOAD
    BY ImageProperties DEF ToLoad, n
  <2>2. image.file = File
    BY ImageProperties
  <2>3. \A f : \A i \in 0 .. n : i # 0 =>
            Next1(i, f[i - 1]) = IF image.phdrs[i].p_type = PT_LOAD
                                 THEN Loaded(f[i - 1], image.phdrs[i], image.file) ELSE f[i - 1]
    BY <1>1, <2>1, <2>2 DEF Next1
  <2> QED BY <2>3
<1>11. P = CHOOSE f : Recurs(f)
  <2>1. P = CHOOSE f : f = [i \in 0 .. n |-> IF i = 0 THEN x ELSE
                                             IF image.phdrs[i].p_type = PT_LOAD
                                             THEN Loaded(f[i - 1], image.phdrs[i], image.file) ELSE f[i - 1]]
    BY <1>9, Zenon DEF Passed, n, x
  <2> QED BY <1>10, <2>1, Zenon
<1>12. Recurs(P)
  BY <1>8, <1>11, Zenon
<1>13. P[0] = x /\ DOMAIN P = 0 .. n /\ \A k \in 1 .. n : P[k] = Next1(k, P[k - 1])
  BY <1>1, <1>12
<1> DEFINE T == {k \in 0 .. n : P[k] \in States}
<1>14. 0 \in T
  BY <1>1, <1>2, <1>13
<1>15. ASSUME NEW k \in 1 .. n, k - 1 \in T PROVE k \in T
  BY <1>3, <1>13, <1>15
<1> HIDE DEF T
<1>16. \A k \in 0 .. n : k \in T
  BY <1>1, <1>14, <1>15, CountingUp
<1>17. P \in [0 .. n -> States]
  BY <1>12, <1>16 DEF T
<1> QED BY <1>9, <1>13, <1>17 DEF n, x, Next1

\* How many frames the headers ask for: the fewer, the fewer headers.
LEMMA NeededProperties ==
  ASSUME ImageInv
  PROVE  LET n == Len(image.phdrs)
         IN  /\ Needed \in [0 .. n -> Nat] /\ Needed[0] = 0
             /\ \A i \in 1 .. n : Needed[i] = IF i \in ToLoad THEN Needed[i - 1] + n_pages(image.phdrs[i]) ELSE Needed[i - 1]
             /\ \A i \in 0 .. n : Needed[i] <= Needed[n]
<1> DEFINE n == Len(image.phdrs)
           Add(i, r) == IF i \in ToLoad THEN r + n_pages(image.phdrs[i]) ELSE r
           G == [q \in (1 .. n) \X Nat |-> Add(q[1], q[2])]
           Recurs(f) == f = [i \in 0 .. n |-> IF i = 0 THEN 0 ELSE Add(i, f[i - 1])]
<1>1. n \in Nat /\ \A i \in 1 .. n : image.phdrs[i] \in Segments
  BY ImageProperties
<1>2. \A i \in 1 .. n, r \in Nat : Add(i, r) \in Nat /\ r <= Add(i, r)
  <2>1. \A i \in 1 .. n : n_pages(image.phdrs[i]) \in Nat
    BY <1>1, SegmentProperties, PageSizes DEF n_pages
  <2> QED BY <2>1
<1> HIDE DEF n
<1>3. Needed = CHOOSE f : Recurs(f)
  BY Zenon DEF Needed, n
<1> HIDE DEF Add
<1>4. G \in [(1 .. n) \X Nat -> Nat]
  BY <1>2
<1>5. \A i \in 1 .. n, r \in Nat : G[<<i, r>>] = Add(i, r)
  OBVIOUS
<1> HIDE DEF G
<1>6. PICK g \in [0 .. n -> Nat] : g[0] = 0 /\ \A k \in 1 .. n : g[k] = G[<<k, g[k - 1]>>]
  <2>1. Passes(Nat, G, 0, n) # {}
    BY <1>1, <1>4, LoopsHaveValues
  <2> QED BY <2>1 DEF Passes
<1>7. \A k \in 1 .. n : g[k] = Add(k, g[k - 1])
  <2>1. \A k \in 1 .. n : g[k - 1] \in Nat
    BY <1>1, <1>6
  <2> QED BY <1>5, <1>6, <2>1
<1>8. Recurs(g)
  <2>1. \A k \in 0 .. n : g[k] = IF k = 0 THEN 0 ELSE Add(k, g[k - 1])
    BY <1>6, <1>7
  <2> QED BY <1>6, <2>1
<1>9. PICK N : N = Needed
  OBVIOUS
<1>10. Recurs(N)
  BY <1>3, <1>8, <1>9, Zenon
<1>11. N[0] = 0 /\ DOMAIN N = 0 .. n /\ \A k \in 1 .. n : N[k] = Add(k, N[k - 1])
  BY <1>1, <1>10
<1> DEFINE T == {k \in 0 .. n : N[k] \in Nat}
<1>12. 0 \in T
  BY <1>1, <1>11
<1>13. ASSUME NEW k \in 1 .. n, k - 1 \in T PROVE k \in T
  BY <1>2, <1>11, <1>13
<1> HIDE DEF T
<1>14. \A k \in 0 .. n : k \in T
  BY <1>1, <1>12, <1>13, CountingUp
<1>15. N \in [0 .. n -> Nat]
  BY <1>10, <1>14 DEF T
<1> DEFINE U == {j \in 0 .. n : N[n - j] <= N[n]}
<1>16. 0 \in U
  BY <1>1, <1>15
<1>17. ASSUME NEW j \in 1 .. n, j - 1 \in U PROVE j \in U
  <2>1. PICK i \in 1 .. n : i = n - (j - 1) /\ i - 1 = n - j
    BY <1>1
  <2>2. N[i] <= N[n]
    BY <1>17, <2>1
  <2>3. N[i - 1] \in Nat /\ N[i] \in Nat /\ N[n] \in Nat
    BY <1>1, <1>15
  <2>4. N[i - 1] <= N[i]
    BY <1>2, <1>11, <2>3
  <2>5. N[n - j] <= N[n]
    BY <2>1, <2>2, <2>3, <2>4
  <2> QED BY <2>5
<1> HIDE DEF U
<1>18. \A j \in 0 .. n : j \in U
  BY <1>1, <1>16, <1>17, CountingUp
<1>19. \A i \in 0 .. n : N[i] <= N[n]
  <2> SUFFICES ASSUME NEW i \in 0 .. n PROVE N[i] <= N[n]
    OBVIOUS
  <2>1. PICK j \in 0 .. n : j = n - i /\ n - j = i
    BY <1>1
  <2>2. j \in U
    BY <1>18
  <2> QED BY <2>1, <2>2 DEF U
<1> QED BY <1>9, <1>11, <1>15, <1>19 DEF n, Add

\* There are never fewer frames left than were not asked for.
LEMMA FramesLast ==
  ASSUME ImageInv
  PROVE  LET P == Passed(Memory, image)
         IN  \A k \in 0 .. Len(image.phdrs) : P[k].frames >= image.frames - Needed[k]
<1>1. PICK n \in Nat : n = Len(image.phdrs)
  BY ImageProperties
<1>2. PICK P \in [0 .. n -> States] :
         /\ P = Passed(Memory, image)
         /\ P[0] = [Memory EXCEPT !.entry = image.e_entry, !.start = image.e_entry, !.end = image.e_entry]
         /\ \A i \in 1 .. n : P[i] = IF i \in ToLoad THEN Loaded(P[i - 1], image.phdrs[i], File) ELSE P[i - 1]
  BY <1>1, PassedProperties
<1>3. PICK N \in [0 .. n -> Nat] :
         /\ N = Needed /\ N[0] = 0
         /\ \A i \in 1 .. n : N[i] = IF i \in ToLoad THEN N[i - 1] + n_pages(image.phdrs[i]) ELSE N[i - 1]
  BY <1>1, NeededProperties
<1>4. image.frames \in Nat /\ \A i \in 1 .. n : image.phdrs[i] \in Segments
  BY <1>1, ImageProperties
<1> DEFINE T == {k \in 0 .. n : P[k].frames >= image.frames - N[k]}
<1>5. 0 \in T
  <2>1. P[0].frames = image.frames
    BY <1>2 DEF Memory
  <2> QED BY <1>3, <1>4, <2>1
<1>6. ASSUME NEW k \in 1 .. n, k - 1 \in T PROVE k \in T
  <2>1. CASE k \notin ToLoad
    BY <1>2, <1>3, <1>6, <2>1
  <2>2. CASE k \in ToLoad
    <3>1. PICK s \in States, p \in Segments : s = P[k - 1] /\ p = image.phdrs[k]
      BY <1>2, <1>4
    <3>2. P[k].frames = s.frames - Got(s, p)
      BY <1>2, <2>2, <3>1, LoadedProperties
    <3>3. s.frames \in Nat /\ Got(s, p) \in Nat /\ n_pages(p) \in Nat /\ Got(s, p) <= n_pages(p)
      <4>1. n_pages(p) \in Nat /\ Got(s, p) \in 0 .. s.frames /\ Got(s, p) <= n_pages(p)
        BY PagesOfASegment
      <4>2. s.frames \in Nat
        BY DEF States
      <4> QED BY <4>1, <4>2
    <3>4. N[k] = N[k - 1] + n_pages(p) /\ N[k - 1] \in Nat
      BY <1>3, <2>2, <3>1
    <3>5. s.frames >= image.frames - N[k - 1]
      BY <1>6, <3>1
    <3>6. P[k].frames >= image.frames - N[k]
      BY <1>4, <3>2, <3>3, <3>4, <3>5
    <3> QED BY <3>6
  <2> QED BY <2>1, <2>2
<1> HIDE DEF T
<1>7. \A k \in 0 .. n : k \in T
  BY <1>5, <1>6, CountingUp
<1> QED BY <1>1, <1>2, <1>3, <1>7 DEF T

\* The fields that are compared are those of a program for this machine.
LEMMA OnlyGoodIsAccepted ==
  ASSUME NEW h \in Headers
  PROVE  is_valid(h) /\ is_supported(h) <=> h = Good
<1>1. PICK D : D = DOMAIN Ident \cup DOMAIN Kind
  OBVIOUS
<1>2. \A f \in DOMAIN Ident : f \notin DOMAIN Kind
  BY DEF Ident, Kind
<1>3. DOMAIN Good = D /\ h \in [D -> Nat]
  <2>1. DOMAIN Good = D
    BY <1>1 DEF Good
  <2> QED BY <2>1, ImageAssumption
<1>4. /\ \A f \in DOMAIN Ident : f \in D /\ Good[f] = Ident[f]
      /\ \A f \in DOMAIN Kind : f \in D /\ Good[f] = Kind[f]
  BY <1>1, <1>2 DEF Good
<1>5. h = Good <=> \A f \in D : h[f] = Good[f]
  <2>1. Good = [f \in D |-> Good[f]] /\ h = [f \in D |-> h[f]]
    BY <1>1, <1>3 DEF Good
  <2> QED BY <2>1
<1>6. is_valid(h) /\ is_supported(h) <=> \A f \in D : h[f] = Good[f]
  BY <1>1, <1>4 DEF is_valid, is_supported
<1> QED BY <1>5, <1>6

Ascending == \A i, j \in ToLoad :
                i < j => LastByte(image.phdrs[i]) < PAGE_ALIGN(image.phdrs[j].p_paddr)

\* The byte at a is the segment's.
Holds(s, p, a, enough) ==
    /\ a \in FileRange(p) => s.mem[a] = File[p.p_offset + a - p.p_paddr]
    /\ a \notin FileRange(p) /\ enough => s.mem[a] = 0

\* A segment is complete once it is loaded.
LEMMA LoadingWorks ==
  ASSUME NEW s \in States, NEW p \in Segments, NEW a \in p.p_paddr .. LastByte(p),
         NEW enough \in BOOLEAN, enough => s.frames >= n_pages(p)
  PROVE  Holds(Loaded(s, p, File), p, a, enough)
<1>1. PICK t : t = Loaded(s, p, File)
  OBVIOUS
<1>2. a \in 0 .. Top - 1
  BY SegmentProperties, ImageAssumption DEF LastByte
<1>3. t.mem[a] = IF a \in FileRange(p) THEN File[p.p_offset + a - p.p_paddr]
                 ELSE IF a \in MappedRange(s, p) THEN 0 ELSE s.mem[a]
  BY <1>1, <1>2, LoadedProperties
<1>4. ASSUME enough PROVE a \in MappedRange(s, p)
  <2>1. s.frames \in Nat /\ n_pages(p) \in Nat /\ Got(s, p) = n_pages(p)
    BY <1>4, PagesOfASegment DEF Got, States
  <2>2. PICK d \in Nat, m \in Nat, S \in Nat \ {0} :
           d = p.p_paddr /\ m = p.p_memsz /\ S = PageSize /\ a \in d .. d + m - 1
    BY SegmentProperties, PageSizes DEF LastByte
  <2>3. PICK f \in Nat : f = PAGE_ALIGN(d) /\ f <= d /\ d < f + S
    BY <2>2, PageOf
  <2>4. n_pages(p) = m + S - 1
    BY <2>2 DEF n_pages
  <2>5. (m + S - 1) * S >= m + S - 1
    <3>1. PICK k \in Nat : k = m + S - 1
      BY <2>2
    <3>2. k * S = k + (k * (S - 1)) /\ k * (S - 1) \in Nat
      BY <2>2
    <3> QED BY <3>1, <3>2
  <2>6. (m + S - 1) * S \in Nat
    BY <2>2
  <2>7. MappedRange(s, p) = f .. f + ((m + S - 1) * S) - 1
    BY <2>1, <2>2, <2>3, <2>4 DEF MappedRange
  <2>8. PICK z \in Nat : z = (m + S - 1) * S /\ z >= m + S - 1
    BY <2>5, <2>6
  <2>9. a \in f .. f + z - 1
    BY <2>2, <2>3, <2>8
  <2> QED BY <2>7, <2>8, <2>9
<1> QED BY <1>1, <1>3, <1>4 DEF Holds

\* What is loaded later lies behind.
LEMMA LaterLoadingSpares ==
  ASSUME NEW s \in States, NEW p \in Segments, NEW a \in 0 .. Top - 1, a < PAGE_ALIGN(p.p_paddr)
  PROVE  Loaded(s, p, File).mem[a] = s.mem[a]
<1>1. a \notin FileRange(p)
  BY SegmentProperties, PageOf DEF FileRange
<1>2. a \notin MappedRange(s, p)
  <2>1. PAGE_ALIGN(p.p_paddr) \in Nat
    BY SegmentProperties, PageOf
  <2> QED BY <2>1 DEF MappedRange
<1> QED BY <1>1, <1>2, LoadedProperties

LEMMA SegmentsStayIntact ==
  ASSUME ImageInv, Ascending, NEW i \in ToLoad, NEW a \in image.phdrs[i].p_paddr .. LastByte(image.phdrs[i])
  PROVE  Holds(Passed(Memory, image)[Len(image.phdrs)], image.phdrs[i], a,
               Needed[Len(image.phdrs)] <= image.frames)
<1>1. PICK n \in Nat : n = Len(image.phdrs)
  BY ImageProperties
<1>2. PICK P \in [0 .. n -> States] :
         /\ P = Passed(Memory, image)
         /\ \A k \in 1 .. n : P[k] = IF k \in ToLoad THEN Loaded(P[k - 1], image.phdrs[k], File) ELSE P[k - 1]
  BY <1>1, PassedProperties
<1>3. PICK enough \in BOOLEAN : enough <=> Needed[n] <= image.frames
  BY Zenon
<1>4. \A k \in 1 .. n : image.phdrs[k] \in Segments
  BY <1>1, ImageProperties
<1>5. i \in 1 .. n
  BY <1>1, ImageProperties DEF ToLoad
<1>6. PICK p \in Segments : p = image.phdrs[i]
  BY <1>4, <1>5
<1>7. a \in p.p_paddr .. LastByte(p) /\ a \in 0 .. Top - 1
  BY <1>6, SegmentProperties, ImageAssumption DEF LastByte
<1> DEFINE T == {k \in 0 .. n : k >= i => Holds(P[k], p, a, enough)}
<1>8. 0 \in T
  BY <1>5
<1>9. ASSUME NEW k \in 1 .. n, k - 1 \in T PROVE k \in T
  <2>1. CASE k < i
    BY <1>5, <2>1
  <2>2. CASE k = i
    <3>1. PICK s \in States : s = P[k - 1] /\ P[k] = Loaded(s, p, File)
      BY <1>2, <1>6, <2>2
    <3>2. enough => s.frames >= n_pages(p)
      <4>1. PICK N \in [0 .. n -> Nat] :
              /\ N = Needed
              /\ \A j \in 1 .. n : N[j] = IF j \in ToLoad THEN N[j - 1] + n_pages(image.phdrs[j]) ELSE N[j - 1]
              /\ \A j \in 0 .. n : N[j] <= N[n]
        BY <1>1, NeededProperties
      <4>2. N[i] = N[i - 1] + n_pages(p) /\ N[i] <= N[n]
        BY <1>5, <1>6, <4>1
      <4>3. s.frames >= image.frames - N[i - 1]
        <5>1. \A j \in 0 .. n : P[j].frames >= image.frames - N[j]
          BY <1>1, <1>2, <4>1, FramesLast, Zenon
        <5>2. k - 1 \in 0 .. n /\ k - 1 = i - 1
          BY <2>2
        <5> QED BY <3>1, <5>1, <5>2
      <4>4. N[i - 1] \in Nat /\ N[i] \in Nat /\ N[n] \in Nat /\ image.frames \in Nat
            /\ n_pages(p) \in Nat /\ s.frames \in Nat
        <5>1. n_pages(p) \in Nat
          BY PagesOfASegment
        <5>2. s.frames \in Nat
          BY DEF States
        <5>3. image.frames \in Nat
          BY ImageProperties
        <5> QED BY <1>5, <4>1, <5>1, <5>2, <5>3
      <4>5. enough => N[n] <= image.frames
        BY <1>3, <4>1
      <4> QED BY <4>2, <4>3, <4>4, <4>5
    <3>3. Holds(P[k], p, a, enough)
      BY <1>7, <3>1, <3>2, LoadingWorks
    <3> QED BY <3>3
  <2>3. CASE k > i
    <3>1. Holds(P[k - 1], p, a, enough)
      BY <1>5, <1>9, <2>3
    <3>2. CASE k \notin ToLoad
      <4>1. P[k] = P[k - 1]
        BY <1>2, <3>2
      <4> QED BY <3>1, <4>1
    <3>3. CASE k \in ToLoad
      <4>1. PICK s \in States, r \in Segments : s = P[k - 1] /\ r = image.phdrs[k] /\ P[k] = Loaded(s, r, File)
        BY <1>2, <1>4, <3>3
      <4>2. LastByte(p) < PAGE_ALIGN(r.p_paddr)
        BY <1>6, <2>3, <3>3, <4>1 DEF Ascending
      <4>3. PAGE_ALIGN(r.p_paddr) \in Nat /\ LastByte(p) \in Int
        <5>1. r.p_paddr \in Nat /\ LastByte(p) \in Int
          BY SegmentProperties DEF LastByte
        <5>2. PAGE_ALIGN(r.p_paddr) \in Nat
          BY <5>1, PageOf
        <5> QED BY <5>1, <5>2
      <4>4. a < PAGE_ALIGN(r.p_paddr)
        BY <1>7, <4>2, <4>3
      <4>5. P[k].mem[a] = s.mem[a]
        BY <1>7, <4>1, <4>4, LaterLoadingSpares
      <4>6. Holds(P[k], p, a, enough)
        BY <3>1, <4>1, <4>5 DEF Holds
      <4> QED BY <4>6
    <3> QED BY <3>2, <3>3
  <2> QED BY <1>5, <2>1, <2>2, <2>3
<1> HIDE DEF T
<1>10. \A k \in 0 .. n : k \in T
  BY <1>8, <1>9, CountingUp
<1>11. Holds(P[n], p, a, enough)
  <2>1. n \in T /\ n >= i
    BY <1>5, <1>10
  <2> QED BY <2>1 DEF T
<1> QED BY <1>1, <1>2, <1>3, <1>6, <1>11, Zenon DEF Holds

LEMMA ImagesAreIntact == ImageInv => ImageIntact
<1> SUFFICES ASSUME ImageInv PROVE ImageIntact
  OBVIOUS
<1>1. image.header = Good <=> is_valid(image.header) /\ is_supported(image.header)
  BY ImageProperties, OnlyGoodIsAccepted
<1>2. CASE image.header # Good
  <2>1. After = [Memory EXCEPT !.entry = None]
    BY <1>1, <1>2 DEF After, elf_load
  <2>2. [Memory EXCEPT !.entry = None] = Memory
    <3>1. PICK s \in States : s = Memory
      BY ImageProperties
    <3>2. [s EXCEPT !.entry = s.entry] = s
      BY DEF States
    <3>3. s.entry = None
      BY <3>1 DEF Memory
    <3> QED BY <3>1, <3>2, <3>3
  <2> QED BY <1>2, <2>1, <2>2 DEF ImageIntact
<1>3. CASE image.header = Good
  <2>1. PICK t : t = Passed(Memory, image)[Len(image.phdrs)] /\ t = After
    BY <1>1, <1>3 DEF After, elf_load
  <2>2. ASSUME Ascending, NEW i \in ToLoad, NEW a \in image.phdrs[i].p_paddr .. LastByte(image.phdrs[i])
        PROVE  Holds(t, image.phdrs[i], a, Needed[Len(image.phdrs)] <= image.frames)
    BY <2>1, <2>2, SegmentsStayIntact
  <2> QED BY <1>3, <2>1, <2>2 DEF ImageIntact, Ascending, Holds, FileRange
<1> QED BY <1>2, <1>3

\* A segment that begins at most two pages behind what was counted so far ends
\* within what is counted with it.
LEMMA EndsWithin ==
  ASSUME NEW e \in Nat, NEW d \in Nat, NEW m \in Nat, NEW S \in Nat, S > 2, d <= e + (2 * S)
  PROVE  d + m - 1 <= e + ((m + S - 1) * S) /\ (m + S - 1) * S \in Nat
<1>1. /\ (m + S - 1) * S = (m * (S - 1)) + m + ((S - 3) * S) + (2 * S)
      /\ m * (S - 1) \in Nat /\ (S - 3) * S \in Nat
  OBVIOUS
<1> QED BY <1>1

\* The two ends of the image enclose it.
LEMMA ImagesAreEnclosed == ImageInv => OwnStringsAccepted
<1> SUFFICES ASSUME ImageInv, image.header = Good,
                    \A j \in ToLoad :
                       /\ image.phdrs[j].p_paddr >= image.e_entry
                       /\ n_pages(image.phdrs[j]) * PageSize <= IntMax
                       /\ \/ image.phdrs[j].p_paddr = image.e_entry
                          \/ \E i \in ToLoad : i < j /\ image.phdrs[j].p_paddr <= LastByte(image.phdrs[i]) + (2 * PageSize),
                    NEW i \in ToLoad, NEW str \in image.phdrs[i].p_paddr .. LastByte(image.phdrs[i])
             PROVE  ~ Denied(After, str)
  BY DEF OwnStringsAccepted
<1>1. PICK n \in Nat : n = Len(image.phdrs)
  BY ImageProperties
<1>2. PICK P \in [0 .. n -> States] :
         /\ P = Passed(Memory, image)
         /\ P[0] = [Memory EXCEPT !.entry = image.e_entry, !.start = image.e_entry, !.end = image.e_entry]
         /\ \A k \in 1 .. n : P[k] = IF k \in ToLoad THEN Loaded(P[k - 1], image.phdrs[k], File) ELSE P[k - 1]
  BY <1>1, PassedProperties
<1>3. PICK e \in Nat : e = image.e_entry
  BY ImageProperties
<1>4. PICK S \in Nat : S = PageSize /\ S > 2
  BY PageSizes
<1>5. \A k \in 1 .. n : image.phdrs[k] \in Segments
  BY <1>1, ImageProperties
<1>6. \A j \in ToLoad : j \in 1 .. n
  BY <1>1, ImageProperties DEF ToLoad
<1> DEFINE Within(k) == /\ P[k].start = e /\ P[k].end >= e /\ P[k].end \in Nat
                        /\ \A j \in ToLoad : j <= k => LastByte(image.phdrs[j]) <= P[k].end
           T == {k \in 0 .. n : Within(k)}
<1>7. 0 \in T
  <2>1. P[0].start = e /\ P[0].end = e
    BY <1>2, <1>3 DEF Memory
  <2>2. \A j \in ToLoad : ~ (j <= 0)
    BY <1>6
  <2> QED BY <2>1, <2>2
<1>8. ASSUME NEW k \in 1 .. n, k - 1 \in T PROVE k \in T
  <2>1. Within(k - 1)
    BY <1>8
  <2>2. CASE k \notin ToLoad
    <3>1. P[k] = P[k - 1]
      BY <1>2, <2>2
    <3>2. \A j \in ToLoad : j <= k => j <= k - 1
      BY <1>6, <2>2
    <3> QED BY <2>1, <3>1, <3>2
  <2>3. CASE k \in ToLoad
    <3>1. PICK s \in States, p \in Segments : s = P[k - 1] /\ p = image.phdrs[k] /\ P[k] = Loaded(s, p, File)
      BY <1>2, <1>5, <2>3
    <3>2. PICK d \in Nat, m \in Nat : d = p.p_paddr /\ m = p.p_memsz
      BY SegmentProperties
    <3>3. n_pages(p) = m + S - 1 /\ LastByte(p) = d + m - 1
      BY <1>4, <3>2 DEF n_pages, LastByte
    <3>4. PICK z \in Nat : z = s.end /\ z >= e
      BY <2>1, <3>1
    <3>5. d <= z + (2 * S)
      <4>1. CASE d = e
        BY <1>4, <3>4, <4>1
      <4>2. CASE d # e
        <5>1. PICK j \in ToLoad : j < k /\ d <= LastByte(image.phdrs[j]) + (2 * S)
          BY <1>3, <1>4, <2>3, <3>1, <3>2, <4>2
        <5>2. j \in 1 .. n /\ j <= k - 1
          BY <1>6, <5>1
        <5>3. LastByte(image.phdrs[j]) <= z
          BY <2>1, <3>1, <3>4, <5>2
        <5>4. LastByte(image.phdrs[j]) \in Int
          BY <1>5, <5>2, SegmentProperties DEF LastByte
        <5> QED BY <5>1, <5>3, <5>4
      <4> QED BY <4>1, <4>2
    <3>6. PICK w \in Nat : w = (m + S - 1) * S /\ d + m - 1 <= z + w
      BY <1>4, <3>5, EndsWithin
    <3>7. AsInt(n_pages(p) * PageSize) = w
      <4>1. n_pages(p) * PageSize = w
        BY <1>4, <3>3, <3>6
      <4>2. w <= IntMax
        BY <2>3, <3>1, <4>1
      <4> QED BY <4>1, <4>2, IntProperties
    <3>8. P[k].end = z + w /\ P[k].start = e
      BY <2>1, <3>1, <3>4, <3>7, LoadedProperties
    <3>9. ASSUME NEW j \in ToLoad, j <= k PROVE LastByte(image.phdrs[j]) <= P[k].end
      <4>1. CASE j = k
        BY <3>1, <3>3, <3>6, <3>8, <4>1
      <4>2. CASE j # k
        <5>1. j \in 1 .. n /\ j <= k - 1
          BY <1>6, <3>9, <4>2
        <5>2. LastByte(image.phdrs[j]) <= z
          BY <2>1, <3>1, <3>4, <5>1
        <5>3. LastByte(image.phdrs[j]) \in Int
          BY <1>5, <5>1, SegmentProperties DEF LastByte
        <5> QED BY <3>8, <5>2, <5>3
      <4> QED BY <4>1, <4>2
    <3> QED BY <3>4, <3>8, <3>9
  <2> QED BY <2>2, <2>3
<1> HIDE DEF T
<1>9. \A k \in 0 .. n : k \in T
  BY <1>7, <1>8, CountingUp
<1>10. Within(n)
  BY <1>9 DEF T
<1>11. PICK t : t = P[n] /\ t = After
  BY <1>1, <1>2, OnlyGoodIsAccepted, ImageProperties DEF After, elf_load
<1>12. LastByte(image.phdrs[i]) <= t.end /\ t.start = e /\ t.end \in Nat
  <2>1. i <= n
    BY <1>6
  <2> QED BY <1>10, <1>11, <2>1
<1>13. e <= image.phdrs[i].p_paddr
  BY <1>3
<1>14. image.phdrs[i].p_paddr \in Nat /\ LastByte(image.phdrs[i]) \in Int
  BY <1>5, <1>6, SegmentProperties DEF LastByte
<1>15. ~ (str < t.start) /\ ~ (str > t.end)
  BY <1>12, <1>13, <1>14
<1> QED BY <1>11, <1>15 DEF Denied

\* Every program that is loaded is complete in memory and may print what it holds.
THEOREM LoadingKeepsItsPromise == ImageSpec => []LoadedProgramWorks
<1>1. NoSegments => ImageInv
  <2> SUFFICES ASSUME NoSegments PROVE ImageInv
    OBVIOUS
  <2>1. <<>> \in Seq(Segments)
    OBVIOUS
  <2> QED BY <2>1 DEF NoSegments, ImageInv
<1>2. ImageInv /\ [LongerImage]_image => ImageInv'
  <2> SUFFICES ASSUME ImageInv, [LongerImage]_image PROVE ImageInv'
    OBVIOUS
  <2>1. CASE UNCHANGED image
    BY <2>1 DEF ImageInv
  <2>2. CASE LongerImage
    <3>1. PICK p \in Segments : image' = [image EXCEPT !.phdrs = Append(@, p)]
      BY <2>2 DEF LongerImage
    <3>2. Append(image.phdrs, p) \in Seq(Segments)
      BY ImageProperties
    <3> QED BY <3>1, <3>2 DEF ImageInv
  <2> QED BY <2>1, <2>2
<1>3. ImageInv => LoadedProgramWorks
  BY ImagesAreIntact, ImagesAreEnclosed DEF LoadedProgramWorks
<1> QED BY <1>1, <1>2, <1>3, PTL DEF ImageSpec
=============================================================================
