---------------------------------- MODULE Boot ----------------------------------
(***************************************************************************)
(* From _start to the first program, and what meets the CPU afterwards:    *)
(* kmain.c, the descriptor tables, the interrupt controllers, the ACPI     *)
(* tables they depend on, the PIT and the exception handlers.              *)
(*                                                                         *)
(* The kernel boots with interrupts off; the iretq of enter_ring3 turns    *)
(* them on.  Numbers are those of the machine, but for addresses, whose    *)
(* fields have as many values as the constant Span says.                   *)
(***************************************************************************)
EXTENDS Integers, Sequences, FiniteSetsExt, Folds

CONSTANTS Firmware,    \* what the ACPI tables may say, see FirmwareAssumption
          LastPin,     \* the number of the I/O APIC's last input, as IOAPICVER has it
          TimerPin(_), \* the input the board wires the PIT to, by firmware
          Span,        \* values of a descriptor's lower base fields: 2^16, 2^8, 2^8
          Heap,        \* addresses kmalloc may return
          Proc         \* the processes there may be

NULL == 0
Pin == 0 .. LastPin
\* What the firmware leaves in the I/O APIC: masked entries and open ones.
Masked == [low |-> 65536, high |-> 0]
Stale == [low |-> 9, high |-> 0]
Type == [io_apic |-> 1, override |-> 2]
Entry == [type : Nat, length : Nat, addr : Nat, source : Nat, interrupt : Nat, base : Nat]

ASSUME FirmwareAssumption ==
    \A f \in Firmware : /\ f.rsdt \in Seq(0 .. 255)
                        /\ f.tables \in Seq([signature : STRING, entries : Seq(Entry)])
                        /\ TimerPin(f) \in Pin
ASSUME ConstantAssumption == /\ LastPin \in Nat
                             /\ Span \in [1 .. 3 -> Nat \ {0}]
                             /\ Heap \subseteq Nat \ {NULL} /\ Proc \subseteq Nat \ {NULL}

\* What the firmware tells of IRQ 0 is true: an override, if there is one, names
\* the timer's input.
ASSUME OverrideAssumption ==
    \A f \in Firmware : \A i \in DOMAIN f.tables :
        LET told == {e \in {f.tables[i].entries[j] : j \in DOMAIN f.tables[i].entries} :
                         e.type = Type.override /\ e.source = 0}
        IN  f.tables[i].signature = "APIC" => /\ \A e \in told : e.interrupt = TimerPin(f)
                                              /\ told = {} => TimerPin(f) = 0

VARIABLES fw,        \* this machine's tables
          pc,        \* how far _start has come
          cur,       \* parse_madt's place in the MADT
          ioapic,    \* the I/O APIC's address, or NULL
          redir,     \* its redirection table
          idt, idtr, \* the gates; whether IDTR points to them
          lapic,     \* the local APIC's registers
          inService, \* the local APIC waits for an EOI
          gdtr,      \* the descriptor table in use
          tss, desc, \* the TSS's address and its descriptor
          tr,        \* the task register's selector
          pit,       \* the timer's mode and counter
          intr,      \* the interrupt flag
          running,   \* running_process
          tick,      \* flips with every timer interrupt served
          status     \* "boot", "user", "irq", "handler", "nested", "halted" or "lost"

acpi == <<fw, cur, ioapic>>
cpu  == <<idt, idtr, gdtr, tss, desc, tr>>
dev  == <<redir, lapic, pit>>
live == <<inService, intr, running, tick>>
vars == <<pc, acpi, cpu, dev, live, status>>
-----------------------------------------------------------------------------
(* Descriptor tables                                                       *)

Descriptor(a, g) == [access |-> a, granularity |-> g]

\* The GDT of gdt.c; the TSS's descriptor takes two entries.
gdt == << Descriptor(0, 0),
          Descriptor(154, 0),   Descriptor(146, 0),
          Descriptor(154, 207), Descriptor(146, 207),
          Descriptor(154, 32),  Descriptor(146, 0),
          Descriptor(250, 175), Descriptor(242, 0),
          Descriptor(0, 0), Descriptor(0, 0) >>

\* The bootloader's table ends before the user's entries.
LimineGdt == SubSeq(gdt, 1, 7)

\* The bit of that weight.
Bit(n, weight) == (n \div weight) % 2
Dpl(d) == (d.access \div 32) % 4
\* Present 64-bit code; present writable data.
Code64(d) == Bit(d.access, 128) = 1 /\ Bit(d.access, 8) = 1 /\ Bit(d.granularity, 32) = 1
                                    /\ Bit(d.granularity, 64) = 0
Data(d) == Bit(d.access, 128) = 1 /\ Bit(d.access, 16) = 1 /\ Bit(d.access, 8) = 0 /\ Bit(d.access, 2) = 1
Selected(table, sel) == IF (sel \div 8) + 1 \in DOMAIN table THEN table[(sel \div 8) + 1]
                                                             ELSE Descriptor(0, 0)

\* The selectors of idt.c, ring3.asm and tss.asm.
Selector == [gate |-> 40, user_code |-> 56 + 3, user_data |-> 64 + 3, tss |-> 72 + 3]

Absent == [isr |-> NULL, cs |-> 0, type |-> 0, dpl |-> 0, p |-> 0]
\* The field has four bits; the gate's DPL is 3 whatever the caller asks for.
set_desc(isr, type) == [isr |-> isr, cs |-> Selector.gate, type |-> type % 16, dpl |-> 3, p |-> 1]

TRAP_GATE_FLAGS == 143
INT_GATE_FLAGS == 142
IDT_INT_GATE_USER == 238

\* init_exceptions: overflow gets the handler of BOUND.
Exceptions == {0, 1, 3, 4, 5, 6, 8, 10, 11, 12, 13, 14}
Handler(v) == IF v = 4 THEN 5 ELSE v
Spurious == 255
Vector == Exceptions \cup {2, 7, 9, 32, 128, Spurious}
-----------------------------------------------------------------------------
(* _start                                                                  *)

\* serial_init, framebuffer_init and the messages are left out.
Order == << "load_idt", "acpi_init", "parse_madt", "ioapic_init", "lapic_init",
            "init_exceptions", "register_irq", "register_user_int",
            "init_memory_managers", "write_tss", "load_gdt", "load_tss",
            "fs_init", "init_pit", "proc_init" >>

At(f) == status = "boot" /\ Order[pc] = f

Init == /\ fw \in Firmware /\ pc = 1 /\ cur = 0
        /\ ioapic = NULL /\ redir \in [Pin -> {Masked, Stale}]
        /\ idt = [v \in Vector |-> Absent] /\ idtr = FALSE
        /\ lapic = [dfr |-> NULL, ldr |-> NULL, svr |-> 255] /\ inService = FALSE
        /\ gdtr = LimineGdt /\ tss = NULL /\ desc = [base |-> <<0, 0, 0, 0>>, type |-> 0, p |-> 0]
        /\ tr = NULL /\ pit = [mode |-> 0, low |-> 0, high |-> 0]
        /\ intr = FALSE /\ running = NULL /\ tick = 0 /\ status = "boot"

load_idt == At("load_idt") /\ pc' = pc + 1 /\ idtr' = TRUE
            /\ UNCHANGED <<acpi, idt, gdtr, tss, desc, tr, dev, live, status>>

\* The bytes of the RSDT add up to 0.
do_checksum == FoldFunction(LAMBDA a, b : a + b, 0, fw.rsdt) % 256 = 0

\* find_madt takes the first; if there is none madt stays NULL.
MadtAt == {i \in DOMAIN fw.tables : fw.tables[i].signature = "APIC"}
Entries == IF MadtAt = {} THEN <<>> ELSE fw.tables[Min(MadtAt)].entries

\* A step reads or writes through NULL, or through what is not mapped.  Either
\* no gate stands for the fault, or its handler faults on running_process.
lost == /\ status' = "lost"
        /\ UNCHANGED <<pc, acpi, cpu, dev, live>>

acpi_init == /\ At("acpi_init")
             /\ IF ~ do_checksum THEN status' = "halted" /\ UNCHANGED <<pc, acpi, cpu, dev, live>>
                ELSE IF MadtAt = {} THEN lost
                ELSE pc' = pc + 1 /\ cur' = 1 /\ UNCHANGED <<fw, ioapic, cpu, dev, live, status>>

\* Slip: only known entries are stepped over.
parse_madt_known ==
    /\ At("parse_madt")
    /\ IF cur > Len(Entries) THEN pc' = pc + 1 /\ UNCHANGED <<acpi, cpu, dev, live, status>>
       ELSE /\ ioapic' = IF Entries[cur].type = Type.io_apic THEN Entries[cur].addr ELSE ioapic
            /\ cur' = IF Entries[cur].type = Type.io_apic THEN cur + 1 ELSE cur
            /\ UNCHANGED <<fw, pc, cpu, dev, live, status>>

\* One round: the last I/O APIC wins; an entry of no length is read for ever.
parse_madt ==
    /\ At("parse_madt")
    /\ IF cur > Len(Entries) THEN pc' = pc + 1 /\ UNCHANGED <<acpi, cpu, dev, live, status>>
       ELSE /\ ioapic' = IF Entries[cur].type = Type.io_apic THEN Entries[cur].addr ELSE ioapic
            /\ cur' = IF Entries[cur].length = 0 THEN cur ELSE cur + 1
            /\ UNCHANGED <<fw, pc, cpu, dev, live, status>>

max_red_entries == LastPin + 1

ioapic_init ==
    /\ At("ioapic_init")
    /\ IF ioapic = NULL THEN lost
       ELSE /\ pc' = pc + 1
            /\ redir' = [p \in Pin |-> IF p < max_red_entries THEN Masked ELSE redir[p]]
            /\ UNCHANGED <<acpi, cpu, lapic, pit, live, status>>

\* LDR is 0x01000000 and DFR all ones; SVR's bit 8 enables the APIC.
lapic_init ==
    /\ At("lapic_init") /\ pc' = pc + 1
    /\ lapic' = [dfr |-> -1, ldr |-> 1, svr |-> 256 + Spurious]
    /\ UNCHANGED <<acpi, cpu, redir, pit, live, status>>

init_exceptions ==
    /\ At("init_exceptions") /\ pc' = pc + 1
    /\ idt' = [v \in Vector |-> IF v \in Exceptions THEN set_desc(Handler(v), TRAP_GATE_FLAGS)
                                                    ELSE idt[v]]
    /\ UNCHANGED <<acpi, idtr, gdtr, tss, desc, tr, dev, live, status>>

\* Slip: the override is ignored.
acpi_remap_irq_none(irq) == irq

\* The first override decides; without one the IRQ is the pin.
acpi_remap_irq(irq) ==
    LET hits == {i \in DOMAIN Entries : Entries[i].type = Type.override /\ Entries[i].source = irq}
    IN  IF hits = {} THEN irq ELSE Entries[Min(hits)].interrupt

register_irq ==
    /\ At("register_irq") /\ pc' = pc + 1
    /\ idt' = [idt EXCEPT ![32] = set_desc(32, INT_GATE_FLAGS)]
    /\ redir' = [redir EXCEPT ![acpi_remap_irq(0)] = [low |-> 32, high |-> 0]]
    /\ UNCHANGED <<acpi, idtr, gdtr, tss, desc, tr, lapic, pit, live, status>>

register_user_int ==
    /\ At("register_user_int") /\ pc' = pc + 1
    /\ idt' = [idt EXCEPT ![128] = set_desc(128, IDT_INT_GATE_USER)]
    /\ UNCHANGED <<acpi, idtr, gdtr, tss, desc, tr, dev, live, status>>

\* The memory managers and the file systems have modules of their own.
init_memory_managers == /\ At("init_memory_managers") /\ pc' = pc + 1
                        /\ UNCHANGED <<acpi, cpu, dev, live, status>>

fs_init == /\ At("fs_init")
           /\ \/ pc' = pc + 1 /\ UNCHANGED <<acpi, cpu, dev, live, status>>
              \/ status' = "halted" /\ UNCHANGED <<pc, acpi, cpu, dev, live>>
              \/ lost
-----------------------------------------------------------------------------
(* TSS, GDT, PIT and the first program                                     *)

\* Slip: the two middle bytes change places.
BaseFields_swapped(a) == << a % Span[1], (a \div (Span[1] * Span[2])) % Span[3],
                            (a \div Span[1]) % Span[2], a \div ((Span[1] * Span[2]) * Span[3]) >>

BaseFields(a) == << a % Span[1], (a \div Span[1]) % Span[2],
                    (a \div (Span[1] * Span[2])) % Span[3], a \div ((Span[1] * Span[2]) * Span[3]) >>

\* What the CPU makes of them.
Base(d) == d.base[1] + (Span[1] * (d.base[2] + (Span[2] * (d.base[3] + (Span[3] * d.base[4])))))

\* kmemzero writes through a NULL of kmalloc.
write_tss ==
    /\ At("write_tss")
    /\ \/ /\ pc' = pc + 1
          /\ tss' \in Heap
          /\ desc' = [base |-> BaseFields(tss'), type |-> 9, p |-> 1]
          /\ UNCHANGED <<acpi, idt, idtr, gdtr, tr, dev, live, status>>
       \/ lost

load_gdt == At("load_gdt") /\ pc' = pc + 1 /\ gdtr' = gdt
            /\ UNCHANGED <<acpi, idt, idtr, tss, desc, tr, dev, live, status>>

\* ltr wants a TSS that is there and not busy; otherwise it faults.
load_tss == /\ At("load_tss")
            /\ IF Len(gdtr) < 11 THEN lost
               ELSE /\ desc.p = 1 /\ desc.type = 9
                    /\ pc' = pc + 1
                    /\ tr' = Selector.tss
                    /\ desc' = [desc EXCEPT !.type = 11]
                    /\ UNCHANGED <<acpi, idt, idtr, gdtr, tss, dev, live, status>>

PIT_FREQ == 100
divisor == 1193180 \div PIT_FREQ

Counter == [mode |-> 54, low |-> divisor % 256, high |-> divisor \div 256]

init_pit == At("init_pit") /\ pc' = pc + 1 /\ pit' = Counter
            /\ UNCHANGED <<acpi, cpu, redir, lapic, live, status>>

\* Slip: nobody is made the running process.
proc_init_nobody ==
    /\ At("proc_init")
    /\ status' = "user" /\ intr' = TRUE
    /\ UNCHANGED <<pc, acpi, cpu, dev, inService, running, tick>>

\* The program is loaded and entered, an ASSERT fails, or a NULL is used: by
\* then running_process is set, or not yet.
proc_init ==
    /\ At("proc_init")
    /\ \/ running' \in Proc /\ intr' = TRUE /\ status' = "user"
          /\ UNCHANGED <<inService, tick>>
       \/ status' = "halted" /\ running' \in Proc /\ UNCHANGED <<inService, intr, tick>>
       \/ status' = "lost" /\ UNCHANGED live
    /\ UNCHANGED <<pc, acpi, cpu, dev>>
-----------------------------------------------------------------------------
(* Afterwards                                                              *)

\* The CPU finds the gate through IDTR and, from user mode, the stack through TR.
Gate(v) == idtr /\ idt[v].p = 1 /\ Code64(Selected(gdtr, idt[v].cs))
           /\ (status = "user" => tr = Selector.tss /\ Base(desc) = tss)

\* Without a gate it raises 13 instead; in the delivery of an exception, 8.
Delivered(v) == CASE Gate(v) -> v
                  [] ~ Gate(v) /\ v \notin Exceptions /\ Gate(13) -> 13
                  [] ~ Gate(v) /\ (v \in Exceptions \/ ~ Gate(13)) /\ Gate(8) -> 8
                  [] OTHER -> -1

\* A handler is entered; a trap gate leaves the flag as it was.
exception(v) ==
    /\ status = "user"
    /\ IF Delivered(v) = -1 THEN lost
       ELSE /\ status' = "handler"
            /\ intr' = (intr /\ idt[Delivered(v)].type = 15)
            /\ UNCHANGED <<pc, acpi, cpu, dev, inService, running, tick>>

\* A program's fault.  A spurious interrupt of the local APIC has no gate: 13.
fault == \E v \in Exceptions \ {8} : exception(v)
spurious == intr /\ exception(Spurious)

\* cli, the message with the pid of the process running now, and hlt.
report ==
    /\ status = "handler"
    /\ IF running = NULL THEN lost
       ELSE /\ status' = "halted"
            /\ intr' = FALSE
            /\ UNCHANGED <<pc, acpi, cpu, dev, inService, running, tick>>

\* The I/O APIC whose inputs the interrupts count from.
TimerApic == {Entries[i].addr : i \in {j \in DOMAIN Entries : /\ Entries[j].type = Type.io_apic
                                                              /\ Entries[j].base = 0}}

\* The PIT's interrupt gets through: in user mode, or to a handler before its cli.
Open(p) == Bit(redir[p].low, 65536) = 0 /\ redir[p].low % 256 \in Vector
irq ==
    /\ intr /\ status \in {"user", "handler"} /\ ~ inService
    /\ Bit(lapic.svr, 256) = 1 /\ pit.mode # 0 /\ Gate(32)
    /\ ioapic \in TimerApic /\ Open(TimerPin(fw))
    /\ inService' = TRUE
    /\ intr' = (idt[32].type = 15)
    /\ status' = IF status = "user" THEN "irq" ELSE "nested"
    /\ UNCHANGED <<pc, acpi, cpu, dev, running, tick>>

\* __irq0_isr and trap: EOI, another process is made the running one, iretq.
irq_return ==
    /\ status \in {"irq", "nested"}
    /\ inService' = FALSE
    /\ running' \in Proc
    /\ tick' = 1 - tick
    /\ intr' = TRUE
    /\ status' = IF status = "irq" THEN "user" ELSE "handler"
    /\ UNCHANGED <<pc, acpi, cpu, dev>>

\* Halted or lost, the machine stays as it is.
stopped == status \in {"halted", "lost"} /\ UNCHANGED vars

boot == \/ load_idt \/ acpi_init \/ parse_madt \/ ioapic_init \/ lapic_init
        \/ init_exceptions \/ register_irq \/ register_user_int
        \/ init_memory_managers \/ write_tss \/ load_gdt \/ load_tss
        \/ fs_init \/ init_pit \/ proc_init

Next == boot \/ fault \/ spurious \/ report \/ irq \/ irq_return \/ stopped

\* The CPU goes on, and the PIT keeps firing while it is let through.
Spec == Init /\ [][Next]_vars
             /\ WF_vars(boot) /\ SF_vars(report) /\ WF_vars(irq) /\ WF_vars(irq_return)
-----------------------------------------------------------------------------
(* Properties                                                              *)

\* Every variable keeps its type.
TypeOK ==
    /\ fw \in Firmware /\ pc \in DOMAIN Order /\ cur \in Nat /\ ioapic \in Nat
    /\ redir \in [Pin -> [low : Nat, high : Nat]]
    /\ idt \in [Vector -> [isr : Nat, cs : Nat, type : 0 .. 15, dpl : 0 .. 3, p : 0 .. 1]]
    /\ {idtr, inService, intr} \subseteq BOOLEAN
    /\ gdtr \in {LimineGdt, gdt} /\ tr \in {NULL, Selector.tss}
    /\ {tss, running} \subseteq Nat /\ tick \in {0, 1}
    /\ status \in {"boot", "user", "irq", "handler", "nested", "halted", "lost"}

\* The kernel opens one input of the I/O APIC, the one the board wires the PIT
\* to, whatever the firmware's overrides are; and while a handler of the kernel
\* serves it no second one comes.
OneInputOpen ==
    /\ status \notin {"boot", "halted", "lost"} => {p \in Pin : Open(p)} = {TimerPin(fw)}
    /\ inService => ~ intr

\* A machine on which a process runs never dies without a word: every fault, a
\* second one included, meets a gate and ends in a report.
LostOnlyInBoot == status = "lost" => running = NULL

\* When the first program runs, and ever after, all that it takes to come back to
\* the kernel is in place: selectors that name what they should in the table that
\* is loaded, gates for the timer and the syscalls whose handlers run with
\* interrupts off, a TSS whose base is its address, and a PIT at 100 Hz.
ReadyForUser ==
    status \notin {"boot", "halted", "lost"} =>
        /\ \A v \in Vector : idt[v].p = 1 => /\ Code64(Selected(gdtr, idt[v].cs))
                                              /\ Dpl(Selected(gdtr, idt[v].cs)) = 0
        /\ Code64(Selected(gdtr, Selector.user_code)) /\ Dpl(Selected(gdtr, Selector.user_code)) = 3
        /\ Data(Selected(gdtr, Selector.user_data)) /\ Dpl(Selected(gdtr, Selector.user_data)) = 3
        /\ tr = Selector.tss /\ tss \in Heap /\ Base(desc) = tss
        /\ \A v \in {32, 128} : idt[v].p = 1 /\ idt[v].type = 14
        /\ 1193180 \div (pit.low + (256 * pit.high)) = PIT_FREQ

\* What the boot leaves is fit for programs, and stays so.
BootSafe == TypeOK /\ OneInputOpen /\ LostOnlyInBoot /\ ReadyForUser

\* A fault or a stray interrupt in user mode is reported in the end, though the
\* timer may interrupt the handler, whose gate leaves interrupts on.
FaultsAreReported == status = "handler" ~> status = "halted"

\* With entries that have a length, the boot ends, in a program or in a halt.
BootEnds == (\A i \in DOMAIN Entries : Entries[i].length # 0) => <>(status # "boot")

\* As long as programs run, timer interrupts are served again and again: none is
\* left waiting for an EOI or stopped at a masked input.  (Unless the MADT lists
\* another I/O APIC after the one the PIT is wired to.)
TimerKeepsComing ==
    \A t \in {0, 1} : (status = "user" /\ ioapic \in TimerApic /\ tick = t)
                           ~> (status # "user" \/ tick # t)
=============================================================================
