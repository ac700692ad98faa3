------------------------------ MODULE BootProofs ------------------------------
(***************************************************************************)
(* What the boot leaves is fit for programs, for every firmware, every     *)
(* placement of the TSS and every number of I/O APIC inputs.               *)
(***************************************************************************)
EXTENDS Boot, Pci, WellFoundedInduction, TLAPS

Running == {"user", "irq", "handler", "nested"}

\* The gates there are before step k of the boot.
GatesBefore(k) ==
    [v \in Vector |-> IF v \in Exceptions /\ k > 6 THEN set_desc(Handler(v), TRAP_GATE_FLAGS)
                      ELSE IF v = 32 /\ k > 7 THEN set_desc(32, INT_GATE_FLAGS)
                      ELSE IF v = 128 /\ k > 8 THEN set_desc(128, IDT_INT_GATE_USER)
                      ELSE Absent]

\* The redirection table: everything masked, then the timer's input open.
AllMasked == [p \in Pin |-> Masked]
TimerOpen == [AllMasked EXCEPT ![TimerPin(fw)] = [low |-> 32, high |-> 0]]

\* What the steps before pc have achieved.
Progress ==
    /\ pc > 1 => idtr
    /\ pc > 2 => cur > 0 /\ MadtAt # {}
    /\ pc \in 5 .. 7 => redir = AllMasked
    /\ pc > 7 => redir = TimerOpen
    /\ idt = GatesBefore(pc)
    /\ pc > 10 => tss \in Heap /\ Base(desc) = tss
    /\ gdtr = IF pc > 11 THEN gdt ELSE LimineGdt
    /\ pc > 12 => tr = Selector.tss
    /\ pc > 14 => pit = Counter

Types == /\ fw \in Firmware /\ pc \in 1 .. 15 /\ cur \in Nat /\ ioapic \in Nat
         /\ redir \in [Pin -> [low : Nat, high : Nat]]
         /\ {idtr, inService, intr} \subseteq BOOLEAN
         /\ tr \in {NULL, Selector.tss}
         /\ {tss, running} \subseteq Nat /\ tick \in {0, 1}
         /\ status \in Running \cup {"boot", "halted", "lost"}

IInv == /\ Types
        /\ Progress
        /\ status \in {"boot", "lost"} => running = NULL
        /\ status = "boot" => ~ intr /\ ~ inService
        /\ status \in Running => pc = 15 /\ running \in Proc
        /\ inService => ~ intr
-----------------------------------------------------------------------------
(* Numbers                                                                 *)

\* Every set of numbers has a smallest: what Min returns.
LEMMA MinProperties ==
  ASSUME NEW T, T \subseteq Nat, T # {}
  PROVE  Min(T) \in T
<1>1. PICK x \in T : \A y \in T : ~ (<<y, x>> \in OpToRel(<, Nat))
  BY WFMin, NatLessThanWellFounded, Zenon
<1>2. \A y \in T : ~ (y < x)
  BY <1>1, Zenon DEF OpToRel
<1>3. \A y \in T : x <= y
  BY <1>2
<1> QED BY <1>3 DEF Min

\* ioapic_init reaches every input.
LEMMA EveryPin == max_red_entries \in Nat /\ \A p \in Pin : p \in Nat /\ p < max_red_entries
BY ConstantAssumption DEF max_red_entries, Pin

\* Quotient and remainder.
LEMMA Division ==
  ASSUME NEW a \in Nat, NEW m \in Nat \ {0}
  PROVE  /\ a \div m \in Nat /\ a % m \in 0 .. m - 1
         /\ a = (m * (a \div m)) + (a % m)
OBVIOUS

\* The quotient is the only one with a remainder below m.
LEMMA QuotientIsUnique ==
  ASSUME NEW a \in Nat, NEW m \in Nat \ {0}, NEW q \in Nat, NEW r \in 0 .. m - 1,
         a = (m * q) + r
  PROVE  a \div m = q
OBVIOUS

\* Dividing by a product is dividing twice.
LEMMA DivisionByProduct ==
  ASSUME NEW a \in Nat, NEW m \in Nat \ {0}, NEW n \in Nat \ {0}
  PROVE  a \div (m * n) = (a \div m) \div n
OBVIOUS

\* The CPU puts together the address that write_tss took apart.
LEMMA BaseIsAddress ==
  ASSUME NEW a \in Nat, NEW d, d.base = BaseFields(a)
  PROVE  Base(d) = a
<1>1. PICK m1 \in Nat \ {0}, m2 \in Nat \ {0}, m3 \in Nat \ {0} :
          m1 = Span[1] /\ m2 = Span[2] /\ m3 = Span[3]
  BY ConstantAssumption
<1>2. PICK q1 \in Nat : q1 = a \div m1
  BY Division
<1>3. PICK q2 \in Nat : q2 = q1 \div m2
  BY Division
<1>4. PICK q3 \in Nat : q3 = q2 \div m3
  BY Division
<1>5. m1 * m2 \in Nat \ {0}
  OBVIOUS
<1>6. a \div (m1 * m2) = q2
  BY <1>2, <1>3, DivisionByProduct
<1>7. a \div ((m1 * m2) * m3) = q3
  <2> DEFINE p == m1 * m2
  <2>1. p \in Nat \ {0} /\ a \div p = q2
    BY <1>5, <1>6
  <2> HIDE DEF p
  <2>2. a \div (p * m3) = (a \div p) \div m3
    BY <2>1, DivisionByProduct, Zenon
  <2> QED BY <1>4, <2>1, <2>2, Zenon DEF p
<1>8. (m1 * q1) + (a % m1) = a /\ a % m1 \in Nat
  BY <1>2, Division
<1>9. (m2 * q2) + (q1 % m2) = q1 /\ q1 % m2 \in Nat
  BY <1>3, Division
<1>10. (m3 * q3) + (q2 % m3) = q2 /\ q2 % m3 \in Nat
  BY <1>4, Division
<1>11. d.base = << a % m1, q1 % m2, q2 % m3, q3 >>
  BY <1>1, <1>2, <1>6, <1>7 DEF BaseFields
<1>12. Base(d) = (a % m1) + (m1 * ((q1 % m2) + (m2 * ((q2 % m3) + (m3 * q3)))))
  BY <1>1, <1>11 DEF Base
<1>13. (q2 % m3) + (m3 * q3) = q2
  BY <1>10
<1>14. (q1 % m2) + (m2 * q2) = q1
  BY <1>9
<1>15. (a % m1) + (m1 * q1) = a
  BY <1>8
<1> QED BY <1>12, <1>13, <1>14, <1>15
-----------------------------------------------------------------------------
(* The interrupt controller                                                *)

\* parse_madt and acpi_remap_irq read entries of their types.
LEMMA EntriesHaveTypes == fw \in Firmware => Entries \in Seq(Entry)
<1> SUFFICES ASSUME fw \in Firmware PROVE Entries \in Seq(Entry)
  OBVIOUS
<1>1. fw.tables \in Seq([signature : STRING, entries : Seq(Entry)])
  BY FirmwareAssumption
<1>2. CASE MadtAt = {}
  BY <1>2 DEF Entries
<1>3. CASE MadtAt # {}
  <2>1. MadtAt \subseteq DOMAIN fw.tables /\ DOMAIN fw.tables \subseteq Nat
    BY <1>1 DEF MadtAt
  <2>2. Min(MadtAt) \in DOMAIN fw.tables
    BY <1>3, <2>1, MinProperties
  <2>3. PICK at \in DOMAIN fw.tables : at = Min(MadtAt)
    BY <2>2
  <2> DEFINE R == [signature : STRING, entries : Seq(Entry)]
  <2>4. fw.tables[at] \in R
    <3>1. fw.tables \in Seq(R) /\ at \in DOMAIN fw.tables
      BY <1>1
    <3> HIDE DEF R
    <3> QED BY <3>1
  <2>5. fw.tables[at].entries \in Seq(Entry)
    BY <2>4
  <2> QED BY <1>3, <2>3, <2>5 DEF Entries
<1> QED BY <1>2, <1>3

\* If the firmware tells the truth of IRQ 0, its input is the one opened.
LEMMA RemapFindsTimer ==
  fw \in Firmware /\ MadtAt # {} => acpi_remap_irq(0) = TimerPin(fw) /\ TimerPin(fw) \in Pin
<1> SUFFICES ASSUME fw \in Firmware, MadtAt # {}
             PROVE  acpi_remap_irq(0) = TimerPin(fw) /\ TimerPin(fw) \in Pin
  OBVIOUS
<1> DEFINE at == Min(MadtAt)
           hits == {i \in DOMAIN Entries : Entries[i].type = Type.override /\ Entries[i].source = 0}
           told == {e \in {fw.tables[at].entries[j] : j \in DOMAIN fw.tables[at].entries} :
                       e.type = Type.override /\ e.source = 0}
<1>1. fw.tables \in Seq([signature : STRING, entries : Seq(Entry)]) /\ TimerPin(fw) \in Pin
  BY FirmwareAssumption
<1>2. at \in DOMAIN fw.tables /\ fw.tables[at].signature = "APIC"
  <2>1. MadtAt \subseteq Nat
    BY <1>1 DEF MadtAt
  <2>2. Min(MadtAt) \in MadtAt
    BY <2>1, MinProperties
  <2> QED BY <2>2 DEF MadtAt
<1>3. Entries = fw.tables[at].entries
  BY DEF Entries
<1>4. (\A e \in told : e.interrupt = TimerPin(fw)) /\ (told = {} => TimerPin(fw) = 0)
  BY <1>2, OverrideAssumption
<1>5. \A i \in hits : Entries[i] \in told
  BY <1>3
<1>6. told # {} => hits # {}
  BY <1>3
<1>7. CASE hits = {}
  BY <1>1, <1>4, <1>6, <1>7 DEF acpi_remap_irq
<1>8. CASE hits # {}
  <2>1. Entries \in Seq(Entry)
    BY EntriesHaveTypes
  <2>2. hits \subseteq Nat
    BY <2>1
  <2>3. Min(hits) \in hits
    BY <1>8, <2>2, MinProperties
  <2>4. acpi_remap_irq(0) = Entries[Min(hits)].interrupt
    BY <1>8 DEF acpi_remap_irq
  <2> QED BY <1>1, <1>4, <1>5, <2>3, <2>4
<1> QED BY <1>7, <1>8

\* A table of masked entries has none open; one that was opened is the only one.
LEMMA OpenInputs ==
  /\ redir = AllMasked => \A p \in Pin : ~ Open(p)
  /\ TimerPin(fw) \in Pin /\ redir = TimerOpen => {p \in Pin : Open(p)} = {TimerPin(fw)}
<1>1. Bit(65536, 65536) = 1 /\ Bit(32, 65536) = 0 /\ 32 % 256 = 32 /\ 32 \in Vector
  BY DEF Bit, Vector
<1>2. ASSUME NEW p \in Pin, redir[p] = Masked PROVE ~ Open(p)
  BY <1>1, <1>2 DEF Open, Masked
<1>3. ASSUME NEW p \in Pin, redir[p] = [low |-> 32, high |-> 0] PROVE Open(p)
  BY <1>1, <1>3 DEF Open
<1> QED BY <1>2, <1>3 DEF AllMasked, TimerOpen
-----------------------------------------------------------------------------
(* Gates and selectors                                                     *)

\* What the selectors of the kernel name in its own GDT.
LEMMA SelectorsAreRight ==
  /\ Code64(Selected(gdt, Selector.gate)) /\ Dpl(Selected(gdt, Selector.gate)) = 0
  /\ Code64(Selected(gdt, Selector.user_code)) /\ Dpl(Selected(gdt, Selector.user_code)) = 3
  /\ Data(Selected(gdt, Selector.user_data)) /\ Dpl(Selected(gdt, Selector.user_data)) = 3
<1>1. DOMAIN gdt = 1 .. 11
  BY DEF gdt
<1>2. 40 \div 8 = 5 /\ (56 + 3) \div 8 = 7 /\ (64 + 3) \div 8 = 8
  OBVIOUS
<1>3. /\ Selected(gdt, Selector.gate) = gdt[6] /\ Selected(gdt, Selector.user_code) = gdt[8]
      /\ Selected(gdt, Selector.user_data) = gdt[9]
  BY <1>1, <1>2 DEF Selected, Selector
<1>4. gdt[6] = Descriptor(154, 32) /\ gdt[8] = Descriptor(250, 175) /\ gdt[9] = Descriptor(242, 0)
  BY DEF gdt
<1> QED BY <1>3, <1>4 DEF Descriptor, Code64, Data, Dpl, Bit

\* The gates when the boot is over.
LEMMA FinalGates ==
  \A v \in Vector :
      /\ GatesBefore(15)[v].p = 1 => GatesBefore(15)[v].cs = Selector.gate
      /\ v \in Exceptions \cup {32, 128} => GatesBefore(15)[v].p = 1
      /\ v \in {32, 128} => GatesBefore(15)[v].type = 14
BY DEF GatesBefore, set_desc, Absent, TRAP_GATE_FLAGS, INT_GATE_FLAGS, IDT_INT_GATE_USER, Exceptions

\* A machine that is ready delivers whatever there is a gate for, and the rest
\* as a general protection fault.
LEMMA EverythingIsDelivered ==
  ASSUME NEW v \in Vector
  PROVE  IInv /\ status = "user" => Delivered(v) # -1
<1> SUFFICES ASSUME IInv, status = "user" PROVE Delivered(v) # -1
  OBVIOUS
<1>1. pc = 15 /\ idtr /\ idt = GatesBefore(15) /\ gdtr = gdt /\ tr = Selector.tss /\ Base(desc) = tss
  BY DEF IInv, Progress, Running
<1>2. 13 \in Exceptions /\ 13 \in Vector /\ Exceptions \subseteq Vector
  BY DEF Exceptions, Vector
<1>3. \A w \in Exceptions : Gate(w)
  BY <1>1, <1>2, FinalGates, SelectorsAreRight DEF Gate
<1>4. Gate(v) \/ (~ Gate(v) /\ v \notin Exceptions /\ Gate(13))
  BY <1>2, <1>3
<1>5. -1 \notin Vector
  BY DEF Vector, Exceptions, Spurious
<1> QED BY <1>2, <1>4, <1>5 DEF Delivered
-----------------------------------------------------------------------------
(* The invariant                                                           *)

\* Each step of the boot is taken when its turn comes.
LEMMA Turns ==
  pc \in 1 .. 15 =>
    /\ Order[pc] = "load_idt" => pc = 1
    /\ Order[pc] = "acpi_init" => pc = 2
    /\ Order[pc] = "parse_madt" => pc = 3
    /\ Order[pc] = "ioapic_init" => pc = 4
    /\ Order[pc] = "lapic_init" => pc = 5
    /\ Order[pc] = "init_exceptions" => pc = 6
    /\ Order[pc] = "register_irq" => pc = 7
    /\ Order[pc] = "register_user_int" => pc = 8
    /\ Order[pc] = "init_memory_managers" => pc = 9
    /\ Order[pc] = "write_tss" => pc = 10
    /\ Order[pc] = "load_gdt" => pc = 11
    /\ Order[pc] = "load_tss" => pc = 12
    /\ Order[pc] = "fs_init" => pc = 13
    /\ Order[pc] = "init_pit" => pc = 14
    /\ Order[pc] = "proc_init" => pc = 15
BY DEF Order

LEMMA InitEstablishesIInv == Init => IInv
<1> SUFFICES ASSUME Init PROVE IInv
  OBVIOUS
<1>1. Types
  <2>1. Masked \in [low : Nat, high : Nat] /\ Stale \in [low : Nat, high : Nat]
    BY DEF Masked, Stale
  <2>2. redir \in [Pin -> [low : Nat, high : Nat]]
    BY <2>1 DEF Init
  <2>3. {idtr, inService, intr} \subseteq BOOLEAN
    BY DEF Init
  <2>4. {tss, running} \subseteq Nat /\ tick \in {0, 1} /\ ioapic \in Nat /\ tr \in {NULL, Selector.tss}
    BY DEF Init, NULL
  <2> QED BY <2>2, <2>3, <2>4 DEF Init, Types
<1>2. idt = GatesBefore(1)
  BY DEF Init, GatesBefore
<1> QED BY <1>1, <1>2 DEF Init, IInv, Progress, Running, NULL

\* A machine that stops keeps what it had.
LEMMA StopIsSafe ==
  IInv /\ status = "boot" /\ status' \in {"lost", "halted"}
       /\ UNCHANGED <<pc, acpi, cpu, dev, live>> => IInv'
BY DEF IInv, Types, Progress, acpi, cpu, dev, live, Running, MadtAt, TimerOpen

LEMMA LostStepIsSafe == IInv /\ lost /\ status = "boot" => IInv'
BY StopIsSafe DEF lost

LEMMA EarlyStepsAreSafe ==
  IInv /\ (load_idt \/ acpi_init \/ parse_madt) => IInv'
<1> SUFFICES ASSUME IInv, load_idt \/ acpi_init \/ parse_madt
             PROVE  IInv'
  OBVIOUS
<1>1. pc \in 1 .. 15 /\ fw \in Firmware
  BY DEF IInv, Types
<1>2. CASE load_idt
  <2>1. pc = 1 /\ status = "boot"
    BY <1>1, <1>2, Turns DEF load_idt, At
  <2>2. GatesBefore(1) = GatesBefore(2)
    BY DEF GatesBefore
  <2> QED BY <1>2, <2>1, <2>2 DEF load_idt, IInv, Types, Progress, acpi, cpu, dev, live, Running,
                                  MadtAt, TimerOpen
<1>3. CASE acpi_init
  <2>1. pc = 2 /\ status = "boot"
    BY <1>1, <1>3, Turns DEF acpi_init, At
  <2>2. GatesBefore(2) = GatesBefore(3)
    BY DEF GatesBefore
  <2>3. CASE lost
    BY <2>1, <2>3, LostStepIsSafe
  <2>4. CASE status' = "halted" /\ UNCHANGED <<pc, acpi, cpu, dev, live>>
    BY <2>1, <2>4, StopIsSafe
  <2>5. CASE MadtAt # {} /\ pc' = pc + 1 /\ cur' = 1 /\ UNCHANGED <<fw, ioapic, cpu, dev, live, status>>
    BY <2>1, <2>2, <2>5 DEF IInv, Types, Progress, cpu, dev, live, Running, MadtAt, TimerOpen
  <2> QED BY <1>3, <2>3, <2>4, <2>5 DEF acpi_init
<1>4. CASE parse_madt
  <2>1. pc = 3 /\ status = "boot"
    BY <1>1, <1>4, Turns DEF parse_madt, At
  <2>7. cur \in Nat \ {0}
    BY <2>1 DEF IInv, Types, Progress
  <2>2. GatesBefore(3) = GatesBefore(4)
    BY DEF GatesBefore
  <2>3. Entries \in Seq(Entry)
    BY <1>1, EntriesHaveTypes
  <2>4. cur <= Len(Entries) => Entries[cur].addr \in Nat
    <3> SUFFICES ASSUME cur <= Len(Entries) PROVE Entries[cur].addr \in Nat
      OBVIOUS
    <3>1. cur \in 1 .. Len(Entries)
      BY <2>3, <2>7
    <3>2. Entries[cur] \in Entry
      BY <2>3, <3>1
    <3> QED BY <3>2 DEF Entry
  <2>5. CASE cur > Len(Entries)
    BY <1>4, <2>1, <2>2, <2>5 DEF parse_madt, IInv, Types, Progress, acpi, cpu, dev, live, Running,
                                  MadtAt, TimerOpen
  <2>6. CASE ~ (cur > Len(Entries))
    <3>0. cur <= Len(Entries) /\ ioapic \in Nat
      BY <2>3, <2>6, <2>7 DEF IInv, Types
    <3>1. ioapic' \in Nat /\ cur' \in Nat \ {0}
      BY <1>4, <2>4, <2>6, <2>7, <3>0 DEF parse_madt
    <3>2. UNCHANGED <<fw, pc, cpu, dev, live, status>>
      BY <1>4, <2>6 DEF parse_madt
    <3> QED BY <2>1, <3>1, <3>2 DEF IInv, Types, Progress, cpu, dev, live, Running, MadtAt, TimerOpen
  <2> QED BY <2>5, <2>6
<1> QED BY <1>2, <1>3, <1>4

LEMMA ControllerStepsAreSafe ==
  IInv /\ (ioapic_init \/ lapic_init \/ init_exceptions \/ register_irq \/ register_user_int) => IInv'
<1> SUFFICES ASSUME IInv, ioapic_init \/ lapic_init \/ init_exceptions \/ register_irq \/ register_user_int
             PROVE  IInv'
  OBVIOUS
<1>1. pc \in 1 .. 15 /\ fw \in Firmware
  BY DEF IInv, Types
<1> USE DEF IInv, Types, Progress, acpi, cpu, dev, live, Running, MadtAt, TimerOpen
<1>2. CASE ioapic_init
  <2>1. pc = 4 /\ status = "boot"
    BY <1>1, <1>2, Turns DEF ioapic_init, At
  <2>2. GatesBefore(4) = GatesBefore(5)
    BY DEF GatesBefore
  <2>3. CASE lost
    BY <2>1, <2>3, LostStepIsSafe
  <2>4. CASE ~ lost
    <3>1. redir' = AllMasked
      BY <1>2, <2>4, EveryPin DEF ioapic_init, AllMasked
    <3>2. AllMasked \in [Pin -> [low : Nat, high : Nat]]
      BY DEF AllMasked, Masked
    <3>3. pc' = pc + 1 /\ UNCHANGED <<acpi, cpu, lapic, pit, live, status>>
      BY <1>2, <2>4 DEF ioapic_init
    <3> QED BY <2>1, <2>2, <3>1, <3>2, <3>3
  <2> QED BY <2>3, <2>4
<1>3. CASE lapic_init
  <2>1. pc = 5 /\ status = "boot"
    BY <1>1, <1>3, Turns DEF lapic_init, At
  <2>2. GatesBefore(5) = GatesBefore(6)
    BY DEF GatesBefore
  <2> QED BY <1>3, <2>1, <2>2 DEF lapic_init
<1>4. CASE init_exceptions
  <2>1. pc = 6 /\ status = "boot"
    BY <1>1, <1>4, Turns DEF init_exceptions, At
  <2>2. idt' = GatesBefore(7)
    BY <1>4, <2>1 DEF init_exceptions, GatesBefore
  <2> QED BY <1>4, <2>1, <2>2 DEF init_exceptions
<1>5. CASE register_irq
  <2>1. pc = 7 /\ status = "boot"
    BY <1>1, <1>5, Turns DEF register_irq, At
  <2>2. idt' = GatesBefore(8)
    <3>1. 32 \in Vector /\ 32 \notin Exceptions
      BY DEF Vector, Exceptions
    <3> QED BY <1>5, <2>1, <3>1 DEF register_irq, GatesBefore
  <2>3. redir' = TimerOpen
    <3>1. redir = AllMasked /\ MadtAt # {}
      BY <2>1
    <3>2. acpi_remap_irq(0) = TimerPin(fw) /\ fw' = fw
      BY <1>1, <1>5, <3>1, RemapFindsTimer DEF register_irq
    <3> QED BY <1>5, <3>1, <3>2 DEF register_irq
  <2>4. redir' \in [Pin -> [low : Nat, high : Nat]]
    BY <1>5, <2>1 DEF register_irq
  <2>5. pc' = 8 /\ UNCHANGED <<acpi, idtr, gdtr, tss, desc, tr, lapic, pit, live, status>>
    BY <1>5, <2>1 DEF register_irq
  <2>6. redir' = TimerOpen'
    BY <2>3, <2>5
  <2> QED BY <2>1, <2>2, <2>4, <2>5, <2>6
<1>6. CASE register_user_int
  <2>1. pc = 8 /\ status = "boot"
    BY <1>1, <1>6, Turns DEF register_user_int, At
  <2>2. idt' = GatesBefore(9)
    <3>1. 128 \in Vector /\ 128 \notin Exceptions
      BY DEF Vector, Exceptions
    <3> QED BY <1>6, <2>1, <3>1 DEF register_user_int, GatesBefore
  <2> QED BY <1>6, <2>1, <2>2 DEF register_user_int
<1> QED BY <1>2, <1>3, <1>4, <1>5, <1>6

\* From step 9 on the gates are complete.
LEMMA GatesStay == \A k \in 9 .. 15 : GatesBefore(k) = GatesBefore(9)
BY DEF GatesBefore

LEMMA LateStepsAreSafe ==
  IInv /\ (init_memory_managers \/ write_tss \/ load_gdt \/ load_tss \/ fs_init \/ init_pit) => IInv'
<1> SUFFICES ASSUME IInv, init_memory_managers \/ write_tss \/ load_gdt \/ load_tss \/ fs_init \/ init_pit
             PROVE  IInv'
  OBVIOUS
<1>1. pc \in 1 .. 15 /\ fw \in Firmware
  BY DEF IInv, Types
<1> USE DEF IInv, Types, Progress, acpi, cpu, dev, live, Running, MadtAt, TimerOpen
<1>2. CASE init_memory_managers
  <2>1. pc = 9 /\ status = "boot"
    BY <1>1, <1>2, Turns DEF init_memory_managers, At
  <2> QED BY <1>2, <2>1, GatesStay DEF init_memory_managers
<1>3. CASE write_tss
  <2>1. pc = 10 /\ status = "boot"
    BY <1>1, <1>3, Turns DEF write_tss, At
  <2>2. CASE lost
    BY <2>1, <2>2, LostStepIsSafe
  <2>3. CASE ~ lost
    <3>0. /\ pc' = pc + 1 /\ tss' \in Heap
          /\ desc' = [base |-> BaseFields(tss'), type |-> 9, p |-> 1]
          /\ UNCHANGED <<acpi, idt, idtr, gdtr, tr, dev, live, status>>
      BY <1>3, <2>3 DEF write_tss
    <3>1. tss' \in Nat /\ desc'.base = BaseFields(tss')
      BY <3>0, ConstantAssumption
    <3>2. (Base(desc) = tss)'
      BY <3>1, BaseIsAddress DEF Base
    <3> QED BY <2>1, <3>0, <3>1, <3>2, GatesStay
  <2> QED BY <2>2, <2>3
<1>4. CASE load_gdt
  <2>1. pc = 11 /\ status = "boot"
    BY <1>1, <1>4, Turns DEF load_gdt, At
  <2> QED BY <1>4, <2>1, GatesStay DEF load_gdt, Base
<1>5. CASE load_tss
  <2>1. pc = 12 /\ status = "boot"
    BY <1>1, <1>5, Turns DEF load_tss, At
  <2>2. ~ (Len(gdtr) < 11)
    BY <2>1 DEF gdt
  <2>3. /\ pc' = pc + 1 /\ tr' = Selector.tss /\ desc' = [desc EXCEPT !.type = 11]
        /\ UNCHANGED <<acpi, idt, idtr, gdtr, tss, dev, live, status>>
    BY <1>5, <2>2 DEF load_tss
  <2>4. desc'.base = desc.base
    BY <2>3
  <2>5. Base(desc)' = Base(desc)
    BY <2>4 DEF Base
  <2> QED BY <2>1, <2>3, <2>5, GatesStay
<1>6. CASE fs_init
  <2>1. pc = 13 /\ status = "boot"
    BY <1>1, <1>6, Turns DEF fs_init, At
  <2>2. CASE lost
    BY <2>1, <2>2, LostStepIsSafe
  <2>3. CASE status' = "halted" /\ UNCHANGED <<pc, acpi, cpu, dev, live>>
    BY <2>1, <2>3, StopIsSafe
  <2>4. CASE pc' = pc + 1 /\ UNCHANGED <<acpi, cpu, dev, live, status>>
    BY <2>1, <2>4, GatesStay DEF Base
  <2> QED BY <1>6, <2>2, <2>3, <2>4 DEF fs_init
<1>7. CASE init_pit
  <2>1. pc = 14 /\ status = "boot"
    BY <1>1, <1>7, Turns DEF init_pit, At
  <2> QED BY <1>7, <2>1, GatesStay DEF init_pit, Base
<1> QED BY <1>2, <1>3, <1>4, <1>5, <1>6, <1>7

\* Once the machine is set up its tables stay: a step that leaves them alone keeps
\* the invariant if it keeps what the invariant says of the programs.
LEMMA TablesStay ==
  ASSUME IInv, UNCHANGED <<pc, acpi, cpu, dev>>,
         {inService', intr'} \subseteq BOOLEAN, running' \in Nat, tick' \in {0, 1},
         status' \in Running \cup {"boot", "halted", "lost"},
         status' \in {"boot", "lost"} => running' = NULL,
         status' = "boot" => ~ intr' /\ ~ inService',
         status' \in Running => pc = 15 /\ running' \in Proc,
         inService' => ~ intr'
  PROVE  IInv'
<1>1. Types'
  BY DEF IInv, Types, acpi, cpu, dev, Running
<1>2. Progress'
  BY DEF IInv, Progress, acpi, cpu, dev, MadtAt, TimerOpen, Base
<1> QED BY <1>1, <1>2 DEF IInv, Running

LEMMA LaterStepsAreSafe ==
  IInv /\ (proc_init \/ fault \/ spurious \/ report \/ irq \/ irq_return) => IInv'
<1> SUFFICES ASSUME IInv, proc_init \/ fault \/ spurious \/ report \/ irq \/ irq_return
             PROVE  IInv'
  OBVIOUS
<1>1. /\ pc \in 1 .. 15 /\ {inService, intr} \subseteq BOOLEAN /\ running \in Nat /\ tick \in {0, 1}
      /\ status \in Running \cup {"boot", "halted", "lost"}
      /\ status \in {"boot", "lost"} => running = NULL
      /\ status = "boot" => ~ intr /\ ~ inService
      /\ status \in Running => pc = 15 /\ running \in Proc
      /\ inService => ~ intr
  BY DEF IInv, Types
<1>2. Proc \subseteq Nat \ {NULL}
  BY ConstantAssumption
<1>3. CASE proc_init
  <2>1. pc = 15 /\ status = "boot" /\ UNCHANGED <<pc, acpi, cpu, dev>>
    BY <1>1, <1>3, Turns DEF proc_init, At
  <2>2. CASE running' \in Proc /\ intr' = TRUE /\ status' = "user" /\ UNCHANGED <<inService, tick>>
    BY <1>1, <1>2, <2>1, <2>2, TablesStay DEF Running
  <2>3. CASE status' = "halted" /\ running' \in Proc /\ UNCHANGED <<inService, intr, tick>>
    BY <1>1, <1>2, <2>1, <2>3, TablesStay DEF Running
  <2>4. CASE status' = "lost" /\ UNCHANGED live
    BY <1>1, <2>1, <2>4, TablesStay DEF Running, live
  <2> QED BY <1>3, <2>2, <2>3, <2>4 DEF proc_init
<1>4. ASSUME NEW v \in Vector, exception(v) PROVE IInv'
  <2>1. status = "user" /\ Delivered(v) # -1
    BY <1>4, EverythingIsDelivered DEF exception, Running
  <2>2. /\ status' = "handler" /\ intr' \in BOOLEAN /\ (intr' => intr)
        /\ UNCHANGED <<pc, acpi, cpu, dev, inService, running, tick>>
    <3>1. intr' = (intr /\ idt[Delivered(v)].type = 15)
      BY <1>4, <2>1 DEF exception
    <3> QED BY <1>4, <2>1, <3>1, <1>1 DEF exception
  <2> QED BY <1>1, <2>1, <2>2, TablesStay DEF Running
<1>5. CASE fault
  <2>1. PICK v \in Exceptions \ {8} : exception(v)
    BY <1>5 DEF fault
  <2>2. v \in Vector
    BY <2>1 DEF Exceptions, Vector
  <2> QED BY <1>4, <2>1, <2>2
<1>6. CASE spurious
  <2>1. exception(Spurious) /\ Spurious \in Vector
    BY <1>6 DEF spurious, Vector
  <2> QED BY <1>4, <2>1
<1>7. CASE report
  <2>1. status = "handler" /\ running \in Proc /\ running # NULL
    BY <1>1, <1>2, <1>7 DEF report, Running
  <2>2. status' = "halted" /\ intr' = FALSE /\ UNCHANGED <<pc, acpi, cpu, dev, inService, running, tick>>
    BY <1>7, <2>1 DEF report
  <2> QED BY <1>1, <2>1, <2>2, TablesStay DEF Running
<1>8. CASE irq
  <2>1. pc = 15 /\ status \in {"user", "handler"}
    BY <1>1, <1>8 DEF irq, Running
  <2>2. idt[32].type = 14
    BY <2>1, FinalGates DEF Vector, IInv, Progress
  <2>3. /\ inService' = TRUE /\ intr' = FALSE /\ status' \in {"irq", "nested"}
        /\ UNCHANGED <<pc, acpi, cpu, dev, running, tick>>
    <3>1. intr' = (idt[32].type = 15)
      BY <1>8 DEF irq
    <3>2. intr' = FALSE
      <4>1. idt[32].type # 15
        BY <2>2
      <4> QED BY <3>1, <4>1, Zenon
    <3>3. inService' = TRUE /\ UNCHANGED <<pc, acpi, cpu, dev, running, tick>>
      BY <1>8 DEF irq
    <3>4. status' \in {"irq", "nested"}
      BY <1>8 DEF irq
    <3> QED BY <3>2, <3>3, <3>4
  <2> QED BY <1>1, <2>1, <2>3, TablesStay DEF Running
<1>9. CASE irq_return
  <2>1. /\ status \in Running /\ inService' = FALSE /\ running' \in Proc /\ intr' = TRUE
        /\ tick' \in {0, 1} /\ status' \in {"user", "handler"}
        /\ UNCHANGED <<pc, acpi, cpu, dev>>
    BY <1>1, <1>9 DEF irq_return, Running
  <2> QED BY <1>1, <1>2, <2>1, TablesStay DEF Running
<1> QED BY <1>3, <1>5, <1>6, <1>7, <1>8, <1>9

LEMMA StepPreservesIInv == IInv /\ [Next]_vars => IInv'
<1> SUFFICES ASSUME IInv, [Next]_vars PROVE IInv'
  OBVIOUS
<1>1. CASE boot
  BY <1>1, EarlyStepsAreSafe, ControllerStepsAreSafe, LateStepsAreSafe, LaterStepsAreSafe DEF boot
<1>2. CASE fault \/ spurious \/ report \/ irq \/ irq_return
  BY <1>2, LaterStepsAreSafe
<1>3. CASE UNCHANGED vars
  BY <1>3 DEF vars, IInv, Types, Progress, acpi, cpu, dev, live, Running, MadtAt, TimerOpen, Base
<1> QED BY <1>1, <1>2, <1>3 DEF Next, stopped

\* The invariant holds throughout.
THEOREM InvariantHolds == Spec => []IInv
<1> QED BY InitEstablishesIInv, StepPreservesIInv, PTL DEF Spec
-----------------------------------------------------------------------------
(* What follows                                                            *)

GateDescriptor == [isr : Nat, cs : Nat, type : 0 .. 15, dpl : 0 .. 3, p : 0 .. 1]

LEMMA AbsentIsAGate == Absent \in GateDescriptor
BY DEF Absent, NULL, GateDescriptor

LEMMA SetDescMakesAGate ==
  ASSUME NEW isr \in Nat, NEW type \in Nat
  PROVE  set_desc(isr, type) \in GateDescriptor
BY DEF set_desc, Selector, GateDescriptor

LEMMA GatesHaveTypes ==
  ASSUME NEW k \in 1 .. 15
  PROVE  GatesBefore(k) \in [Vector -> GateDescriptor]
<1>1. ASSUME NEW v \in Vector PROVE GatesBefore(k)[v] \in GateDescriptor
  <2>1. CASE v \in Exceptions /\ GatesBefore(k)[v] = set_desc(Handler(v), 143)
    <3>1. Handler(v) \in Nat
      BY <2>1 DEF Exceptions, Handler
    <3> QED BY <2>1, <3>1, SetDescMakesAGate
  <2>2. CASE GatesBefore(k)[v] = set_desc(32, 142)
    BY <2>2, SetDescMakesAGate
  <2>3. CASE GatesBefore(k)[v] = set_desc(128, 238)
    BY <2>3, SetDescMakesAGate
  <2>4. CASE GatesBefore(k)[v] = Absent
    BY <2>4, AbsentIsAGate
  <2> QED BY <2>1, <2>2, <2>3, <2>4
          DEF GatesBefore, TRAP_GATE_FLAGS, INT_GATE_FLAGS, IDT_INT_GATE_USER
<1>2. GatesBefore(k) = [v \in Vector |-> GatesBefore(k)[v]]
  BY DEF GatesBefore
<1> HIDE DEF GatesBefore
<1> QED BY <1>1, <1>2

\* The PIT's divisor gives the frequency that was asked for.
LEMMA PitIsRight == 1193180 \div (Counter.low + (256 * Counter.high)) = PIT_FREQ
<1>1. divisor = 11931
  BY DEF divisor, PIT_FREQ
<1>2. Counter.low = 11931 % 256 /\ Counter.high = 11931 \div 256
  BY <1>1 DEF Counter
<1> QED BY <1>2 DEF PIT_FREQ

\* When a program starts, and ever after, the machine finds its way back to the
\* kernel, the timer's input is the only one open, no interrupt nests in the
\* kernel's handlers, and no fault is lost.
THEOREM BootIsSafe == Spec => []BootSafe
<1>1. IInv => TypeOK
  <2> SUFFICES ASSUME IInv PROVE TypeOK
    OBVIOUS
  <2>1. Types /\ Progress
    BY DEF IInv
  <2>2. DOMAIN Order = 1 .. 15
    BY DEF Order
  <2>3. idt \in [Vector -> [isr : Nat, cs : Nat, type : 0 .. 15, dpl : 0 .. 3, p : 0 .. 1]]
    BY <2>1, GatesHaveTypes DEF Types, Progress, GateDescriptor
  <2>4. gdtr \in {LimineGdt, gdt}
    BY <2>1 DEF Progress
  <2> QED BY <2>1, <2>2, <2>3, <2>4 DEF TypeOK, Types, Running
<1>2. IInv => OneInputOpen
  <2> SUFFICES ASSUME IInv PROVE OneInputOpen
    OBVIOUS
  <2>1. CASE status \in Running
    <3>1. redir = TimerOpen /\ MadtAt # {} /\ fw \in Firmware /\ (inService => ~ intr)
      BY <2>1 DEF IInv, Progress, Types
    <3>2. {p \in Pin : Open(p)} = {TimerPin(fw)}
      BY <3>1, RemapFindsTimer, OpenInputs
    <3> QED BY <3>1, <3>2 DEF OneInputOpen
  <2>2. CASE status \notin Running
    BY <2>2 DEF IInv, Types, OneInputOpen
  <2> QED BY <2>1, <2>2
<1>3. IInv => LostOnlyInBoot
  BY DEF IInv, LostOnlyInBoot
<1>4. IInv => ReadyForUser
  <2> SUFFICES ASSUME IInv, status \notin {"boot", "halted", "lost"} PROVE ReadyForUser
    BY DEF ReadyForUser
  <2>1. pc = 15 /\ idt = GatesBefore(15) /\ gdtr = gdt /\ tr = Selector.tss /\ tss \in Heap
        /\ Base(desc) = tss /\ pit = Counter
    BY DEF IInv, Types, Progress, Running
  <2>2. 32 \in Vector /\ 128 \in Vector
    BY DEF Vector
  <2> QED BY <2>1, <2>2, FinalGates, SelectorsAreRight, PitIsRight DEF ReadyForUser
<1> QED BY <1>1, <1>2, <1>3, <1>4, InvariantHolds, PTL DEF BootSafe
-----------------------------------------------------------------------------
(* Devices                                                                 *)

LEMMA BytesAndWords == /\ ByteSize \in Nat \ {0} /\ WordSize \in Nat \ {0}
               /\ WordSize * WordSize \in Nat \ {0} /\ ByteSize * WordSize \in Nat \ {0}
<1>1. PICK b \in Nat \ {0} : b = ByteSize
  BY PciAssumption
<1>2. PICK w \in Nat \ {0} : w = b * b /\ w = WordSize
  BY <1>1 DEF WordSize
<1>3. w * w \in Nat \ {0} /\ b * w \in Nat \ {0}
  OBVIOUS
<1> QED BY <1>1, <1>2, <1>3

\* The halves of a doubleword are two words, and put together they are it.
LEMMA Halves ==
  ASSUME NEW w \in Nat \ {0}, NEW d \in 0 .. (w * w) - 1
  PROVE  /\ (d \div w) % w = d \div w
         /\ (w * ((d \div w) % w)) + (d % w) = d
<1>1. d \in Nat /\ w * w \in Nat
  OBVIOUS
<1>2. PICK q \in Nat, r \in 0 .. w - 1 : q = d \div w /\ r = d % w /\ d = (w * q) + r
  BY <1>1, Division
<1>3. q < w
  <2> SUFFICES ASSUME w <= q PROVE FALSE
    OBVIOUS
  <2>1. PICK k \in Nat : q = w + k
    BY <1>2
  <2>2. w * q = (w * w) + (w * k) /\ w * k \in Nat /\ w * w \in Nat
    BY <2>1
  <2>3. d >= w * w
    BY <1>2, <2>2
  <2> QED BY <1>1, <2>3
<1>4. q % w = q
  BY <1>3
<1> QED BY <1>2, <1>4

\* Configuration space as it is read: words 2 and 3 of a register make it whole.
LEMMA WordsOfRegister ==
  ASSUME NEW space, NEW p, space[p] \in ConfigSpace
  PROVE  /\ pci_config_read_word(space, p, 10) = space[p][2] \div WordSize
         /\ \A n \in 0 .. 5 : get_bar(space, p, n) = space[p][4 + n]
<1>1. \A d \in 0 .. 9 : space[p][d] \in 0 .. (WordSize * WordSize) - 1
  BY DEF ConfigSpace
<1>2. pci_config_read_word(space, p, 10) = (space[p][2] \div WordSize) % WordSize
  <2>1. 10 \div 4 = 2 /\ 10 % 4 = 2
    OBVIOUS
  <2> QED BY <2>1 DEF pci_config_read_word
<1>3. (space[p][2] \div WordSize) % WordSize = space[p][2] \div WordSize
  BY <1>1, BytesAndWords, Halves
<1>4. ASSUME NEW n \in 0 .. 5 PROVE get_bar(space, p, n) = space[p][4 + n]
  <2>1. /\ (16 + (4 * n) + 2) \div 4 = 4 + n /\ (16 + (4 * n) + 2) % 4 = 2
        /\ (16 + (4 * n)) \div 4 = 4 + n /\ (16 + (4 * n)) % 4 = 0
    OBVIOUS
  <2>2. PICK d : d = space[p][4 + n]
    OBVIOUS
  <2>3. d \in 0 .. (WordSize * WordSize) - 1 /\ d \in Nat
    <3>1. 4 + n \in 0 .. 9
      OBVIOUS
    <3>2. d \in 0 .. (WordSize * WordSize) - 1
      BY <1>1, <2>2, <3>1
    <3> QED BY <3>2, BytesAndWords
  <2>4. pci_config_read_word(space, p, 16 + (4 * n) + 2) = (d \div WordSize) % WordSize
    BY <2>1, <2>2 DEF pci_config_read_word
  <2>5. pci_config_read_word(space, p, 16 + (4 * n)) = (d \div 1) % WordSize
    BY <2>1, <2>2 DEF pci_config_read_word
  <2>6. d \div 1 = d
    BY <2>3
  <2>7. (WordSize * ((d \div WordSize) % WordSize)) + (d % WordSize) = d
    BY <2>3, BytesAndWords, Halves
  <2> QED BY <2>2, <2>4, <2>5, <2>6, <2>7 DEF get_bar
<1> QED BY <1>2, <1>3, <1>4

\* The loops look at the class that the device has.
LEMMA MatchesIsClass ==
  ASSUME NEW p \in Place, bus[p] \in ConfigSpace, NEW base, NEW sub
  PROVE  Matches(bus, p, base, sub) <=> Class(p) = <<base, sub>>
<1>1. PICK d \in Nat : d = bus[p][2]
  <2>1. bus[p][2] \in 0 .. (WordSize * WordSize) - 1
    BY DEF ConfigSpace
  <2> QED BY <2>1, BytesAndWords
<1>2. pci_config_read_word(bus, p, 10) = d \div WordSize
  BY <1>1, WordsOfRegister
<1>3. d \div (ByteSize * WordSize) = (d \div WordSize) \div ByteSize
  <2>1. d \div (WordSize * ByteSize) = (d \div WordSize) \div ByteSize
    BY BytesAndWords, DivisionByProduct
  <2>2. WordSize * ByteSize = ByteSize * WordSize
    BY BytesAndWords
  <2> QED BY <2>1, <2>2
<1> QED BY <1>1, <1>2, <1>3 DEF Matches, Class

\* Of a set of places one comes first.
LEMMA OneIsFirst ==
  ASSUME NEW hits \in SUBSET Place, hits # {}
  PROVE  \E p \in hits : \A q \in hits : Rank(p) <= Rank(q)
<1> DEFINE T == {Rank(p) : p \in hits}
<1>1. \A p \in Place : Rank(p) \in Nat
  <2> SUFFICES ASSUME NEW p \in Place PROVE Rank(p) \in Nat
    OBVIOUS
  <2>1. PICK a \in Nat, b \in Nat, c \in Nat : p = <<a, b, c>>
    BY PciAssumption DEF Place
  <2>2. PICK n \in Nat : n = (a * Slots) + b
    BY PciAssumption
  <2>3. (n * Funcs) + c \in Nat
    BY <2>2, PciAssumption
  <2> QED BY <2>1, <2>2, <2>3 DEF Rank
<1>2. T \subseteq Nat /\ T # {}
  BY <1>1
<1>3. PICK x \in T : \A y \in T : ~ (<<y, x>> \in OpToRel(<, Nat))
  BY <1>2, WFMin, NatLessThanWellFounded, Zenon
<1>4. \A y \in T : ~ (y < x)
  BY <1>2, <1>3, Zenon DEF OpToRel
<1>5. \A y \in T : x <= y
  BY <1>2, <1>4
<1> QED BY <1>5

\* The search for a device finds the first one of its class and reads its six
\* base registers whole, from two words each, and finds nothing only if there is
\* nothing, whatever is plugged in where.
THEOREM DevicesAreFound == BusSpec => []PciFinds
<1> DEFINE Plugged == bus \in [Place -> ConfigSpace]
<1>1. NoDevices => Plugged
  BY BytesAndWords DEF NoDevices, Nobody, ConfigSpace
<1>2. Plugged /\ [NewDevice]_bus => Plugged'
  BY SpacesAssumption DEF NewDevice
<1>3. Plugged => PciFinds
  <2> SUFFICES ASSUME Plugged, NEW base \in 0 .. ByteSize - 1, NEW sub \in 0 .. ByteSize - 1,
                      NEW r, r = pci_locate_device(bus, base, sub),
                      NEW hits, hits = {p \in Place : Class(p) = <<base, sub>>}
               PROVE  /\ r.valid = 1 <=> hits # {}
                      /\ r.valid = 1 => /\ r.at \in hits /\ \A p \in hits : Rank(r.at) <= Rank(p)
                                        /\ \A n \in 0 .. 5 : r.bars[n] = bus[r.at][4 + n]
    BY DEF PciFinds
  <2>1. \A p \in Place : bus[p] \in ConfigSpace
    OBVIOUS
  <2>2. hits = {p \in Place : Matches(bus, p, base, sub)}
    BY <2>1, MatchesIsClass
  <2>3. CASE hits = {}
    <3>1. r = [valid |-> 0]
      BY <2>2, <2>3 DEF pci_locate_device
    <3> QED BY <2>3, <3>1
  <2>4. CASE hits # {}
    <3>1. PICK at : at = CHOOSE p \in hits : \A q \in hits : Rank(p) <= Rank(q)
      OBVIOUS
    <3>2. at \in hits /\ \A q \in hits : Rank(at) <= Rank(q)
      <4>1. hits \in SUBSET Place
        OBVIOUS
      <4> QED BY <2>4, <3>1, <4>1, OneIsFirst
    <3>3. r = [valid |-> 1, at |-> at, bars |-> [n \in 0 .. 5 |-> get_bar(bus, at, n)]]
      BY <2>2, <2>4, <3>1 DEF pci_locate_device
    <3>4. r.valid = 1 /\ r.at = at /\ \A n \in 0 .. 5 : r.bars[n] = get_bar(bus, at, n)
      BY <3>3
    <3>5. \A n \in 0 .. 5 : get_bar(bus, at, n) = bus[at][4 + n]
      <4>1. bus[at] \in ConfigSpace
        BY <2>1, <3>2
      <4> QED BY <4>1, WordsOfRegister
    <3> QED BY <2>4, <3>2, <3>4, <3>5
  <2> QED BY <2>3, <2>4
<1> QED BY <1>1, <1>2, <1>3, PTL DEF BusSpec
=============================================================================
