------------------------------- MODULE MCBoot -------------------------------
(* Boot on firmware with and without a MADT, an I/O APIC, an override for the *)
(* timer's IRQ and unknown entries, in several orders.                        *)
EXTENDS Boot

MADT(entries) == [signature |-> "APIC", entries |-> entries]
FADT == [signature |-> "FACP", entries |-> <<>>]

IoApic(a) == [type |-> 1, length |-> 12, addr |-> a, source |-> 0, interrupt |-> 0, base |-> 0]
Second == [IoApic(4) EXCEPT !.base = 24]
Override(s, i) == [type |-> 2, length |-> 10, addr |-> 0, source |-> s, interrupt |-> i, base |-> 0]
LocalApic == [type |-> 0, length |-> 8, addr |-> 0, source |-> 0, interrupt |-> 0, base |-> 0]

Madts == { <<>>, <<LocalApic>>,
           <<LocalApic, IoApic(5), Override(0, 2)>>,
           <<Override(0, 1), LocalApic, IoApic(5)>>,
           <<Second, LocalApic, Override(9, 2), Override(0, 1), IoApic(5)>>,
           <<IoApic(5), Second>>,
           <<LocalApic, IoApic(5), Override(9, 1)>>,
           <<IoApic(5), [LocalApic EXCEPT !.length = 0]>> }

MCFirmware == {[rsdt |-> sum, tables |-> t] :
                  sum \in {<<200, 56>>, <<200, 57>>},
                  t \in {<<FADT, MADT(m)>> : m \in Madts} \cup {<<FADT>>, <<MADT(<<IoApic(5)>>), FADT>>}}

\* What the board does and the firmware tells: IRQ 0 is at the overridden input.
MCTimerPin(f) == CHOOSE p \in Pin :
    LET told == UNION {{f.tables[i].entries[j] : j \in DOMAIN f.tables[i].entries} :
                          i \in DOMAIN f.tables}
    IN  IF \E e \in told : e.type = 2 /\ e.source = 0
        THEN \E e \in told : e.type = 2 /\ e.source = 0 /\ p = e.interrupt
        ELSE p = 0

MCSpan == <<4, 2, 2>>
=============================================================================
