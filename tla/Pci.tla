----------------------------------- MODULE Pci -----------------------------------
(***************************************************************************)
(* arch/bus/pci/pci.c: the search for a device.  The configuration space   *)
(* of a function is its sequence of doublewords; a word has WordSize       *)
(* values and a byte ByteSize.                                             *)
(***************************************************************************)
EXTENDS Integers, Sequences, FiniteSets

CONSTANTS Buses, Slots, Funcs,   \* how many are searched: 5, 32, 8
          ByteSize,              \* 256
          Spaces,                \* configuration spaces that devices have
          MaxDevices             \* how many devices there are at most

ASSUME PciAssumption == {Buses, Slots, Funcs, ByteSize} \subseteq Nat \ {0}

WordSize == ByteSize * ByteSize
Place == (0 .. Buses - 1) \X (0 .. Slots - 1) \X (0 .. Funcs - 1)

\* The doublewords that are read.
ConfigSpace == [0 .. 9 -> 0 .. (WordSize * WordSize) - 1]

ASSUME SpacesAssumption == Spaces \subseteq ConfigSpace

VARIABLE bus       \* the configuration space at each place

\* Slip: the upper half is never selected.
pci_config_read_word_low(space, place, offset) == space[place][offset \div 4] % WordSize

\* The doubleword's upper or lower half.
pci_config_read_word(space, place, offset) ==
    (space[place][offset \div 4] \div (IF offset % 4 >= 2 THEN WordSize ELSE 1)) % WordSize

\* get_bar0 to get_bar5
get_bar(space, place, n) ==
    (WordSize * pci_config_read_word(space, place, 16 + (4 * n) + 2))
        + pci_config_read_word(space, place, 16 + (4 * n))

Matches(space, place, baseclass, subclass) ==
    /\ pci_config_read_word(space, place, 10) \div ByteSize = baseclass
    /\ pci_config_read_word(space, place, 10) % ByteSize = subclass

\* The order of the three loops.
Rank(p) == (((p[1] * Slots) + p[2]) * Funcs) + p[3]

\* The first match, bus by bus, slot by slot.
pci_locate_device(space, baseclass, subclass) ==
    LET hits == {p \in Place : Matches(space, p, baseclass, subclass)}
        at == CHOOSE p \in hits : \A q \in hits : Rank(p) <= Rank(q)
    IN  IF hits = {} THEN [valid |-> 0]
        ELSE [valid |-> 1, at |-> at, bars |-> [n \in 0 .. 5 |-> get_bar(space, at, n)]]
-----------------------------------------------------------------------------
(* Devices are plugged in one by one.                                      *)

\* Where no device is, all ones are read.
Nobody == [d \in 0 .. 9 |-> (WordSize * WordSize) - 1]

NoDevices == bus = [p \in Place |-> Nobody]

NewDevice == /\ Cardinality({p \in Place : bus[p] # Nobody}) < MaxDevices
             /\ \E p \in Place, s \in Spaces : /\ bus[p] = Nobody
                                               /\ bus' = [bus EXCEPT ![p] = s]

BusSpec == NoDevices /\ [][NewDevice]_bus

\* Base class and subclass of a device: bytes 3 and 2 of doubleword 2.
Class(p) == <<bus[p][2] \div (ByteSize * WordSize), (bus[p][2] \div WordSize) % ByteSize>>

\* The first device of a class is found, with its six registers whole; nothing is
\* found exactly when nothing of that class is plugged in.
PciFinds ==
    \A base, sub \in 0 .. ByteSize - 1 :
        LET r == pci_locate_device(bus, base, sub)
            hits == {p \in Place : Class(p) = <<base, sub>>}
        IN  /\ r.valid = 1 <=> hits # {}
            /\ r.valid = 1 => /\ r.at \in hits /\ \A p \in hits : Rank(r.at) <= Rank(p)
                              /\ \A n \in 0 .. 5 : r.bars[n] = bus[r.at][4 + n]
=============================================================================
