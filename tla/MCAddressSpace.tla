---------------------------- MODULE MCAddressSpace ----------------------------
(* Twelve frames, tables of four entries.  The bootloader maps frames 1 to 3   *)
(* with a table and 4 to 11 with two large pages; its tables are frames 8 to   *)
(* 11.  Callers map two pages of a region without tables and a page of the     *)
(* table that every page map shares.                                           *)
EXTENDS AddressSpace

MCFrame == 0 .. 11
MCIndex == 0 .. 3

Line(i, e) == [ZeroPage EXCEPT ![i] = e]
Large(f) == [frame |-> f, flags |-> {"P", "W", "PS"}]
Table(f) == [frame |-> f, flags |-> {"P", "W", "U"}]

MCBootMem ==
    [f \in MCFrame |->
        CASE f = 8 -> Line(0, Table(9))
          [] f = 9 -> Line(0, Table(10))
          [] f = 10 -> [Line(0, Table(11)) EXCEPT ![1] = Large(4), ![2] = Large(8)]
          [] f = 11 -> [i \in MCIndex |-> IF i = 0 THEN NoEntry ELSE [frame |-> i, flags |-> {"P", "W"}]]
          [] OTHER -> ZeroPage]

High(i) == <<1, 0, 0, i>>

\* A page in the table all page maps share, but not a frame's own address.
Shared == <<0, 0, 3, 0>>

MCFree == 1 .. 6
MCAreas == {[pages |-> <<High(0), High(1)>>, prot |-> {"READ", "WRITE", "USER", "EXEC"}],
            [pages |-> <<Shared>>, prot |-> {"READ", "WRITE"}]}

\* One page behind every entry that a walk for a caller's page can touch, and
\* the identity addresses of the frames.
MCWatched == {High(i) : i \in 0 .. 2} \cup {Same(f) : f \in MCFrame}
             \cup {Shared, <<0, 0, 3, 1>>, <<0, 1, 0, 0>>, <<1, 0, 1, 0>>, <<1, 1, 0, 0>>, <<2, 0, 0, 0>>}
=============================================================================
