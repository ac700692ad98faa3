------------------------------- MODULE MCPmm -------------------------------
(* Instances of Pmm for TLC.  A page has 4 bytes of 2 bits, so that a page   *)
(* of bitmap covers 8 frames and small maps meet every boundary.             *)
EXTENDS Pmm

Region(u, b, l) == [usable |-> u, base |-> b, length |-> l]

MCMaps == {
  \* a hole and the end of an entry inside the heap window
  <<Region(TRUE, 1, 4), Region(FALSE, 5, 1), Region(TRUE, 6, 6)>>,
  \* the first entry is too short for the bitmap, the second gets it
  <<Region(FALSE, 0, 1), Region(TRUE, 1, 1), Region(FALSE, 2, 4), Region(TRUE, 6, 11)>>,
  \* one frame more than the bitmap has bits for
  <<Region(TRUE, 3, 6)>>,
  \* the bitmap fills its entry; entries out of order; a length of zero
  <<Region(TRUE, 12, 2), Region(FALSE, 8, 2), Region(TRUE, 1, 6), Region(TRUE, 7, 0)>>,
  \* fewer frames than the heap asks for, and a map too small for any bitmap
  <<Region(TRUE, 2, 3)>>,
  <<Region(TRUE, 1, 1)>>,
  \* no entry is long enough for the bitmap
  <<Region(TRUE, 1, 1), Region(FALSE, 2, 7), Region(TRUE, 9, 1)>> }
=============================================================================
