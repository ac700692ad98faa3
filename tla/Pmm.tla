--------------------------------- MODULE Pmm ---------------------------------
(***************************************************************************)
(* The physical memory manager, sys/src/mm/pmm.c.                          *)
(*                                                                         *)
(* A frame is named by its number (address / PAGE_SIZE).  The bitmap is    *)
(* the set of its bits that are 1.  The bootloader's map is a sequence of  *)
(* entries whose base and length are counted in pages.  `held', `heap' and *)
(* `window' are history: who was given what.                               *)
(***************************************************************************)
EXTENDS Integers, FiniteSets, Sequences, FiniteSetsExt

CONSTANTS PageSize,      \* PAGE_SIZE: bytes in a page
          BitsPerByte,   \* 8 on the machine, smaller in the checked instances
          MemMaps,       \* the memory maps the bootloader may report
          NHeapPages     \* N_HEAP_PAGES in kmain.c

Entry == [usable : BOOLEAN, base : Nat, length : Nat]

UsableEntries(m) == {i \in DOMAIN m : m[i].usable}

Span(e) == e.base .. e.base + e.length - 1

UsableFrames(m) == UNION {Span(m[i]) : i \in UsableEntries(m)}

\* highest_addr, in pages: the end of the last usable entry.
HighestPage(m) == Max({0} \cup {m[i].base + m[i].length : i \in UsableEntries(m)})

AlignUp(x, a) == ((x + a - 1) \div a) * a

\* bitmap_size in bytes.  Both divisions round down before ALIGN_UP rounds up.
BitmapBytes(m) == AlignUp(HighestPage(m) \div BitsPerByte, PageSize)

\* What the protocol of the bootloader (Limine) guarantees of a map: some
\* memory is usable, entries do not overlap, and page 0 is never usable.
GoodMap(m) == /\ m \in Seq(Entry)
              /\ UsableEntries(m) # {}
              /\ 0 \notin UsableFrames(m)
              /\ \A i, j \in DOMAIN m : i # j => Span(m[i]) \cap Span(m[j]) = {}

ASSUME PageAssumption == PageSize \in Nat \ {0} /\ BitsPerByte \in Nat \ {0}
ASSUME HeapAssumption == NHeapPages \in Nat
ASSUME MapAssumption  == \A m \in MemMaps : GoodMap(m)

VARIABLES phase,     \* "off", "mapped", "ready" or "nobitmap"
          entries,   \* the memory map as pmm_init leaves it
          nbits,     \* bitmap_size * 8
          marked,    \* the bits of the bitmap that are 1
          storage,   \* the frames the bitmap itself lies in
          stray,     \* bits pmm_init cleared beyond the end of the bitmap
          heap,      \* frames taken by pmm_alloc_heap_base
          window,    \* frames whose direct-map addresses become the heap
          held,      \* frames handed to other callers and not freed
          ret        \* the number of the frame last returned

vars == <<phase, entries, nbits, marked, storage, stray, heap, window, held, ret>>
boot == <<phase, entries, nbits, storage, stray, heap, window>>

Clear == (0 .. nbits - 1) \ marked

Init == /\ phase = "off" /\ entries = <<>> /\ nbits = 0 /\ marked = {}
        /\ storage = {} /\ stray = {} /\ heap = {} /\ window = {}
        /\ held = {} /\ ret = 0
-----------------------------------------------------------------------------
(* pmm_init                                                                *)

\* The entries long enough to hold the bitmap.  The first one gets it.
Holders(m) == {i \in UsableEntries(m) : m[i].length * PageSize >= BitmapBytes(m)}
Holder(m) == Min(Holders(m))

BitmapPages(m) == BitmapBytes(m) \div PageSize

BitmapFrames(m) == m[Holder(m)].base .. m[Holder(m)].base + BitmapPages(m) - 1

\* Slip: the entry is shortened but not moved past the bitmap.
Carved_unmoved(m) == [m EXCEPT ![Holder(m)].length = @ - BitmapPages(m)]

\* entry->base += bitmap_size, entry->length -= bitmap_size
Carved(m) == [m EXCEPT ![Holder(m)].base   = @ + BitmapPages(m),
                       ![Holder(m)].length = @ - BitmapPages(m)]

BuildBitmap(m) ==
    LET free == UsableFrames(Carved(m))
        bits == 0 .. BitmapBytes(m) * BitsPerByte - 1
    IN  /\ Holders(m) # {}
        /\ phase' = "mapped"
        /\ entries' = Carved(m)
        /\ nbits' = BitmapBytes(m) * BitsPerByte
        /\ storage' = BitmapFrames(m)
        /\ marked' = bits \ free
        /\ stray' = free \ bits

\* No entry can hold the bitmap: the pointer stays NULL and clearing the
\* first usable frame's bit goes through it.  Nothing is said of what follows.
BitmapNull(m) == /\ Holders(m) = {}
                 /\ phase' = "nobitmap"
                 /\ UNCHANGED <<entries, nbits, storage, marked, stray>>

pmm_init == /\ phase = "off"
            /\ \E m \in MemMaps : BuildBitmap(m) \/ BitmapNull(m)
            /\ UNCHANGED <<heap, window, held, ret>>
-----------------------------------------------------------------------------
(* pmm_alloc_frame, pmm_alloc_heap_base, pmm_free_frame                    *)

\* The scan stops at the first bit that is 0.
FirstClear == Min(Clear)

\* Slip: the bit is not set.
pmm_alloc_frame_unmarked ==
    /\ phase = "ready"
    /\ Clear # {}
    /\ ret' = FirstClear
    /\ held' = held \cup {ret'}
    /\ UNCHANGED <<boot, marked>>

pmm_alloc_frame ==
    /\ phase = "ready"
    /\ Clear # {}
    /\ ret' = FirstClear
    /\ marked' = marked \cup {ret'}
    /\ held' = held \cup {ret'}
    /\ UNCHANGED boot

\* Slip: the scan gives up although a bit is clear.
pmm_alloc_frame_gives_up ==
    /\ phase = "ready"
    /\ ret' = 0
    /\ UNCHANGED <<boot, marked, held>>

pmm_alloc_frame_fails ==
    /\ phase = "ready"
    /\ Clear = {}
    /\ ret' = 0
    /\ UNCHANGED <<boot, marked, held>>

\* Slips: only the first frame is taken; the scan runs one bit too far.
LowestClear_one(n) == {f \in Clear : f = FirstClear}
LowestClear_overrun(n) ==
    LET bits == (0 .. nbits) \ marked
    IN  {f \in bits : Cardinality({g \in bits : g < f}) <= n}

\* n + 1 calls of pmm_alloc_frame take the n + 1 lowest clear bits, or all.
LowestClear(n) == {f \in Clear : Cardinality({g \in Clear : g < f}) <= n}

\* kmain.c: create_heap(pmm_alloc_heap_base(N_HEAP_PAGES) + VMM_HIGHER_HALF,
\* N_HEAP_PAGES).  The answer is the first of the n + 1 frames; create_heap
\* maps N_HEAP_PAGES other frames at the direct-map addresses from there on.
pmm_alloc_heap_base ==
    /\ phase = "mapped"
    /\ phase' = "ready"
    /\ ret' = IF Clear = {} THEN 0 ELSE FirstClear
    /\ heap' = LowestClear(NHeapPages)
    /\ marked' = marked \cup heap'
    /\ window' = ret' .. ret' + NHeapPages - 1
    /\ UNCHANGED <<entries, nbits, storage, stray, held>>

\* Slip: the bit is not cleared.
pmm_free_frame_kept(f) ==
    /\ phase = "ready"
    /\ f \in held
    /\ held' = held \ {f}
    /\ UNCHANGED <<boot, marked, ret>>

\* Callers free what they were given; nobody frees the kernel heap.
pmm_free_frame(f) ==
    /\ phase = "ready"
    /\ f \in held
    /\ marked' = marked \ {f}
    /\ held' = held \ {f}
    /\ UNCHANGED <<boot, ret>>

Next == \/ pmm_init
        \/ pmm_alloc_heap_base
        \/ pmm_alloc_frame
        \/ pmm_alloc_frame_fails
        \/ \E f \in held : pmm_free_frame(f)

Spec == Init /\ [][Next]_vars
-----------------------------------------------------------------------------
(* Properties                                                              *)

\* Every variable keeps its type.
TypeOK == /\ phase \in {"off", "mapped", "ready", "nobitmap"}
          /\ nbits \in Nat /\ ret \in Nat
          /\ marked \subseteq 0 .. nbits - 1
          /\ storage \subseteq Nat /\ stray \subseteq Nat
          /\ window \subseteq Nat
          /\ heap \subseteq Nat /\ held \subseteq Nat

\* A frame somebody owns has its bit set, so that no scan can return it a
\* second time, and the heap's frames are nobody else's.
OwnedAreMarked == /\ heap \cup held \subseteq marked
                  /\ heap \cap held = {}

\* pmm_alloc_frame zeroes the frame it returns.  It is never the bitmap's own
\* storage, nor memory the bootloader did not declare usable.
BitmapSurvives == /\ (Clear \cup heap \cup held) \cap storage = {}
                  /\ Clear \cup heap \cup held \subseteq UsableFrames(entries)

\* However the calls interleave no usable frame gets lost, except those whose
\* bits the rounding in bitmap_size leaves beyond the bitmap: fewer than 8.
NothingLeaks ==
    /\ UsableFrames(entries) = Clear \cup heap \cup held \cup stray
    /\ Cardinality(stray) < BitsPerByte

\* create_heap remaps the direct-map addresses of the window.  Whoever used
\* such an address for the frame would reach the heap instead, so no frame of
\* the window may ever be free or handed to another caller.
WindowIsPrivate == window \cap (Clear \cup held) = {}

\* An answer other than 0 is a frame nobody owned; 0 means that nothing was
\* left and nothing changed.
FreshOrExhausted ==
    [][ret' # ret \/ held' # held =>
         \/ ret' # 0 /\ ret' \in Clear \ (heap \cup held)
         \/ ret' = 0 /\ Clear = {} /\ held' = held
         \/ \E f \in held : held' = held \ {f}]_vars

\* The bitmap implements an allocator that merely keeps two sets.
Abstract == INSTANCE FrameAllocator
              WITH Frame  <- Nat \ {0}, NoFrame <- 0,
                   avail  <- Clear,
                   held   <- heap \cup held,
                   answer <- ret
ImplementsAllocator == Abstract!Spec
=============================================================================
