------------------------------ MODULE KernelHeap ------------------------------
(***************************************************************************)
(* The kernel heap in use: callers ask for memory, write to what they were *)
(* given, give it back or ask to have it resized.  A caller only writes    *)
(* inside its own allocation; whether that damages a header depends on     *)
(* where the allocator put the blocks.                                     *)
(***************************************************************************)
EXTENDS KHeap

CONSTANT Sizes      \* the sizes callers ask for

\* No request is so large that adding it to bytes_allocated wraps around.
ASSUME RequestAssumption == \A s \in Sizes : s \in Nat /\ HeapSize + s < Word

VARIABLES heap,      \* the chain, heap_tail and bytes_allocated
          live,      \* the blocks callers own
          smashed,   \* the blocks whose header, magic number included, is lost
          status,    \* "running", "panic" (a failed ASSERT) or "fault"
          ret        \* the pointer last returned

vars == <<heap, live, smashed, status, ret>>

Init == /\ heap = create_heap
        /\ live = {} /\ smashed = {} /\ status = "running" /\ ret = NULL
-----------------------------------------------------------------------------
\* ASSERT(heap_head->magic == MAGIC), ASSERT(heap_tail->magic == MAGIC)
MagicIntact == {heap_head(heap), heap.tail} \cap smashed = {}

\* kmalloc with its ASSERTs between the two early returns.  A new block's
\* header is freshly written and so is good.
Malloc(size) ==
    /\ status = "running"
    /\ ~ Refuses(heap, size)
    /\ ~ (MagicIntact /\ Full(heap))
    /\ IF MagicIntact
       THEN /\ heap' = kmalloc(heap, size)
            /\ ret' = kmalloc_ptr(heap, size)
            /\ live' = live \cup {ret'}
            /\ smashed' = smashed \ {heap_head(heap) + 1}
            /\ UNCHANGED status
       ELSE /\ status' = "panic"
            /\ UNCHANGED <<heap, live, smashed, ret>>

MallocRefused(size) ==
    /\ status = "running"
    /\ Refuses(heap, size) \/ (MagicIntact /\ Full(heap))
    /\ ret' = NULL
    /\ UNCHANGED <<heap, live, smashed, status>>

\* kfree leaves everything alone when the magic number is gone.
Free(p) ==
    /\ status = "running"
    /\ p \in live
    /\ heap' = IF p \in smashed THEN heap ELSE kfree(heap, p)
    /\ live' = live \ {p}
    /\ UNCHANGED <<smashed, status, ret>>

\* The owner of p fills it.
Write(p) ==
    /\ status = "running"
    /\ p \in live
    /\ smashed' = smashed \cup {i \in DOMAIN heap.blocks :
                                  HeaderBytes(heap, i) \cap DataBytes(heap, p) # {}}
    /\ UNCHANGED <<heap, live, status, ret>>

\* krealloc: kmalloc, copy newsize bytes, kfree.  The copy writes all of the
\* new block.  The old pointer's block is the one that becomes heap_tail.
Realloc(p, newsize) ==
    LET h == kmalloc(heap, newsize)
        q == kmalloc_ptr(heap, newsize)
        hit == {i \in DOMAIN h.blocks : HeaderBytes(h, i) \cap DataBytes(h, q) # {}}
    IN  /\ status = "running"
        /\ p \in live
        /\ ~ Refuses(heap, newsize)
        /\ ~ (MagicIntact /\ Full(heap))
        /\ IF MagicIntact
           THEN /\ smashed' = (smashed \ {heap_head(heap) + 1}) \cup hit
                /\ heap' = IF p \in smashed' THEN h ELSE kfree(h, p)
                /\ live' = (live \ {p}) \cup {q}
                /\ ret' = q
                /\ UNCHANGED status
           ELSE /\ status' = "panic"
                /\ UNCHANGED <<heap, live, smashed, ret>>

\* kmalloc returned NULL and the copy starts at address 0, unless there is
\* nothing to copy: krealloc(p, 0) is kfree(p).
ReallocRefused(p, newsize) ==
    /\ status = "running"
    /\ p \in live
    /\ Refuses(heap, newsize) \/ (MagicIntact /\ Full(heap))
    /\ ret' = NULL
    /\ IF newsize = 0
       THEN /\ heap' = IF p \in smashed THEN heap ELSE kfree(heap, p)
            /\ live' = live \ {p}
            /\ UNCHANGED <<smashed, status>>
       ELSE /\ status' = "fault"
            /\ UNCHANGED <<heap, live, smashed>>

Next == \/ \E s \in Sizes : Malloc(s) \/ MallocRefused(s)
        \/ \E p \in live : Free(p) \/ Write(p)
        \/ \E p \in live, s \in Sizes : Realloc(p, s) \/ ReallocRefused(p, s)

Spec == Init /\ [][Next]_vars
-----------------------------------------------------------------------------
\* Every variable keeps its type.
TypeOK == /\ heap \in Heap
          /\ heap.tail \in DOMAIN heap.blocks
          /\ live \subseteq DOMAIN heap.blocks
          /\ smashed \subseteq DOMAIN heap.blocks
          /\ status \in {"running", "panic", "fault"}
          /\ ret \in Nat

\* What a caller may write is nobody else's memory and no block's header, no
\* matter which calls came before.
AllocationsAreDisjoint ==
    \A p \in live :
        /\ \A q \in live \ {p} : DataBytes(heap, p) \cap DataBytes(heap, q) = {}
        /\ \A i \in DOMAIN heap.blocks : DataBytes(heap, p) \cap HeaderBytes(heap, i) = {}

\* As long as callers stay inside their allocations, "Kernel heap corruption
\* detected" is never reported.
NeverPanics == status # "panic"

\* A pointer that kmalloc returns was never returned before: no use after free
\* can meet a second owner.
NeverHandedOutTwice == [][\A p \in live' \ live : p \notin DOMAIN heap.blocks]_vars

\* The price: kfree gives nothing back, so a size that is refused once is
\* refused for good, whatever is freed in between.
RefusalIsFinal == [][\A s \in Sizes : Refuses(heap, s) => Refuses(heap', s)]_vars

\* Every block but the first is a grant of its data; the headers are the heap's
\* own.
Granted(h) == [i \in 2 .. heap_head(h) |-> DataBytes(h, i)]
Kept(h) == UNION {HeaderBytes(h, i) : i \in DOMAIN h.blocks}

\* The chain implements an arena that never grants a byte twice.
Abstract == INSTANCE Arena
              WITH Budget  <- HeapSize,             Nothing <- NULL,
                   granted <- Granted(heap),        kept    <- Kept(heap),
                   left    <- HeapSize - heap.bytes, answer  <- ret
ImplementsArena == Abstract!Spec
=============================================================================
