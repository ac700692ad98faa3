-------------------------------- MODULE KHeap --------------------------------
(***************************************************************************)
(* The data structure of the kernel heap, sys/src/mm/heap.c, as functions  *)
(* of its state: the block chain, heap_tail and bytes_allocated.           *)
(*                                                                         *)
(* Addresses count from the start of the heap.  A block is named by its    *)
(* place in the chain: `next' of block i is block i + 1, and heap_head,    *)
(* despite its name, is always the last block.  A caller's pointer is the  *)
(* number of its block, 0 for NULL.                                        *)
(***************************************************************************)
EXTENDS Integers, Sequences, FiniteSets, FiniteSetsExt

CONSTANTS Hdr,        \* sizeof(heapblk_t)
          HeapSize,   \* heap_size
          Word        \* 2^64: sizes are added modulo this

ASSUME HdrAssumption  == Hdr \in Nat \ {0}
ASSUME SizeAssumption == HeapSize \in Nat /\ Word \in Nat /\ HeapSize < Word

NULL == 0

State == {"USED", "FREE"}
Block == [addr : Nat, size : Nat, state : State]
Heap  == [blocks : Seq(Block), tail : Nat, bytes : Nat]

\* Slip: heap_tail is left NULL.
create_heap_tailless == [blocks |-> <<[addr |-> 0, size |-> 0, state |-> "USED"]>>,
                         tail   |-> NULL,
                         bytes  |-> 0]

\* create_heap: one empty block, which is never handed out.
create_heap == [blocks |-> <<[addr |-> 0, size |-> 0, state |-> "USED"]>>,
                tail   |-> 1,
                bytes  |-> 0]

heap_head(h) == Len(h.blocks)

\* DATA_START, and the last address before the block's data ends.
DataStart(h, i) == h.blocks[i].addr + Hdr
DataEnd(h, i) == DataStart(h, i) + h.blocks[i].size

HeaderBytes(h, i) == h.blocks[i].addr .. DataStart(h, i) - 1
DataBytes(h, i) == DataStart(h, i) .. DataEnd(h, i) - 1

\* The scan runs from heap_tail to the end of the chain.
Fitting(h, size) == {i \in h.tail .. heap_head(h) : /\ h.blocks[i].state = "FREE"
                                                    /\ h.blocks[i].size >= size}

first_fit(h, size) == IF Fitting(h, size) = {} THEN NULL ELSE Min(Fitting(h, size))

\* The first early return of kmalloc; the second one comes after its ASSERTs.
Refuses(h, size) == \/ (h.bytes + size) % Word > HeapSize
                    \/ size = 0

Full(h) == h.bytes >= HeapSize

\* Slip: the new block starts where the last one's data would end if it had
\* no header.
NextAddr_headerless(h) == LET b == h.blocks[heap_head(h)] IN b.addr + b.size

\* DATA_START(heap_head + heap_head->size): the sum is pointer arithmetic on
\* headers, so a block of s bytes is followed by a gap of about 23 * s bytes.
NextAddr(h) == LET b == h.blocks[heap_head(h)] IN b.addr + Hdr * b.size + Hdr

NewBlock(h, size) == [addr |-> NextAddr(h), size |-> size, state |-> "USED"]

\* A block that fits is returned as it is: it stays FREE.  Otherwise a block is
\* appended and heap_tail moves to it.
kmalloc(h, size) ==
    IF first_fit(h, size) = NULL
    THEN [blocks |-> Append(h.blocks, NewBlock(h, size)),
          tail   |-> heap_head(h) + 1,
          bytes  |-> (h.bytes + size) % Word]
    ELSE [h EXCEPT !.bytes = (@ + size) % Word]

kmalloc_ptr(h, size) ==
    IF first_fit(h, size) = NULL THEN heap_head(h) + 1 ELSE first_fit(h, size)

\* One call of kmalloc on an intact heap: what it leaves and what it returns.
Try(h, size) == IF Refuses(h, size) \/ Full(h)
                THEN [heap |-> h, ptr |-> NULL]
                ELSE [heap |-> kmalloc(h, size), ptr |-> kmalloc_ptr(h, size)]

\* The loop of kfree marks blocks from the freed one on, until it meets the
\* block whose data the pointer is: it meets that one first.
Visited(h, p) == {k \in p .. heap_head(h) :
                    \A j \in p .. k : DataStart(h, j) # DataStart(h, p)}

\* Slip: the freed block itself is marked, and its bytes are given back.
kfree_marks(h, p) ==
    [h EXCEPT !.blocks = [@ EXCEPT ![p].state = "FREE"],
              !.tail = p,
              !.bytes = @ - h.blocks[p].size]

kfree(h, p) ==
    [h EXCEPT !.blocks = [i \in DOMAIN @ |->
                            IF i \in Visited(h, p) THEN [@[i] EXCEPT !.state = "FREE"]
                                                   ELSE @[i]],
              !.tail = p]
=============================================================================
