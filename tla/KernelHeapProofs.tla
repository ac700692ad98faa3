--------------------------- MODULE KernelHeapProofs ---------------------------
(***************************************************************************)
(* Proofs about the kernel heap: for every header size, heap size and set  *)
(* of requests, and every sequence of calls.                               *)
(***************************************************************************)
EXTENDS KernelHeap, KHeapProofs, FiniteSetTheorems

(* The inductive invariant: the heap is well formed and callers' writes have *)
(* damaged no header.                                                       *)

IInv == /\ TypeOK
        /\ WellFormed(heap)
        /\ smashed = {}
        /\ status # "panic"

LEMMA InitEstablishesIInv == Init => IInv
<1> SUFFICES ASSUME Init PROVE IInv
  OBVIOUS
<1> DEFINE b == [addr |-> 0, size |-> 0, state |-> "USED"]
<1>1. b \in Block
  BY DEF Block, State
<1>2. /\ heap = [blocks |-> <<b>>, tail |-> 1, bytes |-> 0]
      /\ live = {} /\ smashed = {} /\ status = "running" /\ ret = 0
  BY DEF Init, create_heap, NULL
<1>3. <<b>> \in Seq(Block) /\ DOMAIN <<b>> = {1} /\ <<b>>[1].state = "USED"
  BY <1>1
<1> HIDE DEF b
<1>4. heap \in Heap /\ heap.blocks = <<b>> /\ heap.tail = 1 /\ heap.bytes = 0
  BY <1>2, <1>3 DEF Heap
<1>5. WellFormed(heap)
  BY <1>3, <1>4, SizeAssumption DEF WellFormed, Spaced, AllUsed
<1>6. TypeOK
  BY <1>2, <1>3, <1>4 DEF TypeOK
<1> QED BY <1>2, <1>5, <1>6 DEF IInv

\* A step either appends one block, or leaves the blocks alone and at most
\* moves heap_tail.  No step damages a header, so that no ASSERT fails.
GrowStep ==
    \E s \in Sizes :
       /\ ~ Refuses(heap, s)
       /\ \/ heap' = kmalloc(heap, s)
          \/ \E p \in live : heap' = kfree(kmalloc(heap, s), p)
       /\ ret' = kmalloc_ptr(heap, s)
       /\ live' \subseteq live \cup {ret'}
       /\ smashed' = {} /\ status' = status

QuietStep ==
    /\ heap' = heap \/ \E p \in live : heap' = kfree(heap, p)
    /\ ret' \in {ret, NULL} /\ live' \subseteq live
    /\ smashed' = {} /\ status' \in {status, "fault"}

LEMMA StepKinds ==
  ASSUME IInv, [Next]_vars
  PROVE  GrowStep \/ QuietStep
<1>1. /\ WellFormed(heap) /\ smashed = {} /\ MagicIntact
      /\ live \subseteq DOMAIN heap.blocks
  BY DEF IInv, MagicIntact, TypeOK
<1>2. ASSUME NEW s \in Sizes, Malloc(s) PROVE GrowStep
  BY <1>1, <1>2 DEF Malloc, GrowStep
<1>3. ASSUME NEW s \in Sizes, MallocRefused(s) PROVE QuietStep
  BY <1>1, <1>3 DEF MallocRefused, QuietStep
<1>4. ASSUME NEW p \in live, Free(p) PROVE QuietStep
  BY <1>1, <1>4 DEF Free, QuietStep
<1>5. ASSUME NEW p \in live, Write(p) PROVE QuietStep
  <2>1. {i \in DOMAIN heap.blocks :
           HeaderBytes(heap, i) \cap DataBytes(heap, p) # {}} = {}
    BY <1>1, DataIsApart
  <2> QED BY <1>1, <1>5, <2>1 DEF Write, QuietStep
<1>6. ASSUME NEW p \in live, NEW s \in Sizes, Realloc(p, s) PROVE GrowStep
  <2> DEFINE h == kmalloc(heap, s)
             q == kmalloc_ptr(heap, s)
             hit == {i \in DOMAIN h.blocks : HeaderBytes(h, i) \cap DataBytes(h, q) # {}}
  <2>1. s \in Nat /\ HeapSize + s < Word /\ ~ Refuses(heap, s)
    BY <1>6, RequestAssumption DEF Realloc
  <2>2. WellFormed(h) /\ q \in DOMAIN h.blocks
    BY <1>1, <2>1, KmallocProperties
  <2>3. hit = {}
    <3> HIDE DEF h, q
    <3> QED BY <2>2, DataIsApart
  <2>4. /\ smashed' = (smashed \ {heap_head(heap) + 1}) \cup hit
        /\ heap' = IF p \in smashed' THEN h ELSE kfree(h, p)
        /\ live' = (live \ {p}) \cup {q}
        /\ ret' = q
        /\ UNCHANGED status
    BY <1>1, <1>6 DEF Realloc
  <2>5. smashed' = {}
    BY <1>1, <2>3, <2>4
  <2> HIDE DEF hit
  <2> QED BY <2>1, <2>4, <2>5 DEF GrowStep
<1>7. ASSUME NEW p \in live, NEW s \in Sizes, ReallocRefused(p, s) PROVE QuietStep
  BY <1>1, <1>7 DEF ReallocRefused, QuietStep
<1>8. CASE UNCHANGED vars
  BY <1>1, <1>8 DEF vars, QuietStep
<1> QED BY <1>2, <1>3, <1>4, <1>5, <1>6, <1>7, <1>8 DEF Next

\* Blocks are only ever added, and bytes_allocated never shrinks.
LEMMA HeapGrows ==
  ASSUME IInv, [Next]_vars
  PROVE  /\ IInv'
         /\ live' \ live \subseteq {ret'} /\ (live' \ live # {} => ret' \notin DOMAIN heap.blocks)
         /\ heap'.bytes >= heap.bytes
<1>1. WellFormed(heap) /\ live \subseteq DOMAIN heap.blocks /\ status # "panic"
      /\ ret \in Nat /\ status \in {"running", "panic", "fault"}
  BY DEF IInv, TypeOK
<1>2. CASE GrowStep
  <2>1. PICK s \in Sizes :
          /\ ~ Refuses(heap, s)
          /\ \/ heap' = kmalloc(heap, s)
             \/ \E p \in live : heap' = kfree(kmalloc(heap, s), p)
          /\ ret' = kmalloc_ptr(heap, s)
          /\ live' \subseteq live \cup {ret'}
          /\ smashed' = {} /\ status' = status
    BY <1>2 DEF GrowStep
  <2> DEFINE g == kmalloc(heap, s)
             n == Len(heap.blocks)
  <2>2. /\ WellFormed(g) /\ ret' = n + 1
        /\ DOMAIN g.blocks = DOMAIN heap.blocks \cup {n + 1}
        /\ g.bytes >= heap.bytes
    BY <1>1, <2>1, KmallocProperties, RequestAssumption
  <2> HIDE DEF g
  <2>3. /\ WellFormed(heap') /\ heap'.blocks = g.blocks
        /\ heap'.bytes = g.bytes
    <3>1. CASE heap' = g
      BY <3>1, <2>2
    <3>2. ASSUME NEW p \in live, heap' = kfree(g, p)
          PROVE  /\ WellFormed(heap') /\ heap'.blocks = g.blocks
                 /\ heap'.bytes = g.bytes
      <4>1. p \in DOMAIN g.blocks
        BY <1>1, <2>2
      <4> QED BY <3>2, <4>1, <2>2, KfreeProperties
    <3> QED BY <2>1, <3>1, <3>2 DEF g
  <2>4. n \in Nat /\ DOMAIN heap.blocks = 1 .. n
    BY <1>1, BlockType DEF WellFormed
  <2>5. ret' \notin DOMAIN heap.blocks /\ ret' \in DOMAIN heap'.blocks /\ ret' \in Nat
    BY <2>2, <2>3, <2>4
  <2>6. IInv'
    BY <1>1, <2>1, <2>2, <2>3, <2>5 DEF IInv, TypeOK, WellFormed
  <2>7. heap'.bytes >= heap.bytes
    BY <2>2, <2>3
  <2> QED BY <2>1, <2>5, <2>6, <2>7
<1>3. CASE QuietStep
  <2>1. /\ heap' = heap \/ \E p \in live : heap' = kfree(heap, p)
        /\ ret' \in {ret, NULL} /\ live' \subseteq live
        /\ smashed' = {} /\ status' \in {status, "fault"}
    BY <1>3 DEF QuietStep
  <2>2. /\ WellFormed(heap') /\ heap'.blocks = heap.blocks
        /\ heap'.bytes = heap.bytes
    BY <1>1, <2>1, KfreeProperties
  <2>3. IInv'
    BY <1>1, <2>1, <2>2 DEF IInv, TypeOK, WellFormed, NULL
  <2>4. heap.bytes \in Nat
    BY <1>1, BlockType DEF WellFormed
  <2> QED BY <2>1, <2>2, <2>3, <2>4
<1> QED BY StepKinds, <1>2, <1>3

LEMMA InvariantHolds == Spec => []IInv
<1>1. IInv /\ [Next]_vars => IInv'
  BY HeapGrows
<1> QED BY <1>1, InitEstablishesIInv, PTL DEF Spec

\* The chain, the pointers and the counter keep their types.
THEOREM TypeCorrect == Spec => []TypeOK
  BY InvariantHolds, PTL DEF IInv

\* The corruption ASSERTs of kmalloc cannot fire while callers stay inside
\* their allocations.
THEOREM NoFalseAlarm == Spec => []NeverPanics
  BY InvariantHolds, PTL DEF IInv, NeverPanics

\* What a caller owns is no other caller's memory and no header.
THEOREM LiveMemoryIsDisjoint == Spec => []AllocationsAreDisjoint
<1>1. IInv => AllocationsAreDisjoint
  <2> SUFFICES ASSUME IInv PROVE AllocationsAreDisjoint
    OBVIOUS
  <2>1. WellFormed(heap) /\ live \subseteq DOMAIN heap.blocks
    BY DEF IInv, TypeOK
  <2>2. ASSUME NEW p \in live, NEW q \in live \ {p}
        PROVE  DataBytes(heap, p) \cap DataBytes(heap, q) = {}
    BY <2>1, DataIsApart
  <2>3. ASSUME NEW p \in live, NEW i \in DOMAIN heap.blocks
        PROVE  DataBytes(heap, p) \cap HeaderBytes(heap, i) = {}
    BY <2>1, DataIsApart
  <2> QED BY <2>2, <2>3 DEF AllocationsAreDisjoint
<1> QED BY <1>1, InvariantHolds, PTL

\* Every pointer kmalloc returns is new.
THEOREM PointersAreFresh == Spec => NeverHandedOutTwice
<1>1. IInv /\ [Next]_vars => [\A p \in live' \ live : p \notin DOMAIN heap.blocks]_vars
  BY HeapGrows
<1> QED BY <1>1, InvariantHolds, PTL DEF Spec, NeverHandedOutTwice

\* A refused size stays refused.
THEOREM ExhaustionIsForever == Spec => RefusalIsFinal
<1>1. IInv /\ [Next]_vars =>
        [\A s \in Sizes : Refuses(heap, s) => Refuses(heap', s)]_vars
  <2> SUFFICES ASSUME IInv, [Next]_vars, NEW s \in Sizes, Refuses(heap, s)
               PROVE  Refuses(heap', s)
    OBVIOUS
  <2>1. IInv' /\ heap'.bytes >= heap.bytes
    BY HeapGrows
  <2>2. /\ heap.bytes \in Nat /\ heap.bytes <= HeapSize
        /\ heap'.bytes \in Nat /\ heap'.bytes <= HeapSize
    BY <2>1, BlockType DEF IInv, WellFormed
  <2>3. s \in Nat /\ HeapSize + s < Word
    BY RequestAssumption
  <2>4. \A x \in Nat : x <= HeapSize => (x + s) % Word = x + s
    BY <2>3, SizeAssumption
  <2>5. /\ (heap.bytes + s) % Word = heap.bytes + s
        /\ (heap'.bytes + s) % Word = heap'.bytes + s
    BY <2>2, <2>4
  <2> QED BY <2>1, <2>2, <2>3, <2>5, SizeAssumption DEF Refuses
<1> QED BY <1>1, InvariantHolds, PTL DEF Spec, RefusalIsFinal
-----------------------------------------------------------------------------
(* The chain as an arena. *)

\* What a grant of s bytes under pointer q adds to heap h.
OneMore(h, g, q, s) ==
    /\ q \notin DOMAIN Granted(h) \cup {NULL}
    /\ DOMAIN Granted(g) = DOMAIN Granted(h) \cup {q}
    /\ \A p \in DOMAIN Granted(h) : /\ Granted(g)[p] = Granted(h)[p]
                                    /\ Granted(g)[q] \cap Granted(h)[p] = {}
    /\ Cardinality(Granted(g)[q]) = s
    /\ Kept(h) \subseteq Kept(g)
    /\ \A p \in DOMAIN Granted(g) : Granted(g)[p] \cap Kept(g) = {}

\* The chain is all that counts, so that kfree takes nothing away.
LEMMA ChainDecides ==
  ASSUME NEW h, NEW g, g.blocks = h.blocks
  PROVE  Granted(g) = Granted(h) /\ Kept(g) = Kept(h)
  BY DEF Granted, Kept, heap_head, DataBytes, HeaderBytes, DataEnd, DataStart

LEMMA AppendGrants ==
  ASSUME NEW h, WellFormed(h), NEW g, WellFormed(g), NEW s \in Nat,
         g.blocks = Append(h.blocks, NewBlock(h, s))
  PROVE  OneMore(h, g, Len(h.blocks) + 1, s)
<1> DEFINE n == Len(h.blocks)
           b == NewBlock(h, s)
<1>1. /\ h.blocks \in Seq(Block) /\ n \in Nat \ {0} /\ g.blocks \in Seq(Block)
      /\ DOMAIN h.blocks = 1 .. n
  BY BlockType DEF WellFormed
<1>2. b.size = s
  BY DEF NewBlock
<1> HIDE DEF b
<1>3. /\ Len(g.blocks) = n + 1 /\ DOMAIN g.blocks = 1 .. n + 1
      /\ g.blocks[n + 1] = b
      /\ \A i \in 1 .. n : g.blocks[i] = h.blocks[i]
  BY <1>1 DEF b
<1> HIDE DEF n
<1>4. /\ DOMAIN Granted(h) = 2 .. n /\ DOMAIN Granted(g) = 2 .. n + 1
      /\ \A i \in 2 .. n : Granted(h)[i] = DataBytes(h, i)
      /\ \A i \in 2 .. n + 1 : Granted(g)[i] = DataBytes(g, i)
  BY <1>3 DEF Granted, heap_head, n
<1>5. \A i \in 1 .. n : /\ DataBytes(g, i) = DataBytes(h, i)
                        /\ HeaderBytes(g, i) = HeaderBytes(h, i)
  BY <1>3 DEF DataBytes, HeaderBytes, DataStart, DataEnd
<1>6. \A i \in 2 .. n : /\ Granted(g)[i] = Granted(h)[i]
                        /\ Granted(g)[n + 1] \cap Granted(h)[i] = {}
  <2> SUFFICES ASSUME NEW i \in 2 .. n
               PROVE  /\ Granted(g)[i] = Granted(h)[i]
                      /\ Granted(g)[n + 1] \cap Granted(h)[i] = {}
    OBVIOUS
  <2>1. /\ i \in DOMAIN g.blocks /\ n + 1 \in DOMAIN g.blocks /\ n + 1 # i
        /\ i \in 1 .. n /\ i \in 2 .. n + 1 /\ n + 1 \in 2 .. n + 1
    BY <1>1, <1>3
  <2>2. DataBytes(g, n + 1) \cap DataBytes(g, i) = {}
    BY <2>1, DataIsApart
  <2> QED BY <2>1, <2>2, <1>4, <1>5
<1>7. Cardinality(Granted(g)[n + 1]) = s
  <2>1. g.blocks[n + 1].addr \in Nat /\ g.blocks[n + 1].size = s
    BY <1>1, <1>2, <1>3, BlockType DEF WellFormed
  <2>2. PICK a \in Nat : a = g.blocks[n + 1].addr
    BY <2>1
  <2>3. DataBytes(g, n + 1) = a + Hdr .. (a + Hdr + s) - 1
    BY <2>1, <2>2 DEF DataBytes, DataStart, DataEnd
  <2>4. a + Hdr \in Nat
    BY HdrAssumption
  <2>5. PICK lo \in Nat : lo = a + Hdr
    BY <2>4
  <2>6. Cardinality(DataBytes(g, n + 1)) = s
    <3>1. (lo + s) - 1 \in Int
      OBVIOUS
    <3>2. Cardinality(lo .. (lo + s) - 1) = s
      BY <3>1, FS_Interval
    <3> QED BY <2>3, <2>5, <3>2
  <2>7. n + 1 \in 2 .. n + 1
    BY <1>1
  <2> QED BY <2>6, <2>7, <1>4
<1>8. Kept(h) \subseteq Kept(g)
  <2>1. \A i \in 1 .. n : i \in 1 .. n + 1
    BY <1>1
  <2> QED BY <1>1, <1>3, <1>5, <2>1 DEF Kept, n
<1>9. \A i \in 2 .. n + 1 : Granted(g)[i] \cap Kept(g) = {}
  <2>1. \A i \in 2 .. n + 1 : i \in DOMAIN g.blocks
    BY <1>1, <1>3
  <2>2. \A i \in 2 .. n + 1, j \in DOMAIN g.blocks :
           HeaderBytes(g, j) \cap DataBytes(g, i) = {}
    BY <2>1, DataIsApart
  <2> QED BY <2>2, <1>4 DEF Kept
<1>10. /\ n + 1 \notin 2 .. n \cup {NULL}
       /\ 2 .. n + 1 = 2 .. n \cup {n + 1}
  BY <1>1 DEF NULL
<1>11. OneMore(h, g, n + 1, s)
  BY <1>4, <1>6, <1>7, <1>8, <1>9, <1>10 DEF OneMore
<1> QED BY <1>11 DEF n

\* The arena counts as everyone does.
LEMMA SameCardinality == \A S : Abstract!Cardinality(S) = Cardinality(S)
  BY DEF Cardinality, Abstract!Cardinality

\* Nothing, or one pointer, is given back in exchange.
LEMMA OneBack == \A p : Cardinality({}) = 0 /\ Cardinality({p}) = 1
  BY FS_EmptySet, FS_Singleton

\* A request is refused exactly when it does not fit into what is left.
LEMMA RefusedIffTooMuch ==
  ASSUME WellFormed(heap), NEW s \in Sizes
  PROVE  (Refuses(heap, s) \/ Full(heap)) <=> s \notin 1 .. HeapSize - heap.bytes
<1>1. heap.bytes \in Nat /\ heap.bytes <= HeapSize
  BY BlockType DEF WellFormed
<1>2. s \in Nat /\ HeapSize + s < Word
  BY RequestAssumption
<1>3. (heap.bytes + s) % Word = heap.bytes + s
  BY <1>1, <1>2, SizeAssumption
<1> QED BY <1>1, <1>2, <1>3, SizeAssumption DEF Refuses, Full

\* A heap as kmalloc leaves it is a grant, whatever was freed on top of it.
LEMMA MallocGrants ==
  ASSUME IInv, NEW s \in Sizes, ~ Refuses(heap, s), ~ Full(heap),
         NEW back \in SUBSET live, Cardinality(back) <= 1,
         heap'.blocks = kmalloc(heap, s).blocks, heap'.bytes = kmalloc(heap, s).bytes,
         WellFormed(heap'),
         ret' = kmalloc_ptr(heap, s), live' = (live \ back) \cup {ret'}
  PROVE  Abstract!Grant(s, back)
<1>1. WellFormed(heap) /\ s \in Nat /\ HeapSize + s < Word
  BY RequestAssumption DEF IInv
<1>2. /\ kmalloc_ptr(heap, s) = Len(heap.blocks) + 1
      /\ kmalloc(heap, s).blocks = Append(heap.blocks, NewBlock(heap, s))
      /\ kmalloc(heap, s).bytes = heap.bytes + s
  BY <1>1, KmallocProperties
<1>3. OneMore(heap, heap', ret', s)
  BY <1>1, <1>2, AppendGrants
<1>4. Granted(heap)' = Granted(heap') /\ Kept(heap)' = Kept(heap')
  OBVIOUS
<1>5. s \in 1 .. HeapSize - heap.bytes
  BY <1>1, RefusedIffTooMuch
<1>6. HeapSize - heap'.bytes = (HeapSize - heap.bytes) - s
  <2>1. heap.bytes \in Nat
    BY <1>1, BlockType DEF WellFormed
  <2> QED BY <1>1, <1>2, <2>1, SizeAssumption
<1> QED BY <1>3, <1>4, <1>5, <1>6, SameCardinality DEF Abstract!Grant, OneMore

\* A refusal leaves the chain as it is.
LEMMA RefusalsAreRefusals ==
  ASSUME IInv, NEW s \in Sizes, Refuses(heap, s) \/ Full(heap),
         NEW back \in SUBSET live, Cardinality(back) <= 1, back # {} => s = 0,
         heap'.blocks = heap.blocks, heap'.bytes = heap.bytes,
         ret' = NULL, live' = live \ back
  PROVE  Abstract!Refuse(s, back)
<1>1. WellFormed(heap)
  BY DEF IInv
<1>2. Granted(heap') = Granted(heap) /\ Kept(heap') = Kept(heap)
  BY ChainDecides
<1>3. s \notin 1 .. HeapSize - heap.bytes
  BY <1>1, RefusedIffTooMuch
<1> QED BY <1>2, <1>3, SameCardinality DEF Abstract!Refuse

\* The chain of headers implements the arena: kmalloc grants what is asked for,
\* in memory of its own, exactly as long as bytes_allocated stays within the
\* heap's size; kfree makes no byte grantable again; krealloc is a grant or a
\* refusal; and what a caller writes goes unnoticed.
THEOREM HeapImplementsArena == Spec => ImplementsArena
<1>1. Init => Abstract!Init
  <2> SUFFICES ASSUME Init PROVE Abstract!Init
    OBVIOUS
  <2>1. heap_head(heap) = 1 /\ heap.bytes = 0 /\ live = {} /\ ret = NULL
    BY DEF Init, create_heap, heap_head
  <2>2. DOMAIN Granted(heap) = {}
    BY <2>1 DEF Granted
  <2> QED BY <2>1, <2>2, SizeAssumption DEF Abstract!Init
<1>2. IInv /\ [Next]_vars => [Abstract!Next]_(Abstract!vars)
  <2> SUFFICES ASSUME IInv, [Next]_vars
               PROVE  Abstract!Next \/ UNCHANGED Abstract!vars
    OBVIOUS
  <2>1. /\ WellFormed(heap) /\ smashed = {} /\ MagicIntact
        /\ live \subseteq DOMAIN heap.blocks
        /\ IInv' /\ WellFormed(heap')
    BY HeapGrows DEF IInv, MagicIntact, TypeOK
  <2>2. \A p \in live : /\ kfree(heap, p).blocks = heap.blocks
                        /\ kfree(heap, p).bytes = heap.bytes
    BY <2>1, KfreeProperties
  <2>3. ASSUME heap'.blocks = heap.blocks, heap'.bytes = heap.bytes
        PROVE  Granted(heap)' = Granted(heap) /\ Kept(heap)' = Kept(heap)
    BY <2>3, ChainDecides
  <2>4. ASSUME NEW s \in Sizes, Malloc(s) PROVE Abstract!Next
    <3>1. Abstract!Grant(s, {})
      BY <2>1, <2>4, OneBack, MallocGrants DEF Malloc
    <3> QED BY <3>1 DEF Abstract!Next
  <2>5. ASSUME NEW s \in Sizes, MallocRefused(s) PROVE Abstract!Next
    <3>1. Abstract!Refuse(s, {})
      BY <2>1, <2>5, OneBack, RefusalsAreRefusals DEF MallocRefused
    <3> QED BY <3>1 DEF Abstract!Next
  <2>6. ASSUME NEW p \in live, Free(p) PROVE Abstract!Next
    <3>1. /\ heap'.blocks = heap.blocks /\ heap'.bytes = heap.bytes
          /\ live' = live \ {p} /\ ret' = ret
      BY <2>1, <2>2, <2>6 DEF Free
    <3>2. Abstract!Release(p)
      BY <3>1, <2>3 DEF Abstract!Release
    <3> QED BY <3>2 DEF Abstract!Next
  <2>7. ASSUME NEW p \in live, Write(p) PROVE UNCHANGED Abstract!vars
    BY <2>7 DEF Write, Abstract!vars
  <2>8. ASSUME NEW p \in live, NEW s \in Sizes, Realloc(p, s) PROVE Abstract!Next
    <3>1. PICK h : h = kmalloc(heap, s)
      OBVIOUS
    <3>2. /\ ~ Refuses(heap, s) /\ ~ Full(heap)
          /\ heap' = h \/ heap' = kfree(h, p)
          /\ ret' = kmalloc_ptr(heap, s) /\ live' = (live \ {p}) \cup {ret'}
      BY <2>1, <2>8, <3>1 DEF Realloc
    <3>3. WellFormed(h) /\ p \in DOMAIN h.blocks
      BY <2>1, <3>1, <3>2, KmallocProperties, RequestAssumption
    <3>4. heap'.blocks = h.blocks /\ heap'.bytes = h.bytes
      BY <3>2, <3>3, KfreeProperties
    <3>5. {p} \in SUBSET live /\ Cardinality({p}) <= 1
      BY OneBack
    <3>6. Abstract!Grant(s, {p})
      BY <2>1, <3>1, <3>2, <3>4, <3>5, MallocGrants
    <3> QED BY <3>5, <3>6 DEF Abstract!Next
  <2>9. ASSUME NEW p \in live, NEW s \in Sizes, ReallocRefused(p, s)
        PROVE  Abstract!Next
    <3>1. /\ Refuses(heap, s) \/ Full(heap)
          /\ heap'.blocks = heap.blocks /\ heap'.bytes = heap.bytes /\ ret' = NULL
      BY <2>1, <2>2, <2>9 DEF ReallocRefused
    <3>2. CASE s = 0
      <4>1. live' = live \ {p}
        BY <2>9, <3>2 DEF ReallocRefused
      <4>2. {p} \in SUBSET live /\ Cardinality({p}) <= 1
        BY OneBack
      <4>3. Abstract!Refuse(s, {p})
        BY <3>1, <3>2, <4>1, <4>2, RefusalsAreRefusals
      <4> QED BY <4>2, <4>3 DEF Abstract!Next
    <3>3. CASE s # 0
      <4>1. live' = live
        BY <2>9, <3>3 DEF ReallocRefused
      <4>2. Abstract!Refuse(s, {})
        BY <3>1, <4>1, OneBack, RefusalsAreRefusals
      <4> QED BY <4>2 DEF Abstract!Next
    <3> QED BY <3>2, <3>3
  <2>10. CASE UNCHANGED vars
    BY <2>10 DEF vars, Abstract!vars
  <2> QED BY <2>4, <2>5, <2>6, <2>7, <2>8, <2>9, <2>10 DEF Next
<1> QED BY <1>1, <1>2, InvariantHolds, PTL DEF Spec, ImplementsArena, Abstract!Spec
=============================================================================
