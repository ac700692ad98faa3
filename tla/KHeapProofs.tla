----------------------------- MODULE KHeapProofs -----------------------------
(***************************************************************************)
(* Lemmas about the heap's data structure, for every header size and heap  *)
(* size: what kmalloc and kfree keep.                                      *)
(***************************************************************************)
EXTENDS KHeap, TLAPS

\* Each block ends before the next one begins: what makes allocations disjoint.
Spaced(h) == \A i, j \in DOMAIN h.blocks :
                i < j => h.blocks[i].addr + Hdr + h.blocks[i].size <= h.blocks[j].addr

\* Nothing ever becomes FREE: what makes first_fit fail and every call append.
AllUsed(h) == \A i \in DOMAIN h.blocks : h.blocks[i].state = "USED"

WellFormed(h) == /\ h \in Heap
                 /\ h.tail \in DOMAIN h.blocks
                 /\ Spaced(h)
                 /\ AllUsed(h)
                 /\ h.bytes <= HeapSize

LEMMA BlockType ==
  ASSUME NEW h \in Heap
  PROVE  /\ h.blocks \in Seq(Block)
         /\ h.tail \in Nat /\ h.bytes \in Nat
         /\ \A i \in DOMAIN h.blocks :
               /\ h.blocks[i] \in Block
               /\ h.blocks[i].addr \in Nat /\ h.blocks[i].size \in Nat
<1>1. h.blocks \in Seq(Block) /\ h.tail \in Nat /\ h.bytes \in Nat
  BY DEF Heap
<1>2. \A b \in Block : b.addr \in Nat /\ b.size \in Nat
  BY DEF Block
<1> QED BY <1>1, <1>2

LEMMA NothingFits ==
  ASSUME NEW h, WellFormed(h), NEW size
  PROVE  first_fit(h, size) = NULL
<1>1. h.blocks \in Seq(Block) /\ h.tail \in 1 .. Len(h.blocks)
  BY BlockType DEF WellFormed
<1>2. Fitting(h, size) = {}
  <2>1. \A i \in h.tail .. heap_head(h) : i \in DOMAIN h.blocks
    BY <1>1 DEF heap_head
  <2>2. "USED" # "FREE"
    OBVIOUS
  <2> QED BY <2>1, <2>2 DEF Fitting, WellFormed, AllUsed
<1> QED BY <1>2 DEF first_fit

\* kmalloc appends one block, after everything that exists.
LEMMA KmallocProperties ==
  ASSUME NEW h, WellFormed(h), NEW size \in Nat, HeapSize + size < Word,
         ~ Refuses(h, size)
  PROVE  /\ WellFormed(kmalloc(h, size))
         /\ kmalloc_ptr(h, size) = Len(h.blocks) + 1
         /\ kmalloc(h, size).blocks = Append(h.blocks, NewBlock(h, size))
         /\ DOMAIN kmalloc(h, size).blocks = DOMAIN h.blocks \cup {Len(h.blocks) + 1}
         /\ kmalloc(h, size).bytes = h.bytes + size
         /\ kmalloc(h, size).bytes >= h.bytes
<1> DEFINE n == Len(h.blocks)
           g == kmalloc(h, size)
           b == NewBlock(h, size)
           l == h.blocks[n]
<1>1. /\ h \in Heap /\ h.blocks \in Seq(Block) /\ h.bytes \in Nat
      /\ h.tail \in DOMAIN h.blocks /\ h.bytes <= HeapSize
      /\ Spaced(h) /\ AllUsed(h)
  BY BlockType DEF WellFormed
<1>2. n \in Nat \ {0} /\ n \in DOMAIN h.blocks
  BY <1>1
<1>3. \A i \in DOMAIN h.blocks :
         h.blocks[i] \in Block /\ h.blocks[i].addr \in Nat /\ h.blocks[i].size \in Nat
  BY <1>1, BlockType
<1>4. g = [blocks |-> Append(h.blocks, b), tail |-> n + 1, bytes |-> (h.bytes + size) % Word]
  BY NothingFits DEF kmalloc, heap_head
<1>5. /\ (h.bytes + size) % Word = h.bytes + size
      /\ h.bytes + size <= HeapSize
  <2>1. h.bytes + size \in Nat /\ h.bytes + size < Word
    BY <1>1, SizeAssumption
  <2>2. (h.bytes + size) % Word = h.bytes + size
    BY <2>1, SizeAssumption
  <2>3. (h.bytes + size) % Word <= HeapSize
    BY <2>1, <2>2, SizeAssumption DEF Refuses
  <2> QED BY <2>2, <2>3
<1>6. b = [addr |-> l.addr + Hdr * l.size + Hdr, size |-> size, state |-> "USED"]
  BY DEF NewBlock, NextAddr, heap_head
<1>7. /\ b.addr \in Nat /\ b \in Block /\ b.state = "USED"
      /\ l.addr + Hdr + l.size <= b.addr
  <2>1. l.addr \in Nat /\ l.size \in Nat
    BY <1>2, <1>3
  <2> DEFINE a == l.addr
             s == l.size
  <2> HIDE DEF a, s
  <2>2. Hdr * s \in Nat /\ s <= Hdr * s
    <3>1. s \in Nat /\ Hdr \in Nat /\ Hdr - 1 \in Nat
      BY <2>1, HdrAssumption DEF s
    <3>2. (Hdr - 1) * s \in Nat
      BY <3>1
    <3>3. Hdr * s = (Hdr - 1) * s + s
      BY <3>1
    <3> QED BY <3>1, <3>2, <3>3
  <2>3. a \in Nat /\ s \in Nat
    BY <2>1 DEF a, s
  <2>4. a + Hdr * s + Hdr \in Nat /\ a + Hdr + s <= a + Hdr * s + Hdr
    BY <2>2, <2>3, HdrAssumption
  <2>5. b = [addr |-> a + Hdr * s + Hdr, size |-> size, state |-> "USED"]
    BY <1>6 DEF a, s
  <2> QED BY <2>4, <2>5 DEF Block, State, a, s
<1> HIDE DEF b, g, n, l
<1>8. /\ g.blocks \in Seq(Block)
      /\ DOMAIN g.blocks = 1 .. n + 1
      /\ DOMAIN h.blocks = 1 .. n
      /\ \A i \in 1 .. n : g.blocks[i] = h.blocks[i]
      /\ g.blocks[n + 1] = b
  BY <1>1, <1>2, <1>4, <1>7 DEF n
<1>9. g \in Heap /\ g.tail \in DOMAIN g.blocks
  BY <1>1, <1>2, <1>4, <1>5, <1>8 DEF Heap
<1>10. AllUsed(g)
  BY <1>1, <1>2, <1>7, <1>8 DEF AllUsed
<1>s. \A i, j \in 1 .. n : i < j =>
         h.blocks[i].addr + Hdr + h.blocks[i].size <= h.blocks[j].addr
  BY <1>1, <1>8, Zenon DEF Spaced
<1>11. Spaced(g)
  <2> SUFFICES ASSUME NEW i \in 1 .. n + 1, NEW j \in 1 .. n + 1, i < j
               PROVE  g.blocks[i].addr + Hdr + g.blocks[i].size <= g.blocks[j].addr
    BY <1>8 DEF Spaced
  <2>1. CASE j <= n
    <3>1. i \in 1 .. n /\ j \in 1 .. n
      BY <2>1, <1>2
    <3>2. g.blocks[i] = h.blocks[i] /\ g.blocks[j] = h.blocks[j]
      BY <3>1, <1>8
    <3> QED BY <3>1, <3>2, <1>s
  <2>2. CASE j = n + 1 /\ i = n
    BY <2>2, <1>2, <1>7, <1>8 DEF l
  <2>3. CASE j = n + 1 /\ i < n
    <3>1. /\ i \in DOMAIN h.blocks /\ n \in DOMAIN h.blocks
          /\ h.blocks[i].addr + Hdr + h.blocks[i].size <= h.blocks[n].addr
      <4>1. i \in 1 .. n /\ n \in 1 .. n
        BY <2>3, <1>2
      <4> QED BY <4>1, <2>3, <1>s, <1>8
    <3>2. /\ h.blocks[i].addr + Hdr + h.blocks[i].size \in Nat
          /\ l.addr \in Nat /\ l.size \in Nat
          /\ l.addr = h.blocks[n].addr
      BY <3>1, <1>3, HdrAssumption DEF l
    <3>3. l.addr <= b.addr
      BY <3>2, <1>7, HdrAssumption
    <3>4. g.blocks[i] = h.blocks[i] /\ g.blocks[j] = b
      BY <2>3, <1>2, <1>8
    <3> QED BY <3>1, <3>2, <3>3, <3>4, <1>7
  <2> QED BY <2>1, <2>2, <2>3, <1>2
<1>12. g.bytes = h.bytes + size
  BY <1>4, <1>5
<1>13. kmalloc_ptr(h, size) = n + 1
  BY NothingFits DEF kmalloc_ptr, heap_head, n
<1>14. WellFormed(g)
  BY <1>5, <1>9, <1>10, <1>11, <1>12 DEF WellFormed
<1>15. DOMAIN g.blocks = DOMAIN h.blocks \cup {n + 1}
  BY <1>2, <1>8
<1>16. g.bytes >= h.bytes
  BY <1>1, <1>12
<1>17. g.blocks = Append(h.blocks, b)
  BY <1>4
<1> QED BY <1>12, <1>13, <1>14, <1>15, <1>16, <1>17 DEF g, n, b

\* kfree's loop stops before its first round: only heap_tail changes.
LEMMA KfreeProperties ==
  ASSUME NEW h, WellFormed(h), NEW p \in DOMAIN h.blocks
  PROVE  /\ WellFormed(kfree(h, p))
         /\ kfree(h, p).blocks = h.blocks
         /\ kfree(h, p).bytes = h.bytes
<1>1. h \in Heap /\ h.blocks \in Seq(Block) /\ p \in Nat
  BY BlockType DEF WellFormed
<1>2. Visited(h, p) = {}
  <2>1. \A k \in p .. heap_head(h) : p \in p .. k
    BY <1>1 DEF heap_head
  <2> QED BY <2>1 DEF Visited
<1>3. [i \in DOMAIN h.blocks |-> IF i \in Visited(h, p)
                                 THEN [h.blocks[i] EXCEPT !.state = "FREE"]
                                 ELSE h.blocks[i]] = h.blocks
  BY <1>1, <1>2
<1>4. kfree(h, p) = [h EXCEPT !.blocks = h.blocks, !.tail = p]
  BY <1>3 DEF kfree
<1>5. /\ kfree(h, p).blocks = h.blocks
      /\ kfree(h, p).bytes = h.bytes
      /\ kfree(h, p).tail = p
      /\ kfree(h, p) \in Heap
  BY <1>1, <1>4 DEF Heap
<1> QED BY <1>5 DEF WellFormed, Spaced, AllUsed

\* In a well-formed heap the data of a block meets no header and no other data.
LEMMA DataIsApart ==
  ASSUME NEW h, WellFormed(h), NEW p \in DOMAIN h.blocks, NEW i \in DOMAIN h.blocks
  PROVE  /\ HeaderBytes(h, i) \cap DataBytes(h, p) = {}
         /\ i # p => DataBytes(h, i) \cap DataBytes(h, p) = {}
<1>1. /\ h \in Heap /\ i \in Nat /\ p \in Nat
      /\ h.blocks[i].addr \in Nat /\ h.blocks[i].size \in Nat
      /\ h.blocks[p].addr \in Nat /\ h.blocks[p].size \in Nat
  BY BlockType DEF WellFormed
<1>2. /\ i < p => h.blocks[i].addr + Hdr + h.blocks[i].size <= h.blocks[p].addr
      /\ p < i => h.blocks[p].addr + Hdr + h.blocks[p].size <= h.blocks[i].addr
  BY DEF WellFormed, Spaced
<1> DEFINE a == h.blocks[i].addr
           s == h.blocks[i].size
           b == h.blocks[p].addr
           t == h.blocks[p].size
<1>3. /\ HeaderBytes(h, i) = a .. (a + Hdr) - 1
      /\ DataBytes(h, i) = a + Hdr .. (a + Hdr + s) - 1
      /\ DataBytes(h, p) = b + Hdr .. (b + Hdr + t) - 1
  BY DEF HeaderBytes, DataBytes, DataStart, DataEnd
<1>4. /\ a \in Nat /\ s \in Nat /\ b \in Nat /\ t \in Nat
      /\ i < p => a + Hdr + s <= b
      /\ p < i => b + Hdr + t <= a
      /\ i = p => a = b
  BY <1>1, <1>2
<1> HIDE DEF a, s, b, t
<1>5. i < p \/ p < i \/ i = p
  BY <1>1
<1> QED BY <1>1, <1>3, <1>4, <1>5, HdrAssumption

\* create_heap's heap is well formed.
LEMMA CreatedIsWellFormed == WellFormed(create_heap)
<1> DEFINE b == [addr |-> 0, size |-> 0, state |-> "USED"]
<1>1. b \in Block
  BY DEF Block, State
<1>2. create_heap = [blocks |-> <<b>>, tail |-> 1, bytes |-> 0]
  BY DEF create_heap
<1>3. <<b>> \in Seq(Block) /\ DOMAIN <<b>> = {1} /\ <<b>>[1].state = "USED"
  BY <1>1
<1> HIDE DEF b
<1>4. create_heap \in Heap
  BY <1>2, <1>3 DEF Heap
<1> QED BY <1>2, <1>3, <1>4, SizeAssumption DEF WellFormed, Spaced, AllUsed

\* Two heaps of which the second has all blocks of the first.
Extends(g, h) == /\ DOMAIN h.blocks \subseteq DOMAIN g.blocks
                 /\ \A i \in DOMAIN h.blocks : g.blocks[i] = h.blocks[i]

\* A call either fails and changes nothing, or returns a block that was not there
\* and counts its bytes.
LEMMA TryProperties ==
  ASSUME NEW h, WellFormed(h), NEW size \in Nat, HeapSize + size < Word
  PROVE  /\ WellFormed(Try(h, size).heap)
         /\ Extends(Try(h, size).heap, h)
         /\ Try(h, size).ptr \in Nat
         /\ Try(h, size).ptr # NULL =>
               /\ Try(h, size).ptr \in DOMAIN Try(h, size).heap.blocks
               /\ Try(h, size).ptr \notin DOMAIN h.blocks
               /\ Try(h, size).heap.blocks[Try(h, size).ptr].size = size
               /\ Try(h, size).heap.bytes = h.bytes + size
<1>1. h.blocks \in Seq(Block) /\ h \in Heap
  BY BlockType DEF WellFormed
<1>2. CASE Refuses(h, size) \/ Full(h)
  <2>1. Try(h, size) = [heap |-> h, ptr |-> NULL]
    BY <1>2 DEF Try
  <2> QED BY <2>1 DEF Extends, NULL
<1>3. CASE ~ (Refuses(h, size) \/ Full(h))
  <2> DEFINE g == kmalloc(h, size)
             n == Len(h.blocks)
             b == NewBlock(h, size)
  <2>1. Try(h, size) = [heap |-> g, ptr |-> n + 1]
    BY <1>3, KmallocProperties DEF Try
  <2>2. /\ WellFormed(g) /\ g.blocks = Append(h.blocks, b)
        /\ DOMAIN g.blocks = DOMAIN h.blocks \cup {n + 1}
        /\ g.bytes = h.bytes + size
    BY <1>3, KmallocProperties
  <2>3. b.size = size
    BY DEF NewBlock
  <2>4. n \in Nat /\ DOMAIN h.blocks = 1 .. n
    BY <1>1
  <2> HIDE DEF b, n, g
  <2>5. g.blocks[n + 1] = b /\ \A i \in 1 .. n : g.blocks[i] = h.blocks[i]
    BY <1>1, <2>2, <2>4 DEF n
  <2>6. Extends(g, h)
    BY <2>2, <2>4, <2>5 DEF Extends
  <2>7. n + 1 \in Nat /\ n + 1 \notin DOMAIN h.blocks
    BY <2>4
  <2> QED BY <2>1, <2>2, <2>3, <2>5, <2>6, <2>7
<1> QED BY <1>2, <1>3
=============================================================================
